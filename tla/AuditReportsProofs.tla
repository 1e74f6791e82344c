------------------------- MODULE AuditReportsProofs -------------------------
(***************************************************************************)
(* Theorems about the in-memory evidence store and what is read from it:   *)
(* the packages with their verdicts, the reports and the audit queries,    *)
(* for any number of threads, events, requests and queries.                *)
(***************************************************************************)
EXTENDS AuditReports, ListProofs

Appenders == [at : {"idle", "hashed"}, event : Events \cup {NoEvent}, previous : Seq(Events)]

TypeInv ==
    /\ rows \in Seq(Rows(Events))
    /\ appender \in [Threads -> Appenders]

Stored(s, event) == \E i \in 1..Len(s) : s[i].event = event

\* An append is of an event no other append is of, and that is not stored.
CallsAreDistinct ==
    /\ \A t \in Threads :
           IF appender[t].at = "idle"
             THEN appender[t].event = NoEvent
             ELSE appender[t].event \in Events /\ ~Stored(rows, appender[t].event)
    /\ \A t, u \in Threads :
           appender[t].event = appender[u].event /\ appender[u].event # NoEvent => t = u

\* An append holds a hash the log ended with at some time.
HashesWereTails ==
    \A t \in Threads : appender[t].at = "hashed" =>
        \E k \in 0..Len(rows) : appender[t].previous = HashAt(rows, k)

StoreInv ==
    TypeInv /\ CallsAreDistinct /\ HashesWereTails /\ Chained(rows) /\ BrokenMeansForked

----------------------------------------------------------------------------
(* The store.                                                              *)

LEMMA IdleType == Idle \in Appenders /\ Idle.at = "idle" /\ Idle.event = NoEvent
  BY EmptySeq DEF Idle, Appenders

LEMMA StoreInvInit == Init => StoreInv
<1> SUFFICES ASSUME Init PROVE StoreInv
  OBVIOUS
<1>1. rows = <<>> /\ Len(rows) = 0 /\ DOMAIN rows = {}
  BY EmptySeq DEF Init
<1>2. TypeInv
  BY IdleType, EmptySeq DEF Init, TypeInv
<1> QED
  BY <1>1, <1>2, IdleType
  DEF Init, StoreInv, CallsAreDistinct, HashesWereTails, Chained, BrokenMeansForked,
      Verifies, Forked

LEMMA ReadTailStep ==
    ASSUME StoreInv, NEW t \in Threads, NEW event \in Events, ReadTail(t, event)
    PROVE  StoreInv'
<1> DEFINE k == [at |-> "hashed", event |-> event, previous |-> TailHash(rows)]
<1>1. /\ rows \in Seq(Rows(Events)) /\ rows' = rows /\ Len(rows) \in Nat
      /\ DOMAIN rows = 1..Len(rows)
      /\ TailHash(rows) = HashAt(rows, Len(rows))
      /\ TailHash(rows) \in Seq(Events)
  BY LenProperties, TailIsLast, HashAtType DEF StoreInv, TypeInv, ReadTail
<1>2. /\ k \in Appenders
      /\ k.at = "hashed" /\ k.event = event /\ k.previous = HashAt(rows, Len(rows))
  BY <1>1 DEF Appenders
<1>3. /\ appender'[t] = k
      /\ \A u \in Threads \ {t} : appender'[u] = appender[u]
      /\ appender' \in [Threads -> Appenders]
  BY <1>2 DEF StoreInv, TypeInv, ReadTail
<1> HIDE DEF k
<1>4. ~Stored(rows, event) /\ \A u \in Threads : appender[u].event # event
  BY <1>1 DEF ReadTail, Started, Stored
<1>5. CallsAreDistinct'
  <2>1. \A u \in Threads :
            IF appender'[u].at = "idle"
              THEN appender'[u].event = NoEvent
              ELSE appender'[u].event \in Events /\ ~Stored(rows', appender'[u].event)
    BY <1>1, <1>2, <1>3, <1>4 DEF StoreInv, CallsAreDistinct, Stored
  <2>2. \A u, v \in Threads :
            appender'[u].event = appender'[v].event /\ appender'[v].event # NoEvent => u = v
    BY <1>2, <1>3, <1>4 DEF StoreInv, CallsAreDistinct
  <2> QED  BY <2>1, <2>2 DEF CallsAreDistinct
<1>6. HashesWereTails'
  BY <1>1, <1>2, <1>3 DEF StoreInv, HashesWereTails
<1>7. BrokenMeansForked'
  BY <1>1 DEF StoreInv, BrokenMeansForked, Verifies, RowVerifies, Forked
<1> QED  BY <1>1, <1>3, <1>5, <1>6, <1>7 DEF StoreInv, TypeInv

\* The row that is appended was chained to the log as it was after k rows.
LEMMA AppendRowAdds ==
    ASSUME StoreInv, NEW t \in Threads, AppendRow(t),
           NEW k \in 0..Len(rows), appender[t].previous = HashAt(rows, k)
    PROVE  /\ rows' \in Seq(Rows(Events))
           /\ Len(rows') = Len(rows) + 1
           /\ \A i \in 1..Len(rows) : rows'[i] = rows[i]
           /\ rows'[Len(rows) + 1].event = appender[t].event
           /\ rows'[Len(rows) + 1].previous = HashAt(rows', k)
           /\ \A m \in 0..Len(rows) : HashAt(rows', m) = HashAt(rows, m)
           /\ Chained(rows')
           /\ Verifies(rows') <=> Verifies(rows) /\ k = Len(rows)
<1> DEFINE ev == appender[t].event
<1>1. /\ rows \in Seq(Rows(Events)) /\ Chained(rows) /\ ev \in Events
      /\ \A i \in 1..Len(rows) : rows[i].event # ev
  BY DEF StoreInv, TypeInv, CallsAreDistinct, AppendRow, Stored
<1>2. rows' = Append(rows, Row(ev, HashAt(rows, k)))
  BY DEF AppendRow
<1> HIDE DEF ev
<1>3. /\ rows' \in Seq(Rows(Events))
      /\ Len(rows') = Len(rows) + 1
      /\ \A i \in 1..Len(rows) : rows'[i] = rows[i]
      /\ rows'[Len(rows) + 1].event = ev
      /\ rows'[Len(rows) + 1].previous = HashAt(rows', k)
      /\ \A m \in 0..Len(rows) : HashAt(rows', m) = HashAt(rows, m)
      /\ Chained(rows')
      /\ Verifies(rows') <=> Verifies(rows) /\ k = Len(rows)
  BY <1>1, <1>2, AppendKeepsChain
<1> QED  BY <1>3 DEF ev

LEMMA AppendRowStep ==
    ASSUME StoreInv, NEW t \in Threads, AppendRow(t)
    PROVE  StoreInv'
<1> DEFINE n == Len(rows)
           ev == appender[t].event
<1>1. /\ rows \in Seq(Rows(Events)) /\ n \in Nat /\ DOMAIN rows = 1..n
      /\ appender \in [Threads -> Appenders]
      /\ CallsAreDistinct /\ HashesWereTails /\ Chained(rows) /\ BrokenMeansForked
      /\ ev \in Events /\ ~Stored(rows, ev)
  BY LenProperties DEF StoreInv, TypeInv, CallsAreDistinct, AppendRow
<1>2. PICK k \in 0..n : appender[t].previous = HashAt(rows, k)
  BY DEF StoreInv, HashesWereTails, AppendRow
<1>3. /\ rows' \in Seq(Rows(Events))
      /\ Len(rows') = n + 1
      /\ \A i \in 1..n : rows'[i] = rows[i]
      /\ rows'[n + 1].event = ev
      /\ rows'[n + 1].previous = HashAt(rows', k)
      /\ \A m \in 0..n : HashAt(rows', m) = HashAt(rows, m)
      /\ Chained(rows')
      /\ Verifies(rows') <=> Verifies(rows) /\ k = n
  BY <1>2, AppendRowAdds
<1>4. /\ appender'[t] = Idle
      /\ \A u \in Threads \ {t} : appender'[u] = appender[u]
      /\ appender' \in [Threads -> Appenders]
  BY <1>1, IdleType DEF AppendRow
<1>0. n = Len(rows)
  OBVIOUS
<1> HIDE DEF n, ev
<1>5. CallsAreDistinct'
  <2>1. \A event : Stored(rows', event) <=> Stored(rows, event) \/ event = ev
    BY <1>0, <1>1, <1>3 DEF Stored
  <2>2. \A u \in Threads :
            IF appender'[u].at = "idle"
              THEN appender'[u].event = NoEvent
              ELSE appender'[u].event \in Events /\ ~Stored(rows', appender'[u].event)
    <3>1. ASSUME NEW u \in Threads, u # t, appender[u].at # "idle"
          PROVE  appender[u].event \in Events /\ appender[u].event # ev
      BY <1>1, <3>1, NoEventAssumption DEF CallsAreDistinct, ev
    <3> QED  BY <1>1, <1>4, <2>1, <3>1, IdleType DEF CallsAreDistinct
  <2>3. \A u, v \in Threads :
            appender'[u].event = appender'[v].event /\ appender'[v].event # NoEvent => u = v
    BY <1>1, <1>4, IdleType DEF CallsAreDistinct
  <2> QED  BY <2>2, <2>3 DEF CallsAreDistinct
<1>6. HashesWereTails'
  <2> SUFFICES ASSUME NEW u \in Threads, appender'[u].at = "hashed"
               PROVE  \E m \in 0..(n + 1) : appender'[u].previous = HashAt(rows', m)
    BY <1>3 DEF HashesWereTails
  <2>1. appender'[u] = appender[u]
    BY <1>4, IdleType
  <2>2. PICK m \in 0..n : appender[u].previous = HashAt(rows, m)
    BY <1>0, <1>1, <2>1 DEF HashesWereTails
  <2> QED  BY <1>1, <1>3, <2>1, <2>2
<1>7. BrokenMeansForked'
  <2>1. DOMAIN rows' = 1..(n + 1)
    BY <1>3, LenProperties
  <2>2. CASE Verifies(rows) /\ k = n
    <3>1. \A i \in 1..(n + 1) : rows'[i].previous = HashAt(rows', i - 1)
      BY <1>3, <2>2, VerifiesLinks
    <3>2. ASSUME NEW i \in 1..(n + 1), NEW j \in 1..(n + 1),
                 rows'[i].previous = rows'[j].previous
          PROVE  i = j
      <4>1. HashAt(rows', i - 1) = HashAt(rows', j - 1)
        BY <3>1, <3>2
      <4>2. i - 1 \in 0..Len(rows') /\ j - 1 \in 0..Len(rows')
        BY <1>1, <1>3
      <4>3. i - 1 = j - 1
        BY <1>3, <4>1, <4>2, HashAtInjective
      <4> QED  BY <4>3
    <3> QED  BY <1>3, <2>1, <2>2, <3>2 DEF BrokenMeansForked, Forked
  <2>3. CASE Verifies(rows) /\ k # n
    <3>1. k + 1 \in 1..n /\ k + 1 \in 1..(n + 1) /\ n + 1 \in 1..(n + 1) /\ k + 1 # n + 1
      BY <1>1, <1>2, <2>3
    <3>2. rows[k + 1].previous = HashAt(rows, k)
      <4>1. \A i \in 1..n : rows[i].previous = HashAt(rows, i - 1)
        BY <1>1, <2>3, <1>0, VerifiesLinks
      <4>2. (k + 1) - 1 = k
        BY <1>2
      <4> QED  BY <3>1, <4>1, <4>2
    <3>3. rows'[k + 1].previous = rows'[n + 1].previous
      BY <1>2, <1>3, <3>1, <3>2
    <3> QED  BY <1>3, <2>1, <2>3, <3>1, <3>3 DEF BrokenMeansForked, Forked
  <2>4. CASE ~Verifies(rows)
    <3>1. PICK i \in 1..n, j \in 1..n : i # j /\ rows[i].previous = rows[j].previous
      BY <1>1, <2>4 DEF BrokenMeansForked, Forked
    <3>2. /\ i \in 1..(n + 1) /\ j \in 1..(n + 1)
          /\ rows'[i].previous = rows'[j].previous
      BY <1>1, <1>3, <3>1
    <3> QED  BY <1>3, <2>1, <2>4, <3>1, <3>2 DEF BrokenMeansForked, Forked
  <2> QED  BY <2>2, <2>3, <2>4
<1> QED  BY <1>3, <1>4, <1>5, <1>6, <1>7 DEF StoreInv, TypeInv

LEMMA StoreInvStep == StoreInv /\ [Next]_vars => StoreInv'
<1> SUFFICES ASSUME StoreInv, [Next]_vars PROVE StoreInv'
  OBVIOUS
<1>1. CASE UNCHANGED vars
  BY <1>1
  DEF vars, StoreInv, TypeInv, CallsAreDistinct, HashesWereTails, BrokenMeansForked,
      Stored, Verifies, RowVerifies, Forked
<1> QED  BY <1>1, ReadTailStep, AppendRowStep DEF Next

----------------------------------------------------------------------------
(* Theorems about the store.                                               *)

\* The steps of reports leave the store alone, and what is recorded for requests
\* is appended as anything is: the store behaves under reports as it does alone.
THEOREM ReportsAreReads == ReportsSpec => Spec
<1>1. ReportsInit => Init
  BY DEF ReportsInit
<1>2. [ReportsNext]_<<vars, progress, reportVars>> => [Next]_vars
  BY DEF ReportsNext, Next, StoreEvent, RecordEvaluation, RecordOutcome, ListEvents,
         CountEvents, VerifyRow, AnswerPackage, vars
<1> QED  BY <1>1, <1>2, PTL DEF ReportsSpec, Spec

\* verify_chain fails exactly when two threads chained rows to the same hash,
\* whatever else is read and recorded.
THEOREM BrokenMeansForkedCorrect == ReportsSpec => []BrokenMeansForked
<1>1. StoreInv => BrokenMeansForked
  BY DEF StoreInv
<1> QED  BY <1>1, StoreInvInit, StoreInvStep, ReportsAreReads, PTL DEF Spec

\* However the threads interleave, the store is a log to which each event is
\* appended once and from which nothing is taken: it implements EvidenceLog.
THEOREM StoreImplementsLog == ReportsSpec => ImplementsLog
<1>1. Init => Log!Init
  BY DEF Init, Log!Init, EventsOf
<1>2. StoreInv /\ [Next]_vars => [Log!Next]_(EventsOf(rows))
  <2> SUFFICES ASSUME StoreInv, [Next]_vars PROVE [Log!Next]_(EventsOf(rows))
    OBVIOUS
  <2>1. CASE \E t \in Threads : AppendRow(t)
    <3>1. PICK t \in Threads : AppendRow(t)
      BY <2>1
    <3> DEFINE ev == appender[t].event
               r == Row(ev, appender[t].previous)
    <3>2. /\ ev \in Events /\ ~Stored(rows, ev)
          /\ rows \in Seq(Rows(Events)) /\ r \in Rows(Events) /\ r.event = ev
          /\ rows' = Append(rows, r)
      <4>1. /\ ev \in Events /\ ~Stored(rows, ev)
            /\ appender[t].previous \in Seq(Events)
        BY <3>1 DEF AppendRow, StoreInv, TypeInv, CallsAreDistinct, Appenders
      <4> QED  BY <3>1, <4>1, RowType DEF AppendRow, StoreInv, TypeInv
    <3> HIDE DEF r
    <3>3. EventsOf(rows') = Append(EventsOf(rows), ev)
      BY <3>2, EventsOfAppend
    <3>4. \A i \in DOMAIN EventsOf(rows) : EventsOf(rows)[i] # ev
      BY <3>2, LenProperties DEF EventsOf, Stored
    <3> QED  BY <3>2, <3>3, <3>4 DEF Log!Next, Log!AppendEvent
  <2>2. CASE ~\E t \in Threads : AppendRow(t)
    <3>1. rows' = rows
      BY <2>2 DEF Next, vars, ReadTail
    <3> QED  BY <3>1 DEF EventsOf
  <2> QED  BY <2>1, <2>2
<1> QED
  BY <1>1, <1>2, StoreInvInit, StoreInvStep, ReportsAreReads, PTL
  DEF Spec, ImplementsLog, Log!Spec

\* With one thread the chain always verifies: it is only the race that breaks it.
THEOREM OneThreadChainVerifies ==
    ASSUME \A t, u \in Threads : t = u
    PROVE  Spec => []Verifies(rows)
<1> DEFINE HashIsTail == \A t \in Threads : appender[t].at = "hashed" =>
                             appender[t].previous = HashAt(rows, Len(rows))
           SoloInv == HashIsTail /\ Verifies(rows)
<1>1. Init => SoloInv
  <2> SUFFICES ASSUME Init PROVE SoloInv
    OBVIOUS
  <2>1. DOMAIN rows = {}
    BY EmptySeq DEF Init
  <2> QED  BY <2>1, IdleType DEF Init, Verifies
<1>2. StoreInv /\ SoloInv /\ [Next]_vars => SoloInv'
  <2> SUFFICES ASSUME StoreInv, SoloInv, [Next]_vars PROVE SoloInv'
    OBVIOUS
  <2>1. rows \in Seq(Rows(Events)) /\ appender \in [Threads -> Appenders] /\ Len(rows) \in Nat
    BY LenProperties DEF StoreInv, TypeInv
  <2>2. CASE UNCHANGED vars
    BY <2>2 DEF vars, Verifies, RowVerifies
  <2>3. ASSUME NEW t \in Threads, NEW event \in Events, ReadTail(t, event)
        PROVE  SoloInv'
    <3>1. /\ rows' = rows
          /\ appender'[t].previous = HashAt(rows, Len(rows))
      BY <2>1, <2>3, TailIsLast DEF ReadTail
    <3> QED  BY <2>3, <3>1 DEF Verifies, RowVerifies
  <2>4. ASSUME NEW t \in Threads, AppendRow(t)
        PROVE  SoloInv'
    <3>1. appender[t].previous = HashAt(rows, Len(rows)) /\ Len(rows) \in 0..Len(rows)
      BY <2>1, <2>4 DEF AppendRow
    <3>2. Verifies(rows')
      BY <2>4, <3>1, AppendRowAdds
    <3>3. \A u \in Threads : appender'[u].at = "idle"
      BY <2>1, <2>4, IdleType DEF AppendRow
    <3> QED  BY <3>2, <3>3
  <2> QED  BY <2>2, <2>3, <2>4 DEF Next
<1> QED  BY <1>1, <1>2, StoreInvInit, StoreInvStep, PTL DEF Spec

----------------------------------------------------------------------------
(* The verdict on the chain.                                               *)

\* Whatever its fields hold, a report keeps its shape.
IsReport(r) ==
    r = [at |-> r.at, request |-> r.request, timeline |-> r.timeline, count |-> r.count,
         next |-> r.next, chain |-> r.chain]

\* While the verification goes on, the rows before report.next verify and the
\* count was within the limit; the log may have grown since.
VerifiedSoFar ==
    /\ report.count \in 0..Len(rows)
    /\ report.next \in 1..(Len(rows) + 1)
    /\ \A i \in 1..(report.next - 1) : RowVerifies(rows, i)
    /\ ~(report.count > MaxEvents(cap))

VerdictInv ==
    /\ IsReport(report)
    /\ report.at = "listed" => report.next = 1
    /\ report.at = "verify" => VerifiedSoFar
    /\ report.at = "done" =>
           \/ report.chain = "skipped" /\ report.count > MaxEvents(cap)
           \/ report.chain = "failed" /\ VerifiedSoFar /\ ~Verifies(rows)
           \/ report.chain = "verified" /\ VerifiedSoFar /\ report.count <= report.next - 1

\* Rows that are added change nothing about those that were checked.
LEMMA LogGrows ==
    ASSUME StoreInv, [Next]_vars
    PROVE  /\ rows \in Seq(Rows(Events)) /\ rows' \in Seq(Rows(Events))
           /\ Len(rows) \in Nat /\ Len(rows') \in Nat /\ Len(rows) <= Len(rows')
           /\ \A i \in 1..Len(rows) : rows'[i] = rows[i]
           /\ \A i \in 1..Len(rows) : RowVerifies(rows', i) <=> RowVerifies(rows, i)
           /\ ~Verifies(rows) => ~Verifies(rows')
<1>1. /\ rows \in Seq(Rows(Events)) /\ rows' \in Seq(Rows(Events))
      /\ Len(rows) \in Nat /\ Len(rows') \in Nat
      /\ DOMAIN rows = 1..Len(rows) /\ DOMAIN rows' = 1..Len(rows')
  BY StoreInvStep, LenProperties DEF StoreInv, TypeInv
<1>2. Len(rows) <= Len(rows') /\ \A i \in 1..Len(rows) : rows'[i] = rows[i]
  <2>1. CASE \E t \in Threads : AppendRow(t)
    <3>1. PICK t \in Threads : AppendRow(t)
      BY <2>1
    <3>2. PICK k \in 0..Len(rows) : appender[t].previous = HashAt(rows, k)
      BY <3>1 DEF StoreInv, HashesWereTails, AppendRow
    <3>3. Len(rows') = Len(rows) + 1 /\ \A i \in 1..Len(rows) : rows'[i] = rows[i]
      BY <3>1, <3>2, AppendRowAdds
    <3> QED  BY <1>1, <3>3
  <2>2. CASE rows' = rows
    BY <1>1, <2>2
  <2> QED  BY <2>1, <2>2 DEF Next, vars, ReadTail
<1>3. \A i \in 1..Len(rows) : RowVerifies(rows', i) <=> RowVerifies(rows, i)
  BY <1>1, <1>2, RowVerifiesLater
<1> QED  BY <1>1, <1>2, <1>3 DEF Verifies

\* Other threads append while the verdict stands or is being reached.
LEMMA VerdictWhileAppending ==
    ASSUME StoreInv, VerdictInv, [Next]_vars, UNCHANGED reportVars
    PROVE  VerdictInv'
<1>1. /\ Len(rows) \in Nat /\ Len(rows') \in Nat /\ Len(rows) <= Len(rows')
      /\ \A i \in 1..Len(rows) : RowVerifies(rows', i) <=> RowVerifies(rows, i)
      /\ ~Verifies(rows) => ~Verifies(rows')
      /\ report' = report /\ cap' = cap
  BY LogGrows DEF reportVars
<1>2. VerifiedSoFar => VerifiedSoFar'
  <2> SUFFICES ASSUME VerifiedSoFar PROVE VerifiedSoFar'
    OBVIOUS
  <2>1. \A i \in 1..(report.next - 1) : i \in 1..Len(rows) /\ RowVerifies(rows, i)
    BY <1>1 DEF VerifiedSoFar
  <2> QED  BY <1>1, <2>1 DEF VerifiedSoFar, MaxEvents
<1> QED  BY <1>1, <1>2 DEF VerdictInv, IsReport, MaxEvents

LEMMA VerdictInvInit == ReportsInit => VerdictInv
  BY DEF ReportsInit, VerdictInv, IsReport, NoReport

LEMMA VerdictInvStep ==
    StoreInv /\ VerdictInv /\ [ReportsNext]_<<vars, progress, reportVars>> => VerdictInv'
<1> SUFFICES ASSUME StoreInv, VerdictInv, [ReportsNext]_<<vars, progress, reportVars>>
             PROVE  VerdictInv'
  OBVIOUS
<1>1. /\ rows \in Seq(Rows(Events)) /\ Len(rows) \in Nat /\ DOMAIN rows = 1..Len(rows)
      /\ IsReport(report)
  BY LenProperties DEF StoreInv, TypeInv, VerdictInv
<1>2. CASE \/ UNCHANGED <<vars, progress, reportVars>>
           \/ \E t \in Threads :
                  \/ \E r \in Requests : RecordEvaluation(t, r)
                  \/ \E event \in Events : RecordOutcome(t, event)
                  \/ StoreEvent(t)
  <2>1. [Next]_vars /\ UNCHANGED reportVars
    BY <1>2 DEF StoreEvent, RecordEvaluation, RecordOutcome, Next
  <2> QED  BY <2>1, VerdictWhileAppending
<1>3. CASE (\E r \in Requests : ListEvents(r)) \/ AnswerPackage
  <2>1. IsReport(report') /\ report'.at \in {"listed", "idle"} /\ report'.next = 1
    <3>1. CASE \E r \in Requests : ListEvents(r)
      <4>1. PICK r \in Requests :
                   report' = [NoReport EXCEPT !.at = "listed", !.request = r,
                                              !.timeline = TimelineOf(rows, r)]
        BY <3>1 DEF ListEvents
      <4> QED  BY <4>1 DEF NoReport, IsReport
    <3>2. CASE AnswerPackage
      BY <3>2 DEF AnswerPackage, NoReport, IsReport
    <3> QED  BY <1>3, <3>1, <3>2
  <2> QED  BY <2>1 DEF VerdictInv
<1>4. CASE CountEvents
  <2>1. report.next = 1 /\ rows' = rows /\ cap' = cap
    BY <1>4 DEF CountEvents, VerdictInv, vars
  <2>2. /\ IsReport(report')
        /\ report'.count = Len(rows) /\ report'.next = 1
        /\ \/ /\ Len(rows) > MaxEvents(cap)
              /\ report'.at = "done" /\ report'.chain = "skipped"
           \/ /\ ~(Len(rows) > MaxEvents(cap))
              /\ report'.at = "verify"
    BY <1>1, <1>4, <2>1 DEF CountEvents, IsReport
  <2> QED  BY <1>1, <2>1, <2>2 DEF VerdictInv, VerifiedSoFar, MaxEvents
<1>5. CASE VerifyRow
  <2>1. VerifiedSoFar /\ rows' = rows /\ cap' = cap
    BY <1>5 DEF VerifyRow, VerdictInv, vars
  <2>2. CASE report.next > Len(rows)
    <3>1. /\ IsReport(report') /\ report'.at = "done" /\ report'.chain = "verified"
          /\ report'.count = report.count /\ report'.next = report.next
      <4>1. report' = [report EXCEPT !.at = "done", !.chain = "verified"]
        BY <1>1, <1>5, <2>1, <2>2 DEF VerifyRow, VerifiedSoFar
      <4> QED  BY <1>1, <4>1 DEF IsReport
    <3> QED  BY <1>1, <2>1, <2>2, <3>1 DEF VerdictInv, VerifiedSoFar, MaxEvents
  <2>3. CASE report.next <= Len(rows) /\ RowVerifies(rows, report.next)
    <3>1. /\ IsReport(report') /\ report'.at = "verify"
          /\ report'.count = report.count /\ report'.next = report.next + 1
      BY <1>1, <1>5, <2>1, <2>3 DEF VerifyRow, IsReport, VerifiedSoFar
    <3>2. \A i \in 1..report.next : RowVerifies(rows, i)
      BY <1>1, <2>1, <2>3 DEF VerifiedSoFar
    <3> QED  BY <1>1, <2>1, <2>3, <3>1, <3>2 DEF VerdictInv, VerifiedSoFar, MaxEvents
  <2>4. CASE report.next <= Len(rows) /\ ~RowVerifies(rows, report.next)
    <3>1. /\ IsReport(report') /\ report'.at = "done" /\ report'.chain = "failed"
          /\ report'.count = report.count /\ report'.next = report.next
      <4>1. report' = [report EXCEPT !.at = "done", !.chain = "failed"]
        BY <1>1, <1>5, <2>1, <2>4 DEF VerifyRow, VerifiedSoFar
      <4> QED  BY <1>1, <4>1 DEF IsReport
    <3>2. ~Verifies(rows)
      BY <1>1, <2>1, <2>4 DEF VerifiedSoFar, Verifies
    <3> QED  BY <1>1, <2>1, <3>1, <3>2 DEF VerdictInv, VerifiedSoFar, MaxEvents
  <2>5. report.next > Len(rows) \/ report.next <= Len(rows)
    BY <1>1, <2>1 DEF VerifiedSoFar
  <2> QED  BY <2>2, <2>3, <2>4, <2>5
<1> QED  BY <1>2, <1>3, <1>4, <1>5 DEF ReportsNext

\* The chain verdict of an evidence package is true of the log and of the count
\* shown with it, however many events are appended while it is being reached.
THEOREM ChainVerdictCorrect == ReportsSpec => []ChainVerdictIsTrue
<1>1. StoreInv /\ VerdictInv => ChainVerdictIsTrue
  <2> SUFFICES ASSUME StoreInv, VerdictInv, report.at = "done"
               PROVE  /\ report.chain = "skipped" <=> report.count > MaxEvents(cap)
                      /\ report.chain = "failed" => ~Verifies(rows)
                      /\ report.chain = "verified" =>
                             /\ Verifies(SubSeq(rows, 1, report.next - 1))
                             /\ report.next - 1 \in report.count..Len(rows)
    BY DEF ChainVerdictIsTrue
  <2>1. rows \in Seq(Rows(Events)) /\ Len(rows) \in Nat
    BY LenProperties DEF StoreInv, TypeInv
  <2>2. VerifiedSoFar /\ report.count <= report.next - 1 =>
            /\ Verifies(SubSeq(rows, 1, report.next - 1))
            /\ report.next - 1 \in report.count..Len(rows)
    <3> SUFFICES ASSUME VerifiedSoFar, report.count <= report.next - 1
                 PROVE  /\ Verifies(SubSeq(rows, 1, report.next - 1))
                        /\ report.next - 1 \in report.count..Len(rows)
      OBVIOUS
    <3>1. /\ report.next - 1 \in 0..Len(rows)
          /\ report.next - 1 \in report.count..Len(rows)
          /\ \A i \in 1..(report.next - 1) : RowVerifies(rows, i)
      BY <2>1 DEF VerifiedSoFar
    <3> QED  BY <2>1, <3>1, PrefixVerifies
  <2> QED  BY <2>2 DEF VerdictInv, VerifiedSoFar
<1>2. [ReportsNext]_<<vars, progress, reportVars>> => [Next]_vars
  BY DEF ReportsNext, Next, StoreEvent, RecordEvaluation, RecordOutcome, ListEvents,
         CountEvents, VerifyRow, AnswerPackage, vars
<1>3. ReportsInit => Init
  BY DEF ReportsInit
<1> QED
  BY <1>1, <1>2, <1>3, StoreInvInit, StoreInvStep, VerdictInvInit, VerdictInvStep,
     PTL DEF ReportsSpec

----------------------------------------------------------------------------
(* The order in which a request is recorded.                               *)

LEMMA ReportsStep == [ReportsNext]_<<vars, progress, reportVars>> => [Next]_vars
  BY DEF ReportsNext, Next, StoreEvent, RecordEvaluation, RecordOutcome, ListEvents,
         CountEvents, VerifyRow, AnswerPackage, vars

EvaluationEvent(r, k) == [request |-> r, type |-> EvaluationOf(r)[k]]

\* Just the events evaluate has got to are stored or being stored.
ProgressInv ==
    /\ progress \in [Requests -> Nat]
    /\ \A r \in Requests :
           /\ progress[r] <= Len(EvaluationOf(r))
           /\ \A k \in DOMAIN EvaluationOf(r) :
                  EvaluationEvent(r, k) \in Events /\ Started(EvaluationEvent(r, k))
                      <=> k <= progress[r]

\* What evaluate records before the event is among the first n rows.
Precedes(s, n, event) ==
    \A k \in DOMAIN EvaluationOf(event.request) :
        EvaluationOf(event.request)[k] = event.type =>
            \A l \in 1..(k - 1) :
                \E j \in 1..n : s[j].event = EvaluationEvent(event.request, l)

\* An event is recorded, and being recorded, after what evaluate records first.
OrderInv ==
    /\ ProgressInv
    /\ \A i \in 1..Len(rows) : Precedes(rows, i - 1, rows[i].event)
    /\ \A t \in Threads : appender[t].at = "hashed" =>
           Precedes(rows, Len(rows), appender[t].event)

\* evaluate records each type once and request_finalized last.
LEMMA EvaluationShape ==
    ASSUME NEW r
    PROVE  /\ Len(EvaluationOf(r)) \in {5, 6}
           /\ DOMAIN EvaluationOf(r) = 1..Len(EvaluationOf(r))
           /\ \A k, l \in DOMAIN EvaluationOf(r) :
                  EvaluationOf(r)[k] = EvaluationOf(r)[l] => k = l
           /\ \A k \in DOMAIN EvaluationOf(r) : EvaluationOf(r)[k] \notin OutcomeTypes(r)
           /\ EvaluationOf(r)[2] = "request_analyzed"
           /\ EvaluationOf(r)[3] = "policy_decided"
           /\ EvaluationOf(r)[Len(EvaluationOf(r))] = "request_finalized"
           /\ "approval_requested" \in TypesOf(r) =>
                  Held(r) /\ 5 \in DOMAIN EvaluationOf(r)
                      /\ EvaluationOf(r)[5] = "approval_requested"
<1> DEFINE long == <<"request_received", "request_analyzed", "policy_decided", "model_routed",
                     "approval_requested", "request_finalized">>
           short == <<"request_received", "request_analyzed", "policy_decided", "model_routed",
                      "request_finalized">>
<1>1. CASE Held(r)
  <2>1. EvaluationOf(r) = long
    BY <1>1 DEF EvaluationOf
  <2>2. /\ Len(long) = 6 /\ DOMAIN long = 1..6
        /\ long[1] = "request_received" /\ long[2] = "request_analyzed"
        /\ long[3] = "policy_decided" /\ long[4] = "model_routed"
        /\ long[5] = "approval_requested" /\ long[6] = "request_finalized"
    OBVIOUS
  <2> HIDE DEF long
  <2>3. \A k \in 1..6 : k \in {1, 2, 3, 4, 5, 6}
    OBVIOUS
  <2>4. \A k, l \in 1..6 : long[k] = long[l] => k = l
    BY <2>2, <2>3
  <2>5. \A k \in 1..6 : long[k] \notin OutcomeTypes(r)
    BY <2>2, <2>3 DEF OutcomeTypes
  <2> QED  BY <1>1, <2>1, <2>2, <2>4, <2>5
<1>2. CASE ~Held(r)
  <2>1. EvaluationOf(r) = short
    BY <1>2 DEF EvaluationOf
  <2>2. /\ Len(short) = 5 /\ DOMAIN short = 1..5
        /\ short[1] = "request_received" /\ short[2] = "request_analyzed"
        /\ short[3] = "policy_decided" /\ short[4] = "model_routed"
        /\ short[5] = "request_finalized"
    OBVIOUS
  <2> HIDE DEF short
  <2>3. \A k \in 1..5 : k \in {1, 2, 3, 4, 5}
    OBVIOUS
  <2>4. \A k, l \in 1..5 : short[k] = short[l] => k = l
    BY <2>2, <2>3
  <2>5. \A k \in 1..5 : short[k] \notin OutcomeTypes(r)
    BY <2>2, <2>3 DEF OutcomeTypes
  <2>6. "approval_requested" \notin TypesOf(r)
    BY <1>2, <2>1, <2>2, <2>3 DEF TypesOf, EvaluationTypes, OutcomeTypes
  <2> QED  BY <2>1, <2>2, <2>4, <2>5, <2>6
<1> QED  BY <1>1, <1>2

\* What precedes an event precedes it in a longer log.
LEMMA PrecedesLater ==
    ASSUME NEW s, NEW u, NEW n \in Nat, NEW m \in Nat, n <= m,
           \A i \in 1..n : u[i] = s[i],
           NEW event, Precedes(s, n, event)
    PROVE  Precedes(u, m, event)
<1> SUFFICES ASSUME NEW k \in DOMAIN EvaluationOf(event.request),
                    EvaluationOf(event.request)[k] = event.type,
                    NEW l \in 1..(k - 1)
             PROVE  \E j \in 1..m : u[j].event = EvaluationEvent(event.request, l)
  BY DEF Precedes
<1>1. PICK j \in 1..n : s[j].event = EvaluationEvent(event.request, l)
  BY DEF Precedes
<1>2. j \in 1..m
  OBVIOUS
<1> QED  BY <1>1, <1>2

\* A new append starts one event, the end of one starts none.
LEMMA StartedLater ==
    ASSUME StoreInv, NEW t \in Threads
    PROVE  /\ \A event \in Events : ReadTail(t, event) =>
                  \A x \in Events : Started(x)' <=> Started(x) \/ x = event
           /\ AppendRow(t) => \A x \in Events : Started(x)' <=> Started(x)
<1>1. /\ rows \in Seq(Rows(Events)) /\ Len(rows) \in Nat /\ DOMAIN rows = 1..Len(rows)
      /\ appender \in [Threads -> Appenders]
      /\ CallsAreDistinct
  BY LenProperties DEF StoreInv, TypeInv
<1>2. ASSUME NEW event \in Events, ReadTail(t, event), NEW x \in Events
      PROVE  Started(x)' <=> Started(x) \/ x = event
  <2>1. /\ rows' = rows
        /\ appender[t].event = NoEvent /\ appender'[t].event = event
        /\ \A u \in Threads \ {t} : appender'[u] = appender[u]
    BY <1>1, <1>2 DEF ReadTail, CallsAreDistinct
  <2>2. x # NoEvent
    BY NoEventAssumption
  <2> QED  BY <2>1, <2>2 DEF Started
<1>3. ASSUME AppendRow(t), NEW x \in Events
      PROVE  Started(x)' <=> Started(x)
  <2>1. PICK k \in 0..Len(rows) : appender[t].previous = HashAt(rows, k)
    BY <1>3 DEF StoreInv, HashesWereTails, AppendRow
  <2>2. /\ Len(rows') = Len(rows) + 1
        /\ \A i \in 1..Len(rows) : rows'[i] = rows[i]
        /\ rows'[Len(rows) + 1].event = appender[t].event
        /\ rows' \in Seq(Rows(Events))
    BY <1>3, <2>1, AppendRowAdds
  <2>3. DOMAIN rows' = 1..(Len(rows) + 1)
    BY <2>2, LenProperties
  <2>4. /\ appender'[t].event = NoEvent
        /\ \A u \in Threads \ {t} : appender'[u] = appender[u]
    BY <1>1, <1>3, IdleType DEF AppendRow
  <2>5. x # NoEvent
    BY NoEventAssumption
  <2>6. (\E i \in DOMAIN rows' : rows'[i].event = x)
            <=> (\E i \in DOMAIN rows : rows[i].event = x) \/ appender[t].event = x
    BY <1>1, <2>2, <2>3
  <2>7. (\E u \in Threads : appender[u].event = x)
            <=> (\E u \in Threads : appender'[u].event = x) \/ appender[t].event = x
    BY <2>4, <2>5
  <2> QED  BY <2>6, <2>7 DEF Started
<1> QED  BY <1>2, <1>3

\* evaluate begins to record its next event, and nothing else is one of its events.
LEMMA ProgressInvStep ==
    ASSUME StoreInv, ProgressInv, [ReportsNext]_<<vars, progress, reportVars>>
    PROVE  ProgressInv'
<1>1. CASE UNCHANGED <<vars, progress>>
  BY <1>1 DEF ProgressInv, Started, vars
<1>2. ASSUME NEW t \in Threads, StoreEvent(t) PROVE ProgressInv'
  <2>1. progress' = progress /\ \A x \in Events : Started(x)' <=> Started(x)
    BY <1>2, StartedLater DEF StoreEvent
  <2> QED  BY <2>1 DEF ProgressInv
<1>3. ASSUME NEW t \in Threads, NEW event \in Events, RecordOutcome(t, event)
      PROVE  ProgressInv'
  <2>1. /\ progress' = progress
        /\ \A x \in Events : Started(x)' <=> Started(x) \/ x = event
        /\ event.type \in OutcomeTypes(event.request)
    BY <1>3, StartedLater DEF RecordOutcome
  <2>2. ASSUME NEW r \in Requests, NEW k \in DOMAIN EvaluationOf(r)
        PROVE  EvaluationEvent(r, k) # event
    <3>1. EvaluationOf(r)[k] \notin OutcomeTypes(r)
      BY EvaluationShape
    <3>2. /\ EvaluationEvent(r, k).request = r
          /\ EvaluationEvent(r, k).type = EvaluationOf(r)[k]
      BY DEF EvaluationEvent
    <3> QED  BY <2>1, <3>1, <3>2
  <2> QED  BY <2>1, <2>2 DEF ProgressInv
<1>4. ASSUME NEW t \in Threads, NEW r \in Requests, RecordEvaluation(t, r)
      PROVE  ProgressInv'
  <2> DEFINE p == progress[r]
             event == EvaluationEvent(r, p + 1)
  <2>1. /\ progress \in [Requests -> Nat] /\ p \in Nat /\ p < Len(EvaluationOf(r))
        /\ progress' = [progress EXCEPT ![r] = p + 1]
        /\ event \in Events /\ ReadTail(t, event)
    BY <1>4 DEF ProgressInv, RecordEvaluation, EvaluationEvent
  <2>2. \A x \in Events : Started(x)' <=> Started(x) \/ x = event
    BY <2>1, StartedLater
  <2>3. Len(EvaluationOf(r)) \in Nat /\ p + 1 \in DOMAIN EvaluationOf(r)
    BY <2>1, EvaluationShape
  <2>4. progress' \in [Requests -> Nat]
    BY <2>1
  <2>5. ASSUME NEW s \in Requests
        PROVE  /\ progress'[s] <= Len(EvaluationOf(s))
               /\ \A k \in DOMAIN EvaluationOf(s) :
                      EvaluationEvent(s, k) \in Events /\ Started(EvaluationEvent(s, k))'
                          <=> k <= progress'[s]
    <3>1. CASE s = r
      <4>1. progress'[s] = p + 1
        BY <2>1, <3>1
      <4>2. ASSUME NEW k \in DOMAIN EvaluationOf(r)
            PROVE  EvaluationEvent(r, k) \in Events /\ Started(EvaluationEvent(r, k))'
                       <=> k <= p + 1
        <5>1. EvaluationEvent(r, k) \in Events /\ Started(EvaluationEvent(r, k)) <=> k <= p
          BY DEF ProgressInv
        <5>2. EvaluationEvent(r, k) = event => k = p + 1
          <6>1. EvaluationOf(r)[k] = EvaluationOf(r)[p + 1] => k = p + 1
            BY <2>3, EvaluationShape
          <6> QED  BY <6>1 DEF EvaluationEvent
        <5>3. k = p + 1 => EvaluationEvent(r, k) = event
          OBVIOUS
        <5>4. k \in Nat
          BY EvaluationShape
        <5> HIDE DEF event, p
        <5>5. k <= p + 1 <=> k <= p \/ k = p + 1
          BY <2>1, <5>4
        <5> QED  BY <2>1, <2>2, <5>1, <5>2, <5>3, <5>5
      <4> QED  BY <2>1, <2>3, <3>1, <4>1, <4>2
    <3>2. CASE s # r
      <4>1. progress'[s] = progress[s]
        BY <2>1, <3>2
      <4>2. \A k \in DOMAIN EvaluationOf(s) : EvaluationEvent(s, k) # event
        BY <3>2 DEF EvaluationEvent
      <4> HIDE DEF event, p
      <4> QED  BY <2>2, <4>1, <4>2 DEF ProgressInv
    <3> QED  BY <3>1, <3>2
  <2> QED  BY <2>4, <2>5 DEF ProgressInv, EvaluationEvent
<1> QED
  BY <1>1, <1>2, <1>3, <1>4
  DEF ReportsNext, ListEvents, CountEvents, VerifyRow, AnswerPackage

LEMMA OrderInvInit == ReportsInit => OrderInv
<1> SUFFICES ASSUME ReportsInit PROVE OrderInv
  OBVIOUS
<1>1. Len(rows) = 0
  BY EmptySeq DEF ReportsInit, Init
<1>2. \A t \in Threads : appender[t].at = "idle"
  BY IdleType DEF ReportsInit, Init
<1>3. ProgressInv
  <2>1. progress = [r \in Requests |-> 0]
    BY DEF ReportsInit
  <2>2. \A x \in Events : ~Started(x)
    BY EmptySeq, IdleType, NoEventAssumption DEF ReportsInit, Init, Started
  <2>3. ASSUME NEW r \in Requests
        PROVE  /\ 0 <= Len(EvaluationOf(r))
               /\ \A k \in DOMAIN EvaluationOf(r) : ~(k <= 0)
    BY EvaluationShape
  <2> QED  BY <2>1, <2>2, <2>3 DEF ProgressInv
<1> QED  BY <1>1, <1>2, <1>3 DEF OrderInv

LEMMA OrderInvStep ==
    StoreInv /\ OrderInv /\ [ReportsNext]_<<vars, progress, reportVars>> => OrderInv'
<1> SUFFICES ASSUME StoreInv, OrderInv, [ReportsNext]_<<vars, progress, reportVars>>
             PROVE  OrderInv'
  OBVIOUS
<1>1. /\ rows \in Seq(Rows(Events)) /\ Len(rows) \in Nat /\ DOMAIN rows = 1..Len(rows)
      /\ appender \in [Threads -> Appenders]
  BY LenProperties DEF StoreInv, TypeInv
<1>0. ProgressInv'
  BY ProgressInvStep DEF OrderInv
<1>2. CASE UNCHANGED vars
  BY <1>0, <1>2 DEF vars, OrderInv, Precedes
<1>3. ASSUME NEW t \in Threads, NEW event, ReadTail(t, event),
             Precedes(rows, Len(rows), event)
      PROVE  OrderInv'
  <2>1. rows' = rows
    BY <1>3 DEF ReadTail
  <2>2. /\ appender'[t].event = event
        /\ \A u \in Threads \ {t} : appender'[u] = appender[u]
    BY <1>1, <1>3 DEF ReadTail
  <2>3. \A u \in Threads : appender'[u].at = "hashed" =>
            Precedes(rows, Len(rows), appender'[u].event)
    <3> TAKE u \in Threads
    <3>1. CASE u = t
      BY <1>3, <2>2, <3>1
    <3>2. CASE u # t
      <4>1. appender'[u] = appender[u]
        BY <2>2, <3>2
      <4> QED  BY <4>1 DEF OrderInv
    <3> QED  BY <3>1, <3>2
  <2> QED  BY <1>0, <2>1, <2>3 DEF OrderInv, Precedes
<1>3a. ASSUME NEW t \in Threads, NEW event \in Events, RecordOutcome(t, event)
       PROVE  OrderInv'
  <2>1. ReadTail(t, event) /\ event.type \in OutcomeTypes(event.request)
    BY <1>3a DEF RecordOutcome
  <2>2. Precedes(rows, Len(rows), event)
    BY <2>1, EvaluationShape DEF Precedes
  <2> QED  BY <1>3, <2>1, <2>2
<1>3b. ASSUME NEW t \in Threads, NEW r \in Requests, RecordEvaluation(t, r)
       PROVE  OrderInv'
  <2> DEFINE p == progress[r]
             event == EvaluationEvent(r, p + 1)
  <2>1. /\ p \in Nat /\ p < Len(EvaluationOf(r))
        /\ ReadTail(t, event) /\ ~Recording(r)
    BY <1>3b DEF OrderInv, ProgressInv, RecordEvaluation, EvaluationEvent
  <2>2. p + 1 \in DOMAIN EvaluationOf(r) /\ \A l \in 1..p : l \in DOMAIN EvaluationOf(r)
    BY <2>1, EvaluationShape
  <2>3. event.request = r /\ event.type = EvaluationOf(r)[p + 1]
    BY DEF EvaluationEvent
  <2>4. ASSUME NEW l \in 1..p
        PROVE  \E j \in 1..Len(rows) : rows[j].event = EvaluationEvent(r, l)
    <3>1. Started(EvaluationEvent(r, l))
      BY <2>1, <2>2 DEF OrderInv, ProgressInv
    <3>2. \A u \in Threads : appender[u].event # EvaluationEvent(r, l)
      BY <2>1, <2>2 DEF Recording, EvaluationTypes, EvaluationEvent
    <3> QED  BY <1>1, <3>1, <3>2 DEF Started
  <2>5. \A k \in DOMAIN EvaluationOf(r) : EvaluationOf(r)[k] = EvaluationOf(r)[p + 1] => k = p + 1
    BY <2>2, EvaluationShape
  <2> HIDE DEF event, p
  <2>6. Precedes(rows, Len(rows), event)
    <3> SUFFICES ASSUME NEW k \in DOMAIN EvaluationOf(r), EvaluationOf(r)[k] = event.type,
                        NEW l \in 1..(k - 1)
                 PROVE  \E j \in 1..Len(rows) : rows[j].event = EvaluationEvent(r, l)
      BY <2>3 DEF Precedes
    <3>1. l \in 1..p
      BY <2>1, <2>3, <2>5
    <3> QED  BY <2>4, <3>1
  <2> QED  BY <1>3, <2>1, <2>6
<1>4. ASSUME NEW t \in Threads, StoreEvent(t)
      PROVE  OrderInv'
  <2> DEFINE n == Len(rows)
             ev == appender[t].event
  <2>1. PICK k \in 0..n : appender[t].previous = HashAt(rows, k)
    BY <1>4 DEF StoreInv, HashesWereTails, AppendRow, StoreEvent
  <2>2. /\ Len(rows') = n + 1
        /\ \A i \in 1..n : rows'[i] = rows[i]
        /\ rows'[n + 1].event = ev
    BY <1>4, <2>1, AppendRowAdds DEF StoreEvent
  <2>3. /\ appender'[t].at = "idle"
        /\ \A u \in Threads \ {t} : appender'[u] = appender[u]
    BY <1>1, <1>4, IdleType DEF StoreEvent, AppendRow
  <2>4. Precedes(rows, n, ev)
    BY <1>4 DEF StoreEvent, AppendRow, OrderInv
  <2> HIDE DEF n, ev
  <2>5. n \in Nat /\ n = Len(rows)
    BY <1>1 DEF n
  <2>6. ASSUME NEW i \in 1..(n + 1) PROVE Precedes(rows', i - 1, rows'[i].event)
    <3>1. CASE i = n + 1
      <4>0. n <= n /\ \A j \in 1..n : rows'[j] = rows[j]
        BY <2>2, <2>5
      <4>1. Precedes(rows', n, ev)
        BY <2>4, <2>5, <4>0, PrecedesLater
      <4>2. i - 1 = n
        BY <2>5, <3>1
      <4> QED  BY <2>2, <3>1, <4>1, <4>2
    <3>2. CASE i # n + 1
      <4>1. i \in 1..n /\ i - 1 \in Nat /\ \A j \in 1..(i - 1) : j \in 1..n
        BY <2>5, <3>2
      <4>2. Precedes(rows, i - 1, rows[i].event)
        BY <2>5, <4>1 DEF OrderInv
      <4>3. Precedes(rows', i - 1, rows[i].event)
        BY <2>2, <4>1, <4>2, PrecedesLater
      <4> QED  BY <2>2, <4>1, <4>3
    <3> QED  BY <3>1, <3>2
  <2>7. ASSUME NEW u \in Threads, appender'[u].at = "hashed"
        PROVE  Precedes(rows', n + 1, appender'[u].event)
    <3>1. appender'[u] = appender[u]
      BY <2>3, <2>7
    <3>2. Precedes(rows, n, appender[u].event)
      BY <2>5, <2>7, <3>1 DEF OrderInv
    <3>3. n + 1 \in Nat /\ n <= n + 1
      BY <2>5
    <3> QED  BY <2>2, <2>5, <3>1, <3>2, <3>3, PrecedesLater
  <2> QED  BY <1>0, <2>2, <2>6, <2>7 DEF OrderInv
<1> QED
  BY <1>2, <1>3a, <1>3b, <1>4
  DEF ReportsNext, ListEvents, CountEvents, VerifyRow, AnswerPackage, vars

----------------------------------------------------------------------------
(* The timeline of a package.                                              *)

\* The rows of a request among the first n, each once and in their order, are
\* the timeline; at says which they are.
ListedAt(s, n, at, r) ==
    /\ n \in 0..Len(s)
    /\ at \in [1..Len(r.timeline) -> 1..n]
    /\ DOMAIN r.timeline = 1..Len(r.timeline) /\ Len(r.timeline) \in Nat
    /\ \A k \in 1..Len(r.timeline) : r.timeline[k] = s[at[k]]
    /\ \A k \in 1..Len(r.timeline) : s[at[k]].event.request = r.request
    /\ \A k, l \in 1..Len(r.timeline) : k < l => at[k] < at[l]
    /\ \A i \in 1..n : s[i].event.request = r.request =>
           \E k \in 1..Len(r.timeline) : at[k] = i

\* The timeline is the log as it was when it was listed, and was counted then.
TimelineInv ==
    report.at # "idle" =>
        \E n \in 0..Len(rows) : \E at \in [1..Len(report.timeline) -> 1..n] :
            /\ ListedAt(rows, n, at, report)
            /\ report.at # "listed" => report.count \in Nat /\ n <= report.count

\* What list_events(request_id) returns.
LEMMA TimelineListed ==
    ASSUME NEW s \in Seq(Rows(Events)), NEW r
    PROVE  LET made == [NoReport EXCEPT !.at = "listed", !.request = r,
                                        !.timeline = TimelineOf(s, r)]
           IN  \E at \in [1..Len(made.timeline) -> 1..Len(s)] : ListedAt(s, Len(s), at, made)
<1> DEFINE I == {i \in DOMAIN s : s[i].event.request = r}
           picked == Selected(s, I)
           made == [NoReport EXCEPT !.at = "listed", !.request = r, !.timeline = picked]
<1>1. Len(s) \in Nat /\ DOMAIN s = 1..Len(s)
  BY LenProperties
<1>2. I \in SUBSET (1..Len(s))
  BY <1>1
<1>3. \A i \in 1..Len(s) : i \in I <=> s[i].event.request = r
  BY <1>1
<1>4. made.timeline = picked /\ made.request = r
  BY DEF NoReport
<1>5. TimelineOf(s, r) = picked
  BY DEF TimelineOf
<1> HIDE DEF I
<1>6. picked = Selected(s, I)
  OBVIOUS
<1> HIDE DEF picked
<1>7. /\ picked \in Seq(Rows(Events))
      /\ \E at \in [1..Len(picked) -> I] : Picks(picked, s, I, at)
  <2> DEFINE T == Rows(Events)
  <2>1. s \in Seq(T)
    OBVIOUS
  <2> HIDE DEF T
  <2>2. /\ picked \in Seq(T)
        /\ \E at \in [1..Len(picked) -> I] : Picks(picked, s, I, at)
    BY <1>2, <1>6, <2>1, SelectedFrom
  <2> QED  BY <2>2 DEF T
<1>7a. PICK at \in [1..Len(picked) -> I] : Picks(picked, s, I, at)
  BY <1>7
<1>7b. /\ at \in [1..Len(picked) -> I]
       /\ \A k \in 1..Len(picked) : picked[k] = s[at[k]]
       /\ \A k, l \in 1..Len(picked) : k < l => at[k] < at[l]
       /\ \A i \in I : \E k \in 1..Len(picked) : at[k] = i
  BY <1>7a DEF Picks
<1>8. Len(picked) \in Nat /\ DOMAIN picked = 1..Len(picked)
  BY <1>7, <1>7b, LenProperties
<1>9. at \in [1..Len(picked) -> 1..Len(s)]
  BY <1>2, <1>7, <1>7b
<1>10. \A k \in 1..Len(picked) : s[at[k]].event.request = r
  BY <1>2, <1>3, <1>7, <1>7b
<1>11. ListedAt(s, Len(s), at, made)
  BY <1>1, <1>3, <1>4, <1>7, <1>7b, <1>8, <1>9, <1>10 DEF ListedAt
<1> QED  BY <1>4, <1>5, <1>9, <1>11

\* It stays the timeline of a longer log, and of the report as it goes on.
LEMMA ListedLater ==
    ASSUME NEW s, NEW u, Len(s) \in Nat, Len(u) \in Nat, Len(s) <= Len(u),
           \A i \in 1..Len(s) : u[i] = s[i],
           NEW r, NEW v, v.timeline = r.timeline, v.request = r.request,
           NEW n, NEW at, ListedAt(s, n, at, r)
    PROVE  n \in 0..Len(u) /\ ListedAt(u, n, at, v)
<1>1. n \in 0..Len(u) /\ \A i \in 1..n : u[i] = s[i]
  BY DEF ListedAt
<1> QED  BY <1>1 DEF ListedAt

LEMMA TimelineInvInit == ReportsInit => TimelineInv
  BY DEF ReportsInit, TimelineInv, NoReport

LEMMA TimelineInvStep ==
    ASSUME StoreInv, VerdictInv, TimelineInv, [ReportsNext]_<<vars, progress, reportVars>>
    PROVE  TimelineInv'
<1>1. /\ rows \in Seq(Rows(Events)) /\ rows' \in Seq(Rows(Events))
      /\ Len(rows) \in Nat /\ Len(rows') \in Nat /\ Len(rows) <= Len(rows')
      /\ \A i \in 1..Len(rows) : rows'[i] = rows[i]
  BY ReportsStep, LogGrows
<1>2. ASSUME report.at # "idle",
             report'.timeline = report.timeline, report'.request = report.request,
             \/ report'.at = report.at /\ report'.count = report.count
             \/ report.at # "listed" /\ report'.count = report.count
             \/ report.at = "listed" /\ report'.count = Len(rows)
      PROVE  TimelineInv'
  <2>1. PICK n \in 0..Len(rows) : \E at \in [1..Len(report.timeline) -> 1..n] :
            /\ ListedAt(rows, n, at, report)
            /\ report.at # "listed" => report.count \in Nat /\ n <= report.count
    BY <1>2 DEF TimelineInv
  <2>2. PICK at \in [1..Len(report.timeline) -> 1..n] :
            /\ ListedAt(rows, n, at, report)
            /\ report.at # "listed" => report.count \in Nat /\ n <= report.count
    BY <2>1
  <2>3. n \in 0..Len(rows') /\ ListedAt(rows', n, at, report')
    BY <1>1, <1>2, <2>2, ListedLater
  <2>4. report'.at # "listed" => report'.count \in Nat /\ n <= report'.count
    BY <1>1, <1>2, <2>2
  <2>5. at \in [1..Len(report'.timeline) -> 1..n]
    BY <1>2, <2>2
  <2> QED  BY <2>3, <2>4, <2>5 DEF TimelineInv
<1>3. CASE report' = report
  BY <1>2, <1>3 DEF TimelineInv
<1>4. ASSUME NEW r \in Requests, ListEvents(r) PROVE TimelineInv'
  <2>1. /\ rows' = rows
        /\ report' = [NoReport EXCEPT !.at = "listed", !.request = r,
                                      !.timeline = TimelineOf(rows, r)]
    BY <1>4 DEF ListEvents, vars
  <2>2. PICK at \in [1..Len(report'.timeline) -> 1..Len(rows)] :
            ListedAt(rows, Len(rows), at, report')
    BY <1>1, <2>1, TimelineListed
  <2>3. report'.at = "listed" /\ Len(rows) \in 0..Len(rows')
    BY <1>1, <2>1 DEF NoReport
  <2> QED  BY <2>1, <2>2, <2>3 DEF TimelineInv
<1>5. CASE CountEvents
  <2>1. /\ report.at = "listed"
        /\ report'.timeline = report.timeline /\ report'.request = report.request
        /\ report'.count = Len(rows)
    BY <1>5 DEF CountEvents, VerdictInv, IsReport
  <2> QED  BY <1>2, <2>1
<1>6. CASE VerifyRow
  <2>1. report.at = "verify"
    BY <1>6 DEF VerifyRow
  <2>2. /\ report'.timeline = report.timeline /\ report'.request = report.request
        /\ report'.count = report.count
    BY <1>6 DEF VerifyRow, VerdictInv, IsReport
  <2> QED  BY <1>2, <2>1, <2>2
<1>7. CASE AnswerPackage
  BY <1>7 DEF AnswerPackage, NoReport, TimelineInv
<1> QED
  BY <1>3, <1>4, <1>5, <1>6, <1>7
  DEF ReportsNext, StoreEvent, RecordEvaluation, RecordOutcome, reportVars

\* The verdict of an evidence package is true of the log, and covers every event
\* of the timeline shown with it.
THEOREM VerdictIsTrueCorrect == ReportsSpec => []VerdictIsTrue
<1>1. StoreInv /\ VerdictInv /\ TimelineInv => TimelineIsCovered
  <2> SUFFICES ASSUME StoreInv, VerdictInv, TimelineInv, report.at = "done"
               PROVE  /\ Len(report.timeline) <= report.count
                      /\ report.chain = "verified" =>
                             \A i \in DOMAIN report.timeline :
                                 \E j \in 1..(report.next - 1) : rows[j] = report.timeline[i]
    BY DEF TimelineIsCovered
  <2> DEFINE m == Len(report.timeline)
  <2>0. PICK n \in 0..Len(rows) : \E at \in [1..m -> 1..n] :
            ListedAt(rows, n, at, report) /\ report.count \in Nat /\ n <= report.count
    BY DEF TimelineInv
  <2>1. PICK at \in [1..m -> 1..n] :
            ListedAt(rows, n, at, report) /\ report.count \in Nat /\ n <= report.count
    BY <2>0
  <2>2. /\ m \in Nat /\ DOMAIN report.timeline = 1..m /\ n \in Nat
        /\ \A k \in 1..m : report.timeline[k] = rows[at[k]] /\ at[k] \in 1..n
        /\ \A k, l \in 1..m : k < l => at[k] < at[l]
    BY <2>1, LenProperties DEF ListedAt, StoreInv, TypeInv
  <2> HIDE DEF m
  <2>3. m <= n
    <3>1. at \in Injection(1..m, 1..n)
      BY <2>1, <2>2 DEF Injection, IsInjective
    <3>2. IsFiniteSet(1..n) /\ Cardinality(1..n) = n /\ Cardinality(1..m) = m
      BY <2>2, FS_Interval
    <3>3. Cardinality(1..m) <= Cardinality(1..n)
      BY <3>1, <3>2, FS_Injection
    <3> QED  BY <3>2, <3>3
  <2>5. ASSUME report.chain = "verified", NEW i \in 1..m
        PROVE  \E j \in 1..(report.next - 1) : rows[j] = report.timeline[i]
    <3>1. report.count <= report.next - 1 /\ report.next \in Nat
      <4>1. Len(rows) \in Nat
        BY LenProperties DEF StoreInv, TypeInv
      <4> QED  BY <2>5, <4>1 DEF VerdictInv, VerifiedSoFar
    <3>2. at[i] \in 1..(report.next - 1)
      BY <2>1, <2>2, <3>1
    <3> QED  BY <2>2, <3>2
  <2> QED  BY <2>1, <2>2, <2>3, <2>5 DEF m
<1>2. ReportsInit => Init
  BY DEF ReportsInit
<1>3. StoreInv /\ VerdictInv /\ TimelineInv /\ [ReportsNext]_<<vars, progress, reportVars>> => TimelineInv'
  BY TimelineInvStep
<1> QED
  BY <1>1, <1>2, <1>3, StoreInvInit, StoreInvStep, ReportsStep, VerdictInvInit, VerdictInvStep,
     TimelineInvInit, ChainVerdictCorrect, PTL
  DEF ReportsSpec, VerdictIsTrue

\* A row is of a request and of a type that is recorded for it, and no other row
\* is of the same.
LEMMA RowsAreOfRequests ==
    ASSUME StoreInv
    PROVE  /\ Len(rows) \in Nat /\ DOMAIN rows = 1..Len(rows)
           /\ \A i \in 1..Len(rows) :
                  /\ rows[i].event.request \in Requests
                  /\ rows[i].event.type \in TypesOf(rows[i].event.request)
                  /\ rows[i].event = [request |-> rows[i].event.request,
                                      type |-> rows[i].event.type]
           /\ \A i, j \in 1..Len(rows) :
                  /\ rows[i].event.request = rows[j].event.request
                  /\ rows[i].event.type = rows[j].event.type
                  => i = j
<1>1. rows \in Seq(Rows(Events)) /\ Len(rows) \in Nat /\ DOMAIN rows = 1..Len(rows)
  BY LenProperties DEF StoreInv, TypeInv
<1>2. ASSUME NEW i \in 1..Len(rows)
      PROVE  /\ rows[i].event.request \in Requests
             /\ rows[i].event.type \in TypesOf(rows[i].event.request)
             /\ rows[i].event = [request |-> rows[i].event.request,
                                 type |-> rows[i].event.type]
  <2>1. rows[i].event \in AuditEvents
    BY <1>1, RowOfRows, ReportsAssumption DEF ReportsAssumption
  <2>2. PICK r \in Requests :
            rows[i].event \in {[request |-> r, type |-> type] : type \in TypesOf(r)}
    BY <2>1 DEF AuditEvents
  <2> QED  BY <2>2
<1>3. \A i, j \in 1..Len(rows) :
          /\ rows[i].event.request = rows[j].event.request
          /\ rows[i].event.type = rows[j].event.type
          => i = j
  <2>1. \A i, j \in 1..Len(rows) : rows[i].event = rows[j].event => i = j
    BY DEF StoreInv, Chained
  <2> QED  BY <1>2, <2>1
<1> QED  BY <1>1, <1>2, <1>3

\* A package is called complete only if it holds all that evaluate records, in
\* its order, and evaluate is over.
THEOREM CompleteMeansFinalizedCorrect == ReportsSpec => []CompleteMeansFinalized
<1>1. StoreInv /\ OrderInv /\ TimelineInv => CompleteMeansFinalized
  <2> SUFFICES ASSUME StoreInv, OrderInv, TimelineInv, report.at # "idle",
                      EvidenceStatus(report.timeline) = "complete"
               PROVE  /\ EvaluationOver(report.request)
                      /\ \A k \in DOMAIN EvaluationOf(report.request) :
                             \E i \in DOMAIN report.timeline :
                                 /\ report.timeline[i].event.type =
                                        EvaluationOf(report.request)[k]
                                 /\ \A l \in 1..(k - 1) : \E j \in 1..(i - 1) :
                                        report.timeline[j].event.type =
                                            EvaluationOf(report.request)[l]
    BY DEF CompleteMeansFinalized
  <2> DEFINE m == Len(report.timeline)
             r == report.request
             last == Len(EvaluationOf(r))
  <2>1. PICK n \in 0..Len(rows) :
            \E at \in [1..m -> 1..n] : ListedAt(rows, n, at, report)
    BY DEF TimelineInv
  <2>2. PICK at \in [1..m -> 1..n] : ListedAt(rows, n, at, report)
    BY <2>1
  <2>3. /\ m \in Nat /\ DOMAIN report.timeline = 1..m /\ n \in Nat /\ Len(rows) \in Nat
        /\ \A k \in 1..m : report.timeline[k] = rows[at[k]] /\ at[k] \in 1..n
        /\ \A k, l \in 1..m : k < l => at[k] < at[l]
        /\ \A k \in 1..m : rows[at[k]].event.request = r
        /\ n <= Len(rows)
    <3>1. Len(rows) \in Nat /\ n \in Nat /\ n <= Len(rows)
      BY LenProperties DEF StoreInv, TypeInv
    <3>2. m \in Nat /\ DOMAIN report.timeline = 1..m /\ at \in [1..m -> 1..n]
      BY <2>2 DEF ListedAt
    <3>3. \A k \in 1..m : at[k] \in 1..n
      BY <3>2
    <3>4. /\ \A k \in 1..m : report.timeline[k] = rows[at[k]]
          /\ \A k \in 1..m : rows[at[k]].event.request = r
          /\ \A k, l \in 1..m : k < l => at[k] < at[l]
      BY <2>2 DEF ListedAt
    <3> HIDE DEF m, r
    <3> QED  BY <3>1, <3>2, <3>3, <3>4
  <2>4. \A i \in 1..n : rows[i].event.request = r => \E k \in 1..m : at[k] = i
    BY <2>2 DEF ListedAt
  <2>5. PICK f \in 1..m : report.timeline[f].event.type = "request_finalized"
    <3>1. RequiredTypes \subseteq TypesIn(report.timeline)
      BY DEF EvidenceStatus
    <3> QED  BY <2>3, <3>1 DEF RequiredTypes, TypesIn
  <2> HIDE DEF m, r
  <2>6. /\ last \in {5, 6} /\ DOMAIN EvaluationOf(r) = 1..last
        /\ EvaluationOf(r)[last] = "request_finalized"
    BY EvaluationShape
  <2> HIDE DEF last
  \* An event of the timeline comes after what evaluate records before it.
  <2>7. ASSUME NEW i \in 1..m, NEW k \in 1..last,
               report.timeline[i].event.type = EvaluationOf(r)[k],
               NEW l \in 1..(k - 1)
        PROVE  \E j \in 1..(i - 1) : /\ j \in 1..m
                                     /\ report.timeline[j].event.type = EvaluationOf(r)[l]
    <3>1. /\ at[i] \in 1..n /\ at[i] \in 1..Len(rows)
          /\ rows[at[i]].event.type = EvaluationOf(r)[k]
          /\ rows[at[i]].event.request = r
      BY <2>3, <2>7
    <3>2. Precedes(rows, at[i] - 1, rows[at[i]].event)
      BY <3>1 DEF OrderInv
    <3>3. PICK j \in 1..(at[i] - 1) : rows[j].event = EvaluationEvent(r, l)
      BY <2>6, <3>1, <3>2 DEF Precedes
    <3>4. /\ j \in 1..n
          /\ rows[j].event.request = r /\ rows[j].event.type = EvaluationOf(r)[l]
      BY <2>3, <3>1, <3>3 DEF EvaluationEvent
    <3>5. PICK h \in 1..m : at[h] = j
      BY <2>4, <3>4
    <3>6. h \in 1..(i - 1)
      <4>1. at[h] < at[i] /\ at[h] \in Nat /\ at[i] \in Nat
        BY <3>1, <3>3, <3>5
      <4>2. ~(i < h) /\ i # h
        BY <2>3, <4>1
      <4>3. i \in Nat /\ h \in Nat /\ 1 <= h
        BY <2>3
      <4> QED  BY <4>2, <4>3
    <3>7. report.timeline[h].event.type = EvaluationOf(r)[l]
      BY <2>3, <3>4, <3>5
    <3> QED  BY <3>6, <3>7
  <2>8. ASSUME NEW k \in 1..last
        PROVE  \E i \in 1..m : report.timeline[i].event.type = EvaluationOf(r)[k]
    <3>1. CASE k = last
      BY <2>5, <2>6, <3>1
    <3>2. CASE k # last
      <4>1. last \in 1..last /\ k \in 1..(last - 1)
        BY <2>6, <3>2
      <4>2. report.timeline[f].event.type = EvaluationOf(r)[last]
        BY <2>5, <2>6
      <4> QED  BY <2>5, <2>7, <4>1, <4>2
    <3> QED  BY <3>1, <3>2
  <2>9. EvaluationOver(r)
    <3>0. /\ DOMAIN rows = 1..Len(rows)
          /\ \A i \in 1..Len(rows) : rows[i].event \in Events
      BY LenProperties, RowOfRows DEF StoreInv, TypeInv
    <3>1. ASSUME NEW k \in 1..last
          PROVE  /\ EvaluationEvent(r, k) \in Events
                 /\ Stored(rows, EvaluationEvent(r, k))
                 /\ r \in Requests
      <4>1. PICK i \in 1..m : report.timeline[i].event.type = EvaluationOf(r)[k]
        BY <2>8
      <4>2. /\ at[i] \in 1..Len(rows)
            /\ rows[at[i]].event.type = EvaluationOf(r)[k]
            /\ rows[at[i]].event.request = r
        BY <2>3, <4>1
      <4>3. /\ rows[at[i]].event.request \in Requests
            /\ rows[at[i]].event = [request |-> rows[at[i]].event.request,
                                   type |-> rows[at[i]].event.type]
        BY <4>2, RowsAreOfRequests
      <4>4. rows[at[i]].event = EvaluationEvent(r, k) /\ r \in Requests
        BY <4>2, <4>3 DEF EvaluationEvent
      <4> QED  BY <3>0, <4>2, <4>4 DEF Stored
    <3>2. last \in 1..last /\ last \in Nat
      BY <2>6
    <3>3. Started(EvaluationEvent(r, last))
      BY <3>0, <3>1, <3>2 DEF Started, Stored
    <3>4. /\ r \in Requests /\ progress[r] \in Nat
          /\ progress[r] <= last /\ last <= progress[r]
      BY <2>6, <3>1, <3>2, <3>3 DEF OrderInv, ProgressInv, last
    <3>5. ASSUME NEW t \in Threads, NEW k \in 1..last,
                 appender[t].event = EvaluationEvent(r, k)
          PROVE  FALSE
      BY <3>1, <3>5, NoEventAssumption DEF StoreInv, CallsAreDistinct
    <3>6. ~Recording(r)
      BY <2>6, <3>5 DEF Recording, EvaluationTypes, EvaluationEvent
    <3>7. progress[r] = last
      BY <3>2, <3>4
    <3> QED  BY <3>6, <3>7 DEF EvaluationOver, last
  <2> QED
    <3>1. ASSUME NEW k \in DOMAIN EvaluationOf(r)
          PROVE  \E i \in DOMAIN report.timeline :
                     /\ report.timeline[i].event.type = EvaluationOf(r)[k]
                     /\ \A l \in 1..(k - 1) : \E j \in 1..(i - 1) :
                            report.timeline[j].event.type = EvaluationOf(r)[l]
      <4>0. k \in 1..last
        BY <2>6
      <4>1. PICK i \in 1..m : report.timeline[i].event.type = EvaluationOf(r)[k]
        BY <2>8, <4>0
      <4>2. \A l \in 1..(k - 1) : \E j \in 1..(i - 1) :
                report.timeline[j].event.type = EvaluationOf(r)[l]
        BY <2>7, <4>0, <4>1
      <4>3. i \in DOMAIN report.timeline
        BY <2>3
      <4> QED  BY <4>1, <4>2, <4>3, Zenon
    <3> QED  BY <2>9, <3>1, Zenon DEF r
<1>2. ReportsInit => Init
  BY DEF ReportsInit
<1>3. StoreInv /\ VerdictInv /\ TimelineInv /\ [ReportsNext]_<<vars, progress, reportVars>> => TimelineInv'
  BY TimelineInvStep
<1> QED
  BY <1>1, <1>2, <1>3, StoreInvInit, StoreInvStep, ReportsStep, VerdictInvInit, VerdictInvStep,
     TimelineInvInit, OrderInvInit, OrderInvStep, PTL
  DEF ReportsSpec

----------------------------------------------------------------------------
(* What the reports count.                                                 *)

\* Rows of different requests are no more than the rows that go with them.
LEMMA CountedBefore ==
    ASSUME NEW n \in Nat, NEW requestOf,
           NEW A \in SUBSET (1..n), NEW B \in SUBSET (1..n),
           \A i, j \in A : requestOf[i] = requestOf[j] => i = j,
           \A i \in A : \E j \in B : requestOf[j] = requestOf[i]
    PROVE  Cardinality(A) <= Cardinality(B)
<1> DEFINE f == [i \in A |-> CHOOSE j \in B : requestOf[j] = requestOf[i]]
<1>1. \A i \in A : f[i] \in B /\ requestOf[f[i]] = requestOf[i]
  OBVIOUS
<1>2. f \in [A -> B]
  BY <1>1
<1> HIDE DEF f
<1>3. f \in Injection(A, B)
  BY <1>1, <1>2 DEF Injection, IsInjective
<1>4. IsFiniteSet(B)
  <2>1. IsFiniteSet(1..n)
    BY FS_Interval
  <2> QED  BY <2>1, FS_Subset
<1> QED  BY <1>3, <1>4, FS_Injection

\* A set of two disjoint parts.
LEMMA CardinalityOfParts ==
    ASSUME NEW n \in Nat, NEW A \in SUBSET (1..n), NEW B \in SUBSET (1..n), A \cap B = {},
           NEW C, C = A \cup B
    PROVE  /\ Cardinality(C) = Cardinality(A) + Cardinality(B)
           /\ Cardinality(A) \in Nat /\ Cardinality(B) \in Nat
<1>1. IsFiniteSet(A) /\ IsFiniteSet(B)
  <2>1. IsFiniteSet(1..n)
    BY FS_Interval
  <2> QED  BY <2>1, FS_Subset
<1>2. Cardinality(A) \in Nat /\ Cardinality(B) \in Nat
  BY <1>1, FS_CardinalityType
<1>3. Cardinality(A \cup B) = Cardinality(A) + Cardinality(B) - Cardinality(A \cap B)
  BY <1>1, FS_Union
<1>4. Cardinality(A \cap B) = 0
  BY FS_EmptySet
<1> QED  BY <1>2, <1>3, <1>4

\* The reports over the log count every decided request once, whatever is being
\* recorded while they are made.
THEOREM ReportsAddUpCorrect == ReportsSpec => []ReportsAddUp
<1>1. StoreInv /\ OrderInv => ReportsAddUp
  <2> SUFFICES ASSUME StoreInv, OrderInv PROVE ReportsAddUp
    OBVIOUS
  <2> DEFINE n == Len(rows)
             requestOf == [i \in 1..n |-> rows[i].event.request]
             Of(type) == {i \in 1..n : rows[i].event.type = type}
             decided == Of("policy_decided")
             With(action) == {i \in decided : ActionOf[requestOf[i]] = action}
             asked == Of("approval_requested")
             risky == {i \in decided : requestOf[i] \in Risky}
             analyzed == {i \in Of("request_analyzed") : requestOf[i] \in Risky}
             requests == {r \in Requests : Recorded(r, "policy_decided")}
  <2>1. /\ n \in Nat /\ DOMAIN rows = 1..n
        /\ \A i \in 1..n : /\ requestOf[i] \in Requests
                           /\ rows[i].event.type \in TypesOf(requestOf[i])
                           /\ requestOf[i] = rows[i].event.request
                           /\ rows[i].event = [request |-> requestOf[i],
                                               type |-> rows[i].event.type]
        /\ \A type : \A i, j \in Of(type) : requestOf[i] = requestOf[j] => i = j
    BY RowsAreOfRequests
  <2>2. \A type : Of(type) \in SUBSET (1..n)
    OBVIOUS
  <2>3. /\ CountIn(rows, "policy_decided", Requests) = Cardinality(decided)
        /\ CountIn(rows, "approval_requested", Requests) = Cardinality(asked)
        /\ CountIn(rows, "policy_decided", Risky) = Cardinality(risky)
        /\ CountIn(rows, "request_analyzed", Risky) = Cardinality(analyzed)
        /\ \A action : Decided(rows, action) = Cardinality(With(action))
    <3>1. /\ {i \in DOMAIN rows : /\ rows[i].event.type = "policy_decided"
                                  /\ rows[i].event.request \in Requests} = decided
          /\ {i \in DOMAIN rows : /\ rows[i].event.type = "approval_requested"
                                  /\ rows[i].event.request \in Requests} = asked
          /\ {i \in DOMAIN rows : /\ rows[i].event.type = "policy_decided"
                                  /\ rows[i].event.request \in Risky} = risky
          /\ {i \in DOMAIN rows : /\ rows[i].event.type = "request_analyzed"
                                  /\ rows[i].event.request \in Risky} = analyzed
      BY <2>1
    <3>2. \A action : {i \in DOMAIN rows :
                          /\ rows[i].event.type = "policy_decided"
                          /\ ActionOf[rows[i].event.request] = action} = With(action)
      BY <2>1
    <3> QED  BY <3>1, <3>2 DEF CountIn, Decided
  <2>4. ASSUME NEW i \in 1..n, NEW k \in DOMAIN EvaluationOf(requestOf[i]),
               rows[i].event.type = EvaluationOf(requestOf[i])[k], NEW l \in 1..(k - 1)
        PROVE  \E j \in Of(EvaluationOf(requestOf[i])[l]) : requestOf[j] = requestOf[i]
    <3>1. Precedes(rows, i - 1, rows[i].event)
      BY DEF OrderInv
    <3>2. PICK j \in 1..(i - 1) : rows[j].event = EvaluationEvent(requestOf[i], l)
      BY <2>1, <2>4, <3>1 DEF Precedes
    <3>3. /\ j \in 1..n /\ rows[j].event.type = EvaluationOf(requestOf[i])[l]
          /\ rows[j].event.request = requestOf[i]
      BY <2>1, <3>2 DEF EvaluationEvent
    <3> QED  BY <2>1, <3>3
  <2>5. Cardinality(decided) = Cardinality(requests)
    <3> DEFINE f == [i \in decided |-> requestOf[i]]
    <3>1. \A r : Recorded(r, "policy_decided") <=> \E i \in decided : requestOf[i] = r
      BY <2>1 DEF Recorded
    <3>2. f \in [decided -> requests]
      BY <2>1, <3>1
    <3>3. \A r \in requests : \E i \in decided : f[i] = r
      BY <3>1
    <3>4. \A i, j \in decided : f[i] = f[j] => i = j
      BY <2>1
    <3> HIDE DEF f, decided, requests
    <3>5. f \in Surjection(decided, requests) /\ f \in Injection(decided, requests)
      BY <3>2, <3>3, <3>4 DEF Surjection, Injection, IsInjective
    <3>6. IsFiniteSet(decided)
      <4>1. IsFiniteSet(1..n) /\ decided \in SUBSET (1..n)
        BY <2>1, FS_Interval DEF decided
      <4> QED  BY <4>1, FS_Subset
    <3>7. Cardinality(requests) = Cardinality(decided) <=> f \in Injection(decided, requests)
      BY <3>5, <3>6, FS_Surjection
    <3> QED  BY <3>5, <3>7
  <2>6. Cardinality(decided) = Cardinality(With("allow")) + Cardinality(With("mask"))
                                 + Cardinality(With("block"))
                                 + Cardinality(With("require_approval"))
    <3> DEFINE A == With("allow")
               B == With("mask")
               C == With("block")
               D == With("require_approval")
    <3>1. \A i \in decided : ActionOf[requestOf[i]] \in Actions
      BY <2>1, ReportsAssumption DEF ReportsAssumption
    <3> DEFINE AB == A \cup B
               ABC == AB \cup C
    <3>2. /\ decided = ABC \cup D
          /\ A \cap B = {} /\ AB \cap C = {} /\ ABC \cap D = {}
          /\ A \in SUBSET (1..n) /\ B \in SUBSET (1..n) /\ C \in SUBSET (1..n)
          /\ D \in SUBSET (1..n) /\ AB \in SUBSET (1..n) /\ ABC \in SUBSET (1..n)
      BY <3>1 DEF Actions
    <3>3. AB = A \cup B /\ ABC = AB \cup C
      OBVIOUS
    <3>4. n \in Nat
      BY <2>1
    <3> HIDE DEF A, B, C, D, AB, ABC, n, decided
    <3>5. /\ Cardinality(AB) = Cardinality(A) + Cardinality(B)
          /\ Cardinality(A) \in Nat /\ Cardinality(B) \in Nat
      BY <3>2, <3>3, <3>4, CardinalityOfParts
    <3>6. Cardinality(ABC) = Cardinality(AB) + Cardinality(C) /\ Cardinality(C) \in Nat
      BY <3>2, <3>3, <3>4, CardinalityOfParts
    <3>7. Cardinality(decided) = Cardinality(ABC) + Cardinality(D) /\ Cardinality(D) \in Nat
      BY <3>2, <3>4, CardinalityOfParts
    <3>8. Cardinality(decided) = Cardinality(A) + Cardinality(B) + Cardinality(C) + Cardinality(D)
      BY <3>5, <3>6, <3>7
    <3> QED  BY <3>8 DEF A, B, C, D
  <2>7. Cardinality(asked) <= Cardinality(With("require_approval"))
    <3>1. ASSUME NEW i \in asked
          PROVE  \E j \in With("require_approval") : requestOf[j] = requestOf[i]
      <4>1. "approval_requested" \in TypesOf(requestOf[i])
        BY <2>1
      <4>2. /\ Held(requestOf[i]) /\ 5 \in DOMAIN EvaluationOf(requestOf[i])
            /\ EvaluationOf(requestOf[i])[5] = "approval_requested"
            /\ EvaluationOf(requestOf[i])[3] = "policy_decided"
        BY <4>1, EvaluationShape
      <4>3. ActionOf[requestOf[i]] = "require_approval"
        BY <4>2 DEF Held
      <4>4. 3 \in 1..(5 - 1)
        OBVIOUS
      <4>5. rows[i].event.type = EvaluationOf(requestOf[i])[5]
        BY <4>2
      <4>6. \E j \in Of(EvaluationOf(requestOf[i])[3]) : requestOf[j] = requestOf[i]
        BY <2>4, <4>2, <4>4, <4>5
      <4> QED  BY <4>2, <4>3, <4>6
    <3>2. With("require_approval") \in SUBSET (1..n)
      OBVIOUS
    <3> HIDE DEF n, requestOf, asked, With, Of
    <3> QED  BY <2>1, <2>2, <3>1, <3>2, CountedBefore DEF asked
  <2>8. Cardinality(risky) <= Cardinality(analyzed)
    <3>1. ASSUME NEW i \in risky
          PROVE  \E j \in analyzed : requestOf[j] = requestOf[i]
      <4>1. /\ 3 \in DOMAIN EvaluationOf(requestOf[i]) /\ 2 \in 1..(3 - 1)
            /\ EvaluationOf(requestOf[i])[3] = "policy_decided"
            /\ EvaluationOf(requestOf[i])[2] = "request_analyzed"
        <5>1. DOMAIN EvaluationOf(requestOf[i]) = 1..Len(EvaluationOf(requestOf[i]))
          BY EvaluationShape
        <5>2. Len(EvaluationOf(requestOf[i])) \in {5, 6}
          BY EvaluationShape
        <5>3. /\ EvaluationOf(requestOf[i])[3] = "policy_decided"
              /\ EvaluationOf(requestOf[i])[2] = "request_analyzed"
          BY EvaluationShape
        <5> QED  BY <5>1, <5>2, <5>3
      <4>2. rows[i].event.type = EvaluationOf(requestOf[i])[3]
        BY <4>1
      <4>3. i \in 1..n
        OBVIOUS
      <4> HIDE DEF n, requestOf, risky, analyzed, Of
      <4>4. \E j \in Of(EvaluationOf(requestOf[i])[2]) : requestOf[j] = requestOf[i]
        BY <2>4, <4>1, <4>2, <4>3
      <4>5. \E j \in Of("request_analyzed") : requestOf[j] = requestOf[i]
        BY <4>1, <4>4
      <4>6. requestOf[i] \in Risky
        BY DEF risky
      <4> QED  BY <4>5, <4>6 DEF analyzed
    <3>2. analyzed \in SUBSET (1..n) /\ risky \in SUBSET (1..n)
      OBVIOUS
    <3>3. \A i, j \in risky : requestOf[i] = requestOf[j] => i = j
      BY <2>1
    <3> HIDE DEF n, requestOf, risky, analyzed, Of
    <3> QED  BY <2>1, <3>1, <3>2, <3>3, CountedBefore
  <2> HIDE DEF n, requestOf, Of, decided, With, asked, risky, analyzed
  <2> QED  BY <2>3, <2>5, <2>6, <2>7, <2>8 DEF ReportsAddUp, PolicyReport, Actions, requests
<1>2. ReportsInit => Init
  BY DEF ReportsInit
<1> QED
  BY <1>1, <1>2, StoreInvInit, StoreInvStep, ReportsStep, OrderInvInit, OrderInvStep, PTL
  DEF ReportsSpec

----------------------------------------------------------------------------
(* Audit queries.                                                          *)

\* No two rows are equal: a row is where it is.
LEMMA PositionIsUnique ==
    ASSUME StoreInv, NEW i \in 1..Len(rows)
    PROVE  Position(rows[i]) = i
<1>1. DOMAIN rows = 1..Len(rows)
  BY LenProperties DEF StoreInv, TypeInv
<1>2. \A j \in 1..Len(rows) : rows[j] = rows[i] => j = i
  BY DEF StoreInv, Chained
<1> QED  BY <1>1, <1>2 DEF Position

\* What is found are the first m of the n matches, all of them unless m is the
\* limit; where lists the matches in the order asked for.
FoundAt(s, q, found, n, m, where) ==
    /\ DOMAIN found = 1..m /\ Len(found) = m
    /\ m < n => m = q.limit
    /\ \A k \in 1..m : found[k] = s[where[k]]
    /\ \A k \in 1..n : Matches(s[where[k]].event, q)
    /\ \A k, l \in 1..n : k < l =>
           IF q.order = "desc" THEN where[k] > where[l] ELSE where[k] < where[l]
    /\ \A i \in 1..Len(s) : Matches(s[i].event, q) => \E k \in 1..n : where[k] = i

\* A query finds that.
LEMMA QueryReturns ==
    ASSUME NEW s \in Seq(Rows(Events)), NEW q \in Queries,
           NEW found, found = QueryEvents(s, q)
    PROVE  \E n \in Nat : \E m \in 0..n : \E where \in [1..n -> 1..Len(s)] :
               FoundAt(s, q, found, n, m, where)
<1> DEFINE I == {i \in DOMAIN s : Matches(s[i].event, q)}
           picked == Selected(s, I)
           n == Len(picked)
           ordered == IF q.order = "desc" THEN Reversed(picked) ELSE picked
<1>1. Len(s) \in Nat /\ DOMAIN s = 1..Len(s)
  BY LenProperties
<1>2. I \in SUBSET (1..Len(s)) /\ \A i \in 1..Len(s) : i \in I <=> Matches(s[i].event, q)
  BY <1>1
<1>3. found = FirstOf(ordered, q.limit)
  BY DEF QueryEvents
<1> HIDE DEF I
<1>4. picked = Selected(s, I)
  OBVIOUS
<1> HIDE DEF picked
<1>5. /\ picked \in Seq(Rows(Events))
      /\ \E at \in [1..Len(picked) -> I] : Picks(picked, s, I, at)
  <2> DEFINE T == Rows(Events)
  <2>1. s \in Seq(T)
    OBVIOUS
  <2> HIDE DEF T
  <2>2. /\ picked \in Seq(T)
        /\ \E at \in [1..Len(picked) -> I] : Picks(picked, s, I, at)
    BY <1>2, <1>4, <2>1, SelectedFrom
  <2> QED  BY <2>2 DEF T
<1>5a. PICK at \in [1..Len(picked) -> I] : Picks(picked, s, I, at)
  BY <1>5
<1>5b. /\ at \in [1..Len(picked) -> I]
       /\ \A k \in 1..Len(picked) : picked[k] = s[at[k]]
       /\ \A k, l \in 1..Len(picked) : k < l => at[k] < at[l]
       /\ \A i \in I : \E k \in 1..Len(picked) : at[k] = i
  BY <1>5a DEF Picks
<1>6. n \in Nat /\ DOMAIN picked = 1..n
  BY <1>5, <1>5b, LenProperties
<1> DEFINE where == [k \in 1..n |-> IF q.order = "desc" THEN at[n + 1 - k] ELSE at[k]]
<1>7. \A k \in 1..n : n + 1 - k \in 1..n /\ n + 1 - (n + 1 - k) = k
  BY <1>6
<1>8. where \in [1..n -> I]
  BY <1>5, <1>5b, <1>7
<1>9. \A k \in 1..n : Matches(s[where[k]].event, q)
  BY <1>2, <1>8
<1>10. \A k, l \in 1..n : k < l =>
           IF q.order = "desc" THEN where[k] > where[l] ELSE where[k] < where[l]
  <2> SUFFICES ASSUME NEW k \in 1..n, NEW l \in 1..n, k < l
               PROVE  IF q.order = "desc" THEN where[k] > where[l] ELSE where[k] < where[l]
    OBVIOUS
  <2>1. n + 1 - l < n + 1 - k /\ n + 1 - k \in 1..n /\ n + 1 - l \in 1..n
    BY <1>6
  <2>2. at[n + 1 - l] < at[n + 1 - k] /\ at[k] < at[l]
    BY <1>5, <1>5b, <2>1
  <2>3. \A i \in 1..n : at[i] \in Int
    <3>1. \A i \in I : i \in Int
      BY <1>1, <1>2
    <3> QED  BY <3>1
  <2> QED  BY <2>1, <2>2, <2>3
<1>11. \A i \in I : \E k \in 1..n : where[k] = i
  <2> SUFFICES ASSUME NEW i \in I PROVE \E k \in 1..n : where[k] = i
    OBVIOUS
  <2>1. PICK k \in 1..n : at[k] = i
    BY <1>5, <1>5b
  <2>2. CASE q.order = "desc"
    BY <1>7, <2>1, <2>2
  <2>3. CASE q.order # "desc"
    BY <2>1, <2>3
  <2> QED  BY <2>2, <2>3
<1>12. /\ ordered \in Seq(Rows(Events)) /\ Len(ordered) = n /\ DOMAIN ordered = 1..n
       /\ \A k \in 1..n : ordered[k] = s[where[k]]
  <2>1. CASE q.order = "desc"
    <3>1. ordered = [k \in 1..n |-> picked[n + 1 - k]]
      BY <1>6, <2>1 DEF Reversed
    <3>2. \A k \in 1..n : picked[n + 1 - k] \in Rows(Events)
      BY <1>5, <1>5b, <1>6, <1>7, ElementOfSeq
    <3> HIDE DEF ordered, n
    <3>3. ordered \in Seq(Rows(Events)) /\ Len(ordered) = n /\ DOMAIN ordered = 1..n
      BY <1>6, <3>1, <3>2
    <3> QED  BY <1>5, <1>5b, <1>7, <2>1, <3>1, <3>3 DEF n
  <2>2. CASE q.order # "desc"
    BY <1>5, <1>5b, <1>6, <2>2
  <2> QED  BY <2>1, <2>2
<1> HIDE DEF ordered, where, n
<1>13. \E m \in 0..n : /\ DOMAIN found = 1..m /\ Len(found) = m
                       /\ m < n => m = q.limit
                       /\ \A k \in 1..m : found[k] = ordered[k]
  <2>1. CASE q.limit = None
    BY <1>3, <1>6, <1>12, <2>1 DEF FirstOf
  <2>2. CASE q.limit # None
    <3> DEFINE m == IF q.limit < n THEN q.limit ELSE n
    <3>1. q.limit \in Nat
      BY <2>2, ReportsAssumption DEF ReportsAssumption
    <3>2. m \in 0..n /\ (m < n => m = q.limit)
      BY <1>6, <3>1
    <3>3. found = SubSeq(ordered, 1, m)
      BY <1>3, <1>12, <2>2 DEF FirstOf
    <3> HIDE DEF m
    <3>4. \A k \in 1..m : ordered[k] \in Rows(Events)
      BY <1>6, <1>12, <3>2, ElementOfSeq
    <3>5. /\ found \in Seq(Rows(Events))
          /\ Len(found) = IF 1 <= m THEN m - 1 + 1 ELSE 0
          /\ \A k \in 1..(m - 1 + 1) : found[k] = ordered[1 + k - 1]
      BY <1>6, <1>12, <3>2, <3>3, <3>4, SubSeqProperties
    <3>6. Len(found) = m /\ DOMAIN found = 1..m /\ \A k \in 1..m : found[k] = ordered[k]
      BY <1>6, <3>2, <3>5, LenProperties
    <3> QED  BY <3>2, <3>6
  <2> QED  BY <2>1, <2>2
<1>14. PICK m \in 0..n : /\ DOMAIN found = 1..m /\ Len(found) = m
                         /\ m < n => m = q.limit
                         /\ \A k \in 1..m : found[k] = ordered[k]
  BY <1>13
<1>15. \A k \in 1..m : found[k] = s[where[k]]
  BY <1>6, <1>12, <1>14
<1>16. where \in [1..n -> 1..Len(s)]
  BY <1>2, <1>8
<1>17. \A i \in 1..Len(s) : Matches(s[i].event, q) => \E k \in 1..n : where[k] = i
  BY <1>2, <1>11
<1>18. FoundAt(s, q, found, n, m, where)
  BY <1>9, <1>10, <1>14, <1>15, <1>17 DEF FoundAt
<1> QED  BY <1>6, <1>16, <1>18

\* An audit query returns matches only, in the order asked for, and what the
\* limit cuts off comes after all that is returned.
THEOREM QueriesRankCorrect == ReportsSpec => []QueriesRank
<1>1. StoreInv => QueriesRank
  <2> SUFFICES ASSUME StoreInv, NEW q \in Queries,
                      NEW found, found = QueryEvents(rows, q)
               PROVE  LET Earlier(x, y) == IF q.order = "desc" THEN Position(x) > Position(y)
                                                               ELSE Position(x) < Position(y)
                      IN  /\ \A i \in DOMAIN found : Matches(found[i].event, q)
                          /\ \A i, j \in DOMAIN found : i < j => Earlier(found[i], found[j])
                          /\ \A k \in DOMAIN rows :
                                 Matches(rows[k].event, q) =>
                                     \/ \E i \in DOMAIN found : found[i] = rows[k]
                                     \/ /\ Len(found) = q.limit
                                        /\ \A i \in DOMAIN found : Earlier(found[i], rows[k])
    BY DEF QueriesRank
  <2> DEFINE Earlier(x, y) == IF q.order = "desc" THEN Position(x) > Position(y)
                                                  ELSE Position(x) < Position(y)
  <2>1. rows \in Seq(Rows(Events)) /\ Len(rows) \in Nat /\ DOMAIN rows = 1..Len(rows)
    BY LenProperties DEF StoreInv, TypeInv
  <2>2. PICK n \in Nat : \E m \in 0..n : \E where \in [1..n -> 1..Len(rows)] :
            FoundAt(rows, q, found, n, m, where)
    BY <2>1, QueryReturns
  <2>3. PICK m \in 0..n : \E where \in [1..n -> 1..Len(rows)] :
            FoundAt(rows, q, found, n, m, where)
    BY <2>2
  <2>4. PICK where \in [1..n -> 1..Len(rows)] : FoundAt(rows, q, found, n, m, where)
    BY <2>3
  <2>5. \A k \in 1..n : where[k] \in 1..Len(rows) /\ Position(rows[where[k]]) = where[k]
    BY PositionIsUnique
  <2>6. \A k, l \in 1..n : k < l => Earlier(rows[where[k]], rows[where[l]])
    BY <2>4, <2>5 DEF FoundAt
  <2> HIDE DEF Earlier
  <2>7. \A k \in 1..m : k \in 1..n
    OBVIOUS
  <2>8. \A i \in DOMAIN found : Matches(found[i].event, q)
    BY <2>4, <2>7 DEF FoundAt
  <2>9. \A i, j \in DOMAIN found : i < j => Earlier(found[i], found[j])
    BY <2>4, <2>6, <2>7 DEF FoundAt
  <2>10. ASSUME NEW k \in DOMAIN rows, Matches(rows[k].event, q)
         PROVE  \/ \E i \in DOMAIN found : found[i] = rows[k]
                \/ /\ Len(found) = q.limit
                   /\ \A i \in DOMAIN found : Earlier(found[i], rows[k])
    <3>1. PICK l \in 1..n : where[l] = k
      BY <2>1, <2>4, <2>10 DEF FoundAt
    <3>2. CASE l <= m
      <4>1. l \in 1..m /\ found[l] = rows[k]
        BY <2>4, <3>1, <3>2 DEF FoundAt
      <4> QED  BY <2>4, <4>1 DEF FoundAt
    <3>3. CASE ~(l <= m)
      <4>1. m < n /\ \A i \in 1..m : i < l
        BY <3>3
      <4>2. \A i \in 1..m : Earlier(found[i], rows[k])
        BY <2>4, <2>6, <2>7, <3>1, <4>1 DEF FoundAt
      <4> QED  BY <2>4, <4>1, <4>2 DEF FoundAt
    <3> QED  BY <3>2, <3>3
  <2> QED  BY <2>8, <2>9, <2>10 DEF Earlier
<1>2. ReportsInit => Init
  BY DEF ReportsInit
<1> QED
  BY <1>1, <1>2, StoreInvInit, StoreInvStep, ReportsStep, PTL DEF ReportsSpec
=============================================================================
