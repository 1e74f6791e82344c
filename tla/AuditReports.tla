---------------------------- MODULE AuditReports ----------------------------
(***************************************************************************)
(* What is read back from the in-memory evidence store while requests are  *)
(* being recorded: the evidence package of a request with its verdict on   *)
(* the chain, the policy and privacy reports and the audit query, from     *)
(* src/kai_security/reports/generator.py and apps/gateway_api/main.py.     *)
(* The store has no lock and verify_chain walks the live list, so other    *)
(* threads append between any two steps of a report.                       *)
(*                                                                         *)
(* An event is named by its request and type: GatewayService.evaluate      *)
(* records each type once for a request, and one approval has at most one  *)
(* resolution.  The guard's and the executions' events may recur in the    *)
(* code; here each is recorded once (bound).  Left out: payloads but for   *)
(* what reports count or filter, timestamps (a time window filters like    *)
(* the other conditions of a query), which thread serves which request,    *)
(* and the CSV and JSONL layouts of an export.                             *)
(***************************************************************************)
EXTENDS MemoryEvidence, Orders

CONSTANTS
    Requests,
    ActionOf,       \* request -> the action its policy decision takes
    GuardOf,        \* request -> the action of the guard on its response
    PolicyOf,       \* request -> the policy that decides it
    Risky,          \* requests the detectors find something in
    Changed,        \* requests whose effective prompt differs from the prompt
    Queries,        \* audit queries to ask
    Caps,           \* what KAI_SECURITY_REPORT_CHAIN_VERIFY_MAX_EVENTS may hold
    DefaultCap,     \* _DEFAULT_CHAIN_VERIFY_MAX_EVENTS
    NotANumber,     \* that variable when it is unset, blank or malformed
    None

Actions == {"allow", "mask", "block", "require_approval"}

\* _REQUIRED_REQUEST_EVENT_TYPES.
RequiredTypes == {"request_received", "request_analyzed", "policy_decided",
                  "model_routed", "request_finalized"}

Held(r) == ActionOf[r] = "require_approval"

\* What evaluate records, in its order; the approval of a held request is in the
\* queue before approval_requested is recorded.
EvaluationOf(r) ==
    IF Held(r)
      THEN <<"request_received", "request_analyzed", "policy_decided", "model_routed",
             "approval_requested", "request_finalized">>
      ELSE <<"request_received", "request_analyzed", "policy_decided", "model_routed",
             "request_finalized">>

EvaluationTypes(r) == {EvaluationOf(r)[k] : k \in DOMAIN EvaluationOf(r)}

\* What else is recorded about a request: the guard on its response and, if it is
\* held, what becomes of its approval.
OutcomeTypes(r) ==
    {"response_analyzed"} \cup
        IF Held(r)
          THEN {"approval_resolved", "approval_executed", "approval_execution_failed",
                "approval_execution_error_reset", "approval_execution_stale_recovered",
                "approval_execution_attempt_conflict"}
          ELSE {}

TypesOf(r) == EvaluationTypes(r) \cup OutcomeTypes(r)

AuditEvents == UNION {{[request |-> r, type |-> type] : type \in TypesOf(r)} : r \in Requests}

ASSUME ReportsAssumption ==
    /\ ActionOf \in [Requests -> Actions]
    /\ GuardOf \in [Requests -> {"allow", "mask", "block"}]
    /\ Events \subseteq AuditEvents
    /\ Changed \subseteq {r \in Requests : ActionOf[r] = "mask"}
    /\ DefaultCap \in Nat
    /\ Caps \subseteq Int \cup {NotANumber}
    /\ \A q \in Queries : q.limit \in (Nat \ {0}) \cup {None}

VARIABLES
    progress,   \* request -> how many events of EvaluationOf evaluate has begun to record
    cap,        \* the environment variable
    report      \* the evidence package being made

reportVars == <<cap, report>>

NoReport == [at |-> "idle", request |-> None, timeline |-> <<>>, count |-> 0, next |-> 1,
             chain |-> "unknown"]

ReportsInit ==
    /\ Init
    /\ progress = [r \in Requests |-> 0]
    /\ cap \in Caps
    /\ report = NoReport

----------------------------------------------------------------------------
(* Recording.                                                              *)

Recorded(r, type) == \E i \in DOMAIN rows : rows[i].event = [request |-> r, type |-> type]

\* One call of _record by evaluate is under way for the request.
Recording(r) ==
    \E t \in Threads :
        appender[t].event \in {[request |-> r, type |-> type] : type \in EvaluationTypes(r)}

EvaluationOver(r) == progress[r] = Len(EvaluationOf(r)) /\ ~Recording(r)

\* evaluate calls _record for its next event when the call before has returned.
RecordEvaluation(t, r) ==
    /\ progress[r] < Len(EvaluationOf(r))
    /\ ~Recording(r)
    /\ LET event == [request |-> r, type |-> EvaluationOf(r)[progress[r] + 1]]
       IN  event \in Events /\ ReadTail(t, event)
    /\ progress' = [progress EXCEPT ![r] = @ + 1]
    /\ UNCHANGED reportVars

\* A held request has its approval in the queue after model_routed, and approvers
\* may act on it while evaluate goes on; other requests go on to the provider
\* when evaluate has returned.
RecordOutcome(t, event) ==
    /\ event.type \in OutcomeTypes(event.request)
    /\ IF Held(event.request) THEN Recorded(event.request, "model_routed")
                              ELSE EvaluationOver(event.request)
    /\ ReadTail(t, event)
    /\ UNCHANGED <<progress, reportVars>>

StoreEvent(t) == AppendRow(t) /\ UNCHANGED <<progress, reportVars>>

----------------------------------------------------------------------------
(* GET /v1/reports/evidence-package/{request_id}.                          *)

\* list_events(request_id).
TimelineOf(s, r) == Selected(s, {i \in DOMAIN s : s[i].event.request = r})

\* _report_chain_verify_max_events.
MaxEvents(raw) ==
    CASE raw = NotANumber -> DefaultCap
      [] raw # NotANumber -> IF raw < 0 THEN 0 ELSE raw

\* A request without events is answered 404.
ListEvents(r) ==
    /\ report.at = "idle"
    /\ TimelineOf(rows, r) # <<>>
    /\ report' = [NoReport EXCEPT !.at = "listed", !.request = r,
                                  !.timeline = TimelineOf(rows, r)]
    /\ UNCHANGED <<vars, progress, cap>>

\* The first half of _chain_verification_report.
CountEvents ==
    /\ report.at = "listed"
    /\ report' = [report EXCEPT
           !.count = Len(rows),
           !.at    = IF Len(rows) > MaxEvents(cap) THEN "done" ELSE "verify",
           !.chain = IF Len(rows) > MaxEvents(cap) THEN "skipped" ELSE "unknown"]
    /\ UNCHANGED <<vars, progress, cap>>

\* Mutant: a row's own hash is checked, its link to the row before is not.
VerifyRowUnlinked ==
    /\ report.at = "verify"
    /\ \/ /\ report.next > Len(rows)
          /\ report' = [report EXCEPT !.at = "done", !.chain = "verified"]
       \/ /\ report.next <= Len(rows)
          /\ rows[report.next].hash = Hash(rows[report.next].event, rows[report.next].previous)
          /\ report' = [report EXCEPT !.next = @ + 1]
    /\ UNCHANGED <<vars, progress, cap>>

\* One turn of the loop of verify_chain, over the list as it is by now.
VerifyRow ==
    /\ report.at = "verify"
    /\ \/ /\ report.next > Len(rows)
          /\ report' = [report EXCEPT !.at = "done", !.chain = "verified"]
       \/ /\ report.next <= Len(rows)
          /\ RowVerifies(rows, report.next)
          /\ report' = [report EXCEPT !.next = @ + 1]
       \/ /\ report.next <= Len(rows)
          /\ ~RowVerifies(rows, report.next)
          /\ report' = [report EXCEPT !.at = "done", !.chain = "failed"]
    /\ UNCHANGED <<vars, progress, cap>>

AnswerPackage ==
    /\ report.at = "done"
    /\ report' = NoReport
    /\ UNCHANGED <<vars, progress, cap>>

TypesIn(s) == {s[i].event.type : i \in DOMAIN s}

\* Mutant: the types are counted.
EvidenceStatusByCount(timeline) ==
    CASE timeline = <<>> -> "missing_evidence"
      [] timeline # <<>> /\ Cardinality(TypesIn(timeline)) < 5 -> "incomplete"
      [] timeline # <<>> /\ Cardinality(TypesIn(timeline)) >= 5 -> "complete"

\* generate_request_evidence_package: evidence_status.
EvidenceStatus(timeline) ==
    CASE timeline = <<>> -> "missing_evidence"
      [] timeline # <<>> /\ ~(RequiredTypes \subseteq TypesIn(timeline)) -> "incomplete"
      [] timeline # <<>> /\ RequiredTypes \subseteq TypesIn(timeline) -> "complete"

----------------------------------------------------------------------------
(* Reports over the whole log.                                             *)

Decided(s, action) ==
    Cardinality({i \in DOMAIN s : /\ s[i].event.type = "policy_decided"
                                  /\ ActionOf[s[i].event.request] = action})

CountIn(s, type, requests) ==
    Cardinality({i \in DOMAIN s : /\ s[i].event.type = type
                                  /\ s[i].event.request \in requests})

\* Mutant: events of every type that carries the action are counted.
PolicyReportAllTypes(s) ==
    [request_count  |-> CountIn(s, "policy_decided", Requests),
     actions        |-> [action \in Actions |->
                           Cardinality({i \in DOMAIN s : ActionOf[s[i].event.request] = action})],
     prompt_changes |-> CountIn(s, "policy_decided", Changed),
     risk_events    |-> CountIn(s, "request_analyzed", Risky)]

\* generate_policy_report; generate_privacy_export_check renames its fields.
PolicyReport(s) ==
    [request_count  |-> CountIn(s, "policy_decided", Requests),
     actions        |-> [action \in Actions |-> Decided(s, action)],
     prompt_changes |-> CountIn(s, "policy_decided", Changed),
     risk_events    |-> CountIn(s, "request_analyzed", Risky)]

\* Which payloads have the keys action and policy_id.
CarriesAction(type) ==
    type \in {"policy_decided", "model_routed", "approval_requested", "approval_resolved",
              "request_finalized", "response_analyzed"}

\* The action in the payload, which the guard has of its own.
ActionIn(event) ==
    IF event.type = "response_analyzed" THEN GuardOf[event.request] ELSE ActionOf[event.request]

CarriesPolicy(type) == type \in {"policy_decided", "model_routed"}

Matches(event, q) ==
    /\ q.request \in {None, event.request}
    /\ q.type \in {None, event.type}
    /\ q.action # None => CarriesAction(event.type) /\ ActionIn(event) = q.action
    /\ q.policy # None => CarriesPolicy(event.type) /\ PolicyOf[event.request] = q.policy

Reversed(s) == [i \in DOMAIN s |-> s[Len(s) + 1 - i]]

FirstOf(s, limit) ==
    IF limit = None THEN s ELSE SubSeq(s, 1, IF limit < Len(s) THEN limit ELSE Len(s))

\* Mutant: the limit is applied before the order.
QueryLimitedFirst(s, q) ==
    LET found == FirstOf(Selected(s, {i \in DOMAIN s : Matches(s[i].event, q)}), q.limit)
    IN  IF q.order = "desc" THEN Reversed(found) ELSE found

\* _query_audit_events.
QueryEvents(s, q) ==
    LET found == Selected(s, {i \in DOMAIN s : Matches(s[i].event, q)})
    IN  FirstOf(IF q.order = "desc" THEN Reversed(found) ELSE found, q.limit)

----------------------------------------------------------------------------

ReportsNext ==
    \/ \E t \in Threads :
           \/ \E r \in Requests : RecordEvaluation(t, r)
           \/ \E event \in Events : RecordOutcome(t, event)
           \/ StoreEvent(t)
    \/ \E r \in Requests : ListEvents(r)
    \/ CountEvents
    \/ VerifyRow
    \/ AnswerPackage

ReportsSpec == ReportsInit /\ [][ReportsNext]_<<vars, progress, reportVars>>

----------------------------------------------------------------------------
(* Properties.                                                             *)

\* Parts of VerdictIsTrue: the verdict is called verified only if the rows that
\* were checked are a prefix of the log that links up and is at least as long as
\* the count beside the verdict, failed only if the log is broken, and skipped
\* exactly if the count is over the limit; ...
ChainVerdictIsTrue ==
    report.at = "done" =>
        /\ report.chain = "skipped" <=> report.count > MaxEvents(cap)
        /\ report.chain = "failed" => ~Verifies(rows)
        /\ report.chain = "verified" =>
               /\ Verifies(SubSeq(rows, 1, report.next - 1))
               /\ report.next - 1 \in report.count..Len(rows)

\* ... and every event of the timeline is among those that were counted and, if
\* the chain is called verified, checked.
TimelineIsCovered ==
    report.at = "done" =>
        /\ Len(report.timeline) <= report.count
        /\ report.chain = "verified" =>
               \A i \in DOMAIN report.timeline :
                   \E j \in 1..(report.next - 1) : rows[j] = report.timeline[i]

\* The verdict of an evidence package covers the package (docs/event-schema.md,
\* Request Evidence Package Report), whatever was appended since its events were
\* listed and the log was counted.
VerdictIsTrue == ChainVerdictIsTrue /\ TimelineIsCovered

\* A package is called complete only if evaluate was done with the request when
\* its events were listed: it holds all that evaluate records, in its order, the
\* request for the approval of a held request included, although that is not
\* among the required types and its approval may have been acted upon before.
CompleteMeansFinalized ==
    report.at # "idle" /\ EvidenceStatus(report.timeline) = "complete" =>
        /\ EvaluationOver(report.request)
        /\ \A k \in DOMAIN EvaluationOf(report.request) :
               \E i \in DOMAIN report.timeline :
                   /\ report.timeline[i].event.type = EvaluationOf(report.request)[k]
                   /\ \A l \in 1..(k - 1) : \E j \in 1..(i - 1) :
                          report.timeline[j].event.type = EvaluationOf(report.request)[l]

\* The reports over the log count every decided request once: the actions add up
\* to the requests, no approval is asked for that is not counted as held, and
\* nothing risky is decided that was not counted as analyzed.
ReportsAddUp ==
    LET policy == PolicyReport(rows)
    IN  /\ policy.request_count = Cardinality({r \in Requests : Recorded(r, "policy_decided")})
        /\ policy.request_count =
               policy.actions["allow"] + policy.actions["mask"]
                   + policy.actions["block"] + policy.actions["require_approval"]
        /\ CountIn(rows, "approval_requested", Requests) <= policy.actions["require_approval"]
        /\ CountIn(rows, "policy_decided", Risky) <= policy.risk_events

\* Where a row is in the log.
Position(row) == CHOOSE i \in DOMAIN rows : rows[i] = row

\* An audit query returns events that match, in the order asked for, and leaves
\* out a match only if the limit is reached and everything returned comes first
\* in that order: the newest events of the log for "desc", the oldest for "asc".
\* (Every log is also met while no package is being made.)
QueriesRank ==
    \A q \in IF report.at = "idle" THEN Queries ELSE {} :
        LET found == QueryEvents(rows, q)
            Earlier(x, y) == IF q.order = "desc" THEN Position(x) > Position(y)
                                                 ELSE Position(x) < Position(y)
        IN  /\ \A i \in DOMAIN found : Matches(found[i].event, q)
            /\ \A i, j \in DOMAIN found : i < j => Earlier(found[i], found[j])
            /\ \A k \in DOMAIN rows :
                   Matches(rows[k].event, q) =>
                       \/ \E i \in DOMAIN found : found[i] = rows[k]
                       \/ /\ Len(found) = q.limit
                          /\ \A i \in DOMAIN found : Earlier(found[i], rows[k])
============================================================================
