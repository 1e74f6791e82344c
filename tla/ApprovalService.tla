--------------------------- MODULE ApprovalService ---------------------------
(***************************************************************************)
(* The approval handlers in a process that fails.  An append to the        *)
(* evidence store may raise: no handler catches the store's exceptions, so *)
(* the client gets 500 and whatever the handler still had to do is not     *)
(* done.  The process may die and start again: InMemoryApprovalQueue and   *)
(* the threads are gone, the evidence is in SQLite and stays.              *)
(***************************************************************************)
EXTENDS ApprovalGateway

CONSTANTS
    MaxFailures,    \* bound on the number of appends that raise
    MaxRestarts     \* bound on the number of restarts

ASSUME ServiceAssumption == MaxFailures \in Nat /\ MaxRestarts \in Nat

VARIABLES
    failures,
    restarts,
    unrecorded  \* attempts and approvals whose event was lost to a fault (history)

faultVars == <<failures, restarts, unrecorded>>

serviceVars == <<gatewayVars, faultVars>>

ServiceInit ==
    /\ GatewayInit
    /\ failures = 0
    /\ restarts = 0
    /\ unrecorded = {}

----------------------------------------------------------------------------
(* Faults.                                                                 *)

\* The attempts and the approval whose event a handler has yet to append.
Owed(h) ==
    {e \in AttemptIds :
        \/ job[h].at \in {"failed", "executed"} /\ job[h].attempt = e
        \/ job[h].at = "resolved" /\ job[h].attempt = e
             /\ job[h].context = "chat_completion"
        \/ job[h].at = "recovered" /\ \E r \in job[h].todo : r.attempt = e}
    \cup {a \in ApprovalIds : job[h].at = "resolved" /\ job[h].approval = a}

\* A handler at "finish" with a chat completion appends response_analyzed
\* (_guard_chat_completion_response) before it settles the attempt.
Appends(h) ==
    \/ job[h].at \in {"failed", "conflicted", "resolved", "executed", "recovered",
                      "reset_done"}
    \/ job[h].at = "finish" /\ job[h].context = "chat_completion"

AppendRaises(h) ==
    /\ failures < MaxFailures
    /\ failures' = failures + 1
    /\ Appends(h)
    /\ Done(h)
    /\ unrecorded' = unrecorded \cup Owed(h)
    /\ UNCHANGED <<vars, provider, origin, log, calls, restarts>>

\* An attempt that was running is nobody's any more.
Restart ==
    /\ restarts < MaxRestarts
    /\ restarts' = restarts + 1
    /\ requests' = [a \in ApprovalIds |-> NewRequest("absent", None)]
    /\ attempts' = [e \in AttemptIds |->
           IF attempts[e].outcome = "running"
             THEN [attempts[e] EXCEPT !.outcome = "superseded"]
             ELSE attempts[e]]
    /\ job' = [h \in Handlers |-> IdleJob]
    /\ unrecorded' = unrecorded
           \cup {e \in AttemptIds : attempts[e].outcome = "running"}
           \cup UNION {Owed(h) : h \in Handlers}
    /\ UNCHANGED <<clock, provider, origin, log, calls, failures>>

\* uuid4 does not repeat an approval id of an earlier process either.
FreshIds ==
    \A a \in ApprovalIds :
        (requests[a].status = "absent" /\ requests'[a].status # "absent") =>
            origin[a] = "none"

ServiceNext ==
    \/ GatewayNext /\ FreshIds /\ UNCHANGED faultVars
    \/ \E h \in Handlers : AppendRaises(h)
    \/ Restart

ServiceSpec == ServiceInit /\ [][ServiceNext]_serviceVars

----------------------------------------------------------------------------
(* Properties.                                                             *)

\* Parts of EvidenceIsTrue: an event about the end of an attempt or of an
\* approval says how it ended, ...
OutcomesAreTrue ==
    /\ \A i \in Events("approval_execution_failed") :
           attempts[log[i].attempt].outcome = "failed"
    /\ \A i \in Events("approval_execution_stale_recovered") :
           attempts[log[i].attempt].outcome = "superseded"
    /\ \A i \in Events("approval_executed") :
           /\ attempts[log[i].attempt].outcome = "succeeded"
           /\ provider[log[i].attempt] = "ok"
    /\ \A i \in Events("approval_resolved") :
           requests[log[i].approval].status \in {log[i].status, "absent"}

\* ... no end is recorded twice, ...
EndsAreRecordedOnce ==
    \A i, j \in DOMAIN log :
        (/\ log[i].type = log[j].type
         /\ log[i].approval = log[j].approval
         /\ \/ log[i].type = "approval_resolved"
            \/ /\ log[i].type # "approval_execution_error_reset"
               /\ log[i].attempt = log[j].attempt) => i = j

\* ... and an execution is recorded after the resolution it belongs to.
ExecutionFollowsResolution ==
    \A i \in Events("approval_executed") :
        \E j \in Events("approval_resolved") :
            j < i /\ log[j].attempt = log[i].attempt /\ log[j].status = "approved"

\* Whatever appends raise and whenever the process restarts, the evidence tells
\* the truth about the approvals, those of earlier processes included.
EvidenceIsTrue == OutcomesAreTrue /\ EndsAreRecordedOnce /\ ExecutionFollowsResolution

\* The event about an id is in the log, or a handler is about to append it, or
\* it was lost when an append raised or the process died.
Accounted(id, type, names(_)) ==
    \/ \E i \in Events(type) : names(log[i]) = id
    \/ \E h \in Handlers : id \in Owed(h)
    \/ id \in unrecorded

\* Evidence is only ever missing because of a fault: every attempt that ended,
\* every rejection and every approval has its event, or will, or lost it to one.
MissingEvidenceIsAFault ==
    /\ \A e \in AttemptIds :
           /\ attempts[e].outcome = "failed" =>
                  Accounted(e, "approval_execution_failed", LAMBDA r : r.attempt)
           /\ attempts[e].outcome = "superseded" =>
                  Accounted(e, "approval_execution_stale_recovered", LAMBDA r : r.attempt)
           /\ attempts[e].outcome = "succeeded" /\ provider[e] = "ok" =>
                  Accounted(e, "approval_executed", LAMBDA r : r.attempt)
    /\ \A a \in ApprovalIds : requests[a].status \in {"approved", "rejected"} =>
           Accounted(a, "approval_resolved", LAMBDA r : r.approval)

\* A provider is sent one approval a second time, under a new idempotency key,
\* only after the attempt before it failed or was taken from its caller: of the
\* attempts that reached a provider at most one may still be acted upon.
OneLiveCall ==
    \A e, f \in AttemptIds :
        (/\ e # f
         /\ attempts[e].approval = attempts[f].approval
         /\ provider[e] # "none"
         /\ provider[f] # "none") =>
            \/ attempts[e].outcome \in {"failed", "superseded"}
            \/ attempts[f].outcome \in {"failed", "superseded"}
============================================================================
