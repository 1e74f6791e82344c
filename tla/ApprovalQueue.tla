--------------------------- MODULE ApprovalQueue ---------------------------
(***************************************************************************)
(* The in-memory approval queue: InMemoryApprovalQueue of                  *)
(* src/kai_security/approval/queue.py.  Every method runs under one        *)
(* re-entrant lock, so a method is one atomic action here.  A method that  *)
(* raises KeyError or ValueError changes nothing: it is a stuttering step, *)
(* and its condition is the negation of the action's guard.                *)
(*                                                                         *)
(* The callers are arbitrary: any method may be called at any time with    *)
(* any arguments, as the tests and several gateway threads do.             *)
(*                                                                         *)
(* Left out: who resolved or reset a request, comments, reason codes and   *)
(* the timestamps no decision reads (created_at, resolved_at,              *)
(* last_execution_reset_at).                                               *)
(***************************************************************************)
EXTENDS Integers, FiniteSets

CONSTANTS
    ApprovalIds,        \* the uuids that name approval requests
    AttemptIds,         \* the uuids that name execution attempts
    Contexts,           \* stored execution contexts (opaque to the queue)
    Errors,             \* execution error types
    ResettableErrors,   \* _resettable_execution_errors
    RecoveryReasons,    \* reasons a stale execution is recovered with
    Timeouts,           \* stale-execution timeouts callers pass
    Limits,             \* recovery batch limits callers pass
    MaxClock,           \* bound of the clock
    None                \* Python's None

ASSUME SetsAssumption ==
    /\ None \notin AttemptIds
    /\ None \notin ApprovalIds
    /\ None \notin Errors
    /\ None \notin Contexts
    /\ ResettableErrors \subseteq Errors
    /\ RecoveryReasons \subseteq Errors

ASSUME NumbersAssumption ==
    /\ MaxClock \in Nat
    /\ Timeouts \subseteq Nat \ {0}
    /\ Limits \subseteq Nat \ {0}

VARIABLES
    requests,   \* approval_id -> ApprovalRequest; status "absent" = no entry
    attempts,   \* attempt_id -> what became of that attempt (history)
    clock       \* datetime.now(UTC); assumed not to run backwards

vars == <<requests, attempts, clock>>

----------------------------------------------------------------------------
(* Types.                                                                  *)

Never == -1

Times == Nat \cup {Never}

Statuses ==
    {"absent", "pending", "executing", "approved", "rejected", "invalid_context"}

\* last_execution_retryable is None, True or False.
Verdicts == {"unset", "yes", "no"}

Requests ==
    [status        : Statuses,
     context       : Contexts \cup {None},
     attempt       : AttemptIds \cup {None},
     attemptCount  : Nat,
     startedAt     : Times,
     lastStartedAt : Times,
     firstFailedAt : Times,
     lastFailedAt  : Times,
     error         : Errors \cup {None},
     retryable     : Verdicts]

\* A "superseded" attempt was taken from its caller, by stale recovery or by a
\* restart of the process.
Outcomes == {"unused", "running", "succeeded", "failed", "superseded"}

Settled == {"succeeded", "failed", "superseded"}

Attempts ==
    [outcome  : Outcomes,
     approval : ApprovalIds \cup {None},
     context  : Contexts \cup {None}]

TypeOK ==
    /\ requests \in [ApprovalIds -> Requests]
    /\ attempts \in [AttemptIds -> Attempts]
    /\ clock \in Nat

----------------------------------------------------------------------------
(* Records.                                                                *)

NewRequest(status, context) ==
    [status |-> status, context |-> context, attempt |-> None,
     attemptCount |-> 0, startedAt |-> Never, lastStartedAt |-> Never,
     firstFailedAt |-> Never, lastFailedAt |-> Never, error |-> None,
     retryable |-> "unset"]

\* Python's "x or y" on two timestamps.
Or(time, default) == IF time = Never THEN default ELSE time

\* What begin_execution writes.
StartedRequest(r, e, now) ==
    [status |-> "executing", context |-> r.context, attempt |-> e,
     attemptCount |-> r.attemptCount + 1, startedAt |-> now, lastStartedAt |-> now,
     firstFailedAt |-> r.firstFailedAt, lastFailedAt |-> r.lastFailedAt,
     error |-> r.error, retryable |-> "unset"]

\* What fail_execution and recover_stale_executions both write.
FailedRequest(r, status, error, retryable, now) ==
    [r EXCEPT !.status        = status,
              !.startedAt     = Never,
              !.lastStartedAt = Or(r.startedAt, r.lastStartedAt),
              !.firstFailedAt = Or(r.firstFailedAt, now),
              !.lastFailedAt  = now,
              !.error         = error,
              !.retryable     = retryable]

\* What finish_execution_success and reject_pending write.
ApprovedRequest(r) ==
    [r EXCEPT !.status = "approved", !.startedAt = Never, !.error = None,
              !.retryable = "unset"]

RejectedRequest(r) ==
    [r EXCEPT !.status = "rejected", !.startedAt = Never, !.retryable = "unset"]

\* Mutants: the attempt id, or the status, is not compared.
IsCurrentAttemptAnyId(a, e) == requests[a].status = "executing"

IsCurrentAttemptAnyStatus(a, e) == requests[a].attempt = e

\* _require_current_execution_attempt: the caller's attempt is the one that
\* the request is executing.
IsCurrentAttempt(a, e) ==
    /\ requests[a].status = "executing"
    /\ requests[a].attempt = e

\* Mutant: every execution is stale, however young.
StaleAtAnyAge(now, timeout) ==
    {a \in ApprovalIds : requests[a].status = "executing"}

\* _is_stale_execution, for every request at once.
StaleAt(now, timeout) ==
    {a \in ApprovalIds : /\ requests[a].status = "executing"
                         /\ requests[a].startedAt # Never
                         /\ now - requests[a].startedAt >= timeout}

\* The sets that one batch of at most limit recoveries may take from stale.
Batches(stale, limit) ==
    {S \in SUBSET stale :
        \/ S = stale
        \/ /\ Cardinality(S) = limit
           /\ Cardinality(stale) > limit}

\* Mutant: the retry verdict is not looked at.
CanBeginRefused(a) == requests[a].status = "pending"

\* Mutant: an approval that is executing already is executed once more.
CanBeginExecuting(a) ==
    /\ requests[a].status \in {"pending", "executing"}
    /\ requests[a].retryable # "no"

\* begin_execution accepts the request.
CanBegin(a) ==
    /\ requests[a].status = "pending"
    /\ requests[a].retryable # "no"

\* Mutant: any failure of a resettable kind is reset, refused or not.
CanResetAnyVerdict(a) ==
    /\ requests[a].status = "pending"
    /\ requests[a].error \in ResettableErrors

\* reset_execution_error accepts the request.
CanReset(a) ==
    /\ requests[a].status = "pending"
    /\ requests[a].retryable = "no"
    /\ requests[a].error \in ResettableErrors

\* reject_pending accepts the request.
CanReject(a) == requests[a].status \in {"pending", "invalid_context"}

Settle(e, outcome) == attempts' = [attempts EXCEPT ![e].outcome = outcome]

----------------------------------------------------------------------------
(* Operations.                                                             *)

Init ==
    /\ requests = [a \in ApprovalIds |-> NewRequest("absent", None)]
    /\ attempts = [e \in AttemptIds |->
                      [outcome |-> "unused", approval |-> None, context |-> None]]
    /\ clock = 0

Create(a, context) ==
    /\ requests[a].status = "absent"
    /\ requests' = [requests EXCEPT ![a] = NewRequest("pending", context)]
    /\ UNCHANGED <<attempts, clock>>

\* Mutant: attach_context does not look at the status.
AttachContextAnyTime(a, context) ==
    /\ requests[a].status # "absent"
    /\ requests' = [requests EXCEPT ![a].context = context]
    /\ UNCHANGED <<attempts, clock>>

AttachContext(a, context) ==
    /\ requests[a].status = "pending"
    /\ requests' = [requests EXCEPT ![a].context = context]
    /\ UNCHANGED <<attempts, clock>>

\* uuid4 is a pick of an attempt id that was never used.
BeginExecution(a, e) ==
    /\ CanBegin(a)
    /\ attempts[e].outcome = "unused"
    /\ requests' = [requests EXCEPT ![a] = StartedRequest(@, e, clock)]
    /\ attempts' = [attempts EXCEPT ![e] =
           [outcome |-> "running", approval |-> a, context |-> requests[a].context]]
    /\ UNCHANGED clock

FailExecution(a, e, error, retryable, finalStatus) ==
    /\ IsCurrentAttempt(a, e)
    /\ finalStatus \in {"pending", "invalid_context"}
    /\ requests' = [requests EXCEPT ![a] =
                        FailedRequest(@, finalStatus, error, retryable, clock)]
    /\ Settle(e, "failed")
    /\ UNCHANGED clock

FinishExecutionSuccess(a, e) ==
    /\ IsCurrentAttempt(a, e)
    /\ requests' = [requests EXCEPT ![a] = ApprovedRequest(@)]
    /\ Settle(e, "succeeded")
    /\ UNCHANGED clock

ResetExecutionError(a) ==
    /\ CanReset(a)
    /\ requests' = [requests EXCEPT ![a].retryable = "yes"]
    /\ UNCHANGED <<attempts, clock>>

RejectPending(a) ==
    /\ CanReject(a)
    /\ requests' = [requests EXCEPT ![a] = RejectedRequest(@)]
    /\ UNCHANGED <<attempts, clock>>

\* The caller's clock is read before the lock is taken, so now may be old.
RecoverStaleExecutions(recovered, now, reason) ==
    /\ requests' = [a \in ApprovalIds |->
           IF a \in recovered
             THEN FailedRequest(requests[a], "pending", reason, "yes", now)
             ELSE requests[a]]
    /\ attempts' = [e \in AttemptIds |->
           IF \E a \in recovered : requests[a].attempt = e
             THEN [attempts[e] EXCEPT !.outcome = "superseded"]
             ELSE attempts[e]]
    /\ UNCHANGED clock

Recover(timeout, limit, now, reason) ==
    \E recovered \in Batches(StaleAt(now, timeout), limit) :
        RecoverStaleExecutions(recovered, now, reason)

Tick ==
    /\ clock < MaxClock
    /\ clock' = clock + 1
    /\ UNCHANGED <<requests, attempts>>

Next ==
    \/ \E a \in ApprovalIds, context \in Contexts \cup {None} : Create(a, context)
    \/ \E a \in ApprovalIds, context \in Contexts : AttachContext(a, context)
    \/ \E a \in ApprovalIds, e \in AttemptIds : BeginExecution(a, e)
    \/ \E a \in ApprovalIds, e \in AttemptIds, error \in Errors,
          retryable \in Verdicts, finalStatus \in {"pending", "invalid_context"} :
          FailExecution(a, e, error, retryable, finalStatus)
    \/ \E a \in ApprovalIds, e \in AttemptIds : FinishExecutionSuccess(a, e)
    \/ \E a \in ApprovalIds : ResetExecutionError(a)
    \/ \E a \in ApprovalIds : RejectPending(a)
    \/ \E timeout \in Timeouts, limit \in Limits, now \in 0..clock,
          reason \in RecoveryReasons : Recover(timeout, limit, now, reason)
    \/ Tick

Spec == Init /\ [][Next]_vars

----------------------------------------------------------------------------
(* Properties.                                                             *)

\* The stage of an approval, for a user who does not see why it is open.
Stage(a) ==
    CASE requests[a].status \in {"pending", "invalid_context"} -> "open"
      [] requests[a].status = "executing"                      -> "running"
      [] OTHER                                                 -> requests[a].status

Lifecycle == INSTANCE ApprovalLifecycle WITH
    stage   <- [a \in ApprovalIds |-> Stage(a)],
    outcome <- [e \in AttemptIds |-> attempts[e].outcome],
    ran     <- [e \in AttemptIds |-> attempts[e].approval]

\* The queue implements the abstract life of an approval: every method is one
\* step of ApprovalLifecycle or invisible to it.
ImplementsLifecycle == Lifecycle!Spec

\* An execution attempt is running exactly while the approval it was begun
\* for is executing under that attempt id: recovery, failure and success each
\* close the attempt they end, so no approval ever has two running attempts
\* and no running attempt is forgotten (queue.py _require_current_execution_attempt).
RunningIsCurrent ==
    /\ \A a \in ApprovalIds : requests[a].status = "executing" =>
           /\ requests[a].attempt \in AttemptIds
           /\ attempts[requests[a].attempt].outcome = "running"
           /\ attempts[requests[a].attempt].approval = a
    /\ \A e \in AttemptIds : attempts[e].outcome = "running" =>
           /\ attempts[e].approval \in ApprovalIds
           /\ requests[attempts[e].approval].status = "executing"
           /\ requests[attempts[e].approval].attempt = e

\* An approval is approved exactly when one of its attempts succeeded, and that
\* attempt is the one the approval still names: a late success of a superseded
\* attempt, or an approval on another attempt's word, is impossible.
ApprovedByItsAttempt ==
    /\ \A a \in ApprovalIds : requests[a].status = "approved" =>
           /\ requests[a].attempt \in AttemptIds
           /\ attempts[requests[a].attempt].outcome = "succeeded"
           /\ attempts[requests[a].attempt].approval = a
    /\ \A e \in AttemptIds : attempts[e].outcome = "succeeded" =>
           /\ attempts[e].approval \in ApprovalIds
           /\ requests[attempts[e].approval].status = "approved"
           /\ requests[attempts[e].approval].attempt = e

\* What an approval shows as its stored context while it executes and once it
\* is approved is the context its attempt was begun with: attach_context cannot
\* swap the request under an execution.
ExecutedContextIsStored ==
    \A a \in ApprovalIds : requests[a].status \in {"executing", "approved"} =>
        requests[a].context = attempts[requests[a].attempt].context

WindowOrdered(r, now) ==
    /\ r.firstFailedAt <= r.lastFailedAt
    /\ r.lastFailedAt <= now
    /\ r.firstFailedAt = Never <=> r.lastFailedAt = Never
    /\ r.status = "executing" =>
           /\ r.startedAt \in 0..now
           /\ r.lastFailedAt <= r.startedAt
           /\ r.lastStartedAt = r.startedAt

\* first_failed_at, last_failed_at and the start of the current attempt are in
\* order although recovery stamps a clock value read before it took the lock.
FailureTimesOrdered == \A a \in ApprovalIds : WindowOrdered(requests[a], clock)

\* A verdict on retrying is only kept while the approval is open, and always
\* next to the error it is about: an operator who finds a retry refused can see
\* what to fix, and the next attempt starts without the old verdict.
VerdictHasError ==
    \A a \in ApprovalIds : requests[a].retryable # "unset" =>
        /\ requests[a].status \in {"pending", "invalid_context"}
        /\ requests[a].error # None
        /\ requests[a].lastFailedAt # Never

\* Once an attempt has an outcome it keeps it: whatever a stale callback calls,
\* with whatever attempt id, a settled attempt is never settled again.
AttemptsSettleOnce ==
    [][\A e \in AttemptIds : attempts[e].outcome \in Settled =>
           attempts'[e] = attempts[e]]_vars

\* approved and rejected are final: no later call changes anything in the entry.
TerminalIsFinal ==
    [][\A a \in ApprovalIds : requests[a].status \in {"approved", "rejected"} =>
           requests'[a] = requests[a]]_vars

\* An approval whose last failure was judged not retryable runs again only
\* after an explicit reset: no step turns "no" into a new attempt or into any
\* other open state but a retryable one with a resettable error.
RefusalNeedsReset ==
    [][\A a \in ApprovalIds :
           (requests[a].retryable = "no" /\ requests'[a].retryable # "no") =>
               \/ requests'[a].status = "rejected"
               \/ /\ requests'[a].status = "pending"
                  /\ requests'[a].retryable = "yes"
                  /\ requests'[a].error = requests[a].error
                  /\ requests'[a].error \in ResettableErrors]_vars
============================================================================
