------------------------ MODULE ApprovalQueueProofs ------------------------
(***************************************************************************)
(* Theorems about ApprovalQueue, for any sets of approvals, attempts,      *)
(* contexts and errors and any clock.                                      *)
(***************************************************************************)
EXTENDS ApprovalQueue, TLAPS

----------------------------------------------------------------------------
(* What the record operators return.                                       *)

\* A fresh request has the type of a request.
LEMMA NewRequestType ==
    ASSUME NEW status \in Statuses, NEW context \in Contexts \cup {None}
    PROVE  NewRequest(status, context) \in Requests
BY DEF NewRequest, Requests, Times, Never, Verdicts

\* Beginning an attempt keeps the type and the failure window.
LEMMA StartedRequestType ==
    ASSUME NEW r \in Requests, NEW e \in AttemptIds, NEW now \in Nat
    PROVE  /\ StartedRequest(r, e, now) \in Requests
           /\ StartedRequest(r, e, now).status = "executing"
           /\ StartedRequest(r, e, now).attempt = e
           /\ StartedRequest(r, e, now).context = r.context
           /\ StartedRequest(r, e, now).startedAt = now
           /\ StartedRequest(r, e, now).lastStartedAt = now
           /\ StartedRequest(r, e, now).firstFailedAt = r.firstFailedAt
           /\ StartedRequest(r, e, now).lastFailedAt = r.lastFailedAt
           /\ StartedRequest(r, e, now).error = r.error
           /\ StartedRequest(r, e, now).retryable = "unset"
BY DEF StartedRequest, Requests, Statuses, Times, Verdicts

\* Failing or recovering an attempt keeps the type, the context and the attempt
\* id, and moves only the end of the failure window.
LEMMA FailedRequestType ==
    ASSUME NEW r \in Requests, NEW status \in Statuses, NEW error \in Errors,
           NEW retryable \in Verdicts, NEW now \in Nat
    PROVE  /\ FailedRequest(r, status, error, retryable, now) \in Requests
           /\ FailedRequest(r, status, error, retryable, now).status = status
           /\ FailedRequest(r, status, error, retryable, now).attempt = r.attempt
           /\ FailedRequest(r, status, error, retryable, now).context = r.context
           /\ FailedRequest(r, status, error, retryable, now).firstFailedAt
                  = Or(r.firstFailedAt, now)
           /\ FailedRequest(r, status, error, retryable, now).lastFailedAt = now
           /\ FailedRequest(r, status, error, retryable, now).error = error
           /\ FailedRequest(r, status, error, retryable, now).retryable = retryable
BY DEF FailedRequest, Requests, Times, Never, Or

\* Approving keeps the type, the attempt, the context and the failure window.
LEMMA ApprovedRequestType ==
    ASSUME NEW r \in Requests
    PROVE  /\ ApprovedRequest(r) \in Requests
           /\ ApprovedRequest(r).status = "approved"
           /\ ApprovedRequest(r).attempt = r.attempt
           /\ ApprovedRequest(r).context = r.context
           /\ ApprovedRequest(r).firstFailedAt = r.firstFailedAt
           /\ ApprovedRequest(r).lastFailedAt = r.lastFailedAt
           /\ ApprovedRequest(r).error = None
           /\ ApprovedRequest(r).retryable = "unset"
BY DEF ApprovedRequest, Requests, Statuses, Times, Never, Verdicts

\* Rejecting keeps the type and the failure window and drops the verdict.
LEMMA RejectedRequestType ==
    ASSUME NEW r \in Requests
    PROVE  /\ RejectedRequest(r) \in Requests
           /\ RejectedRequest(r).status = "rejected"
           /\ RejectedRequest(r).firstFailedAt = r.firstFailedAt
           /\ RejectedRequest(r).lastFailedAt = r.lastFailedAt
           /\ RejectedRequest(r).attempt = r.attempt
           /\ RejectedRequest(r).error = r.error
           /\ RejectedRequest(r).retryable = "unset"
BY DEF RejectedRequest, Requests, Statuses, Times, Never, Verdicts

\* A batch only takes stale executions, which are executing.
LEMMA BatchIsExecuting ==
    ASSUME NEW timeout, NEW limit, NEW now,
           NEW recovered \in Batches(StaleAt(now, timeout), limit)
    PROVE  \A a \in recovered : /\ a \in ApprovalIds
                                /\ requests[a].status = "executing"
                                /\ now - requests[a].startedAt >= timeout
BY DEF Batches, StaleAt

\* A recovery takes executing approvals back to pending with a retryable error
\* and leaves every other approval alone.
LEMMA RecoveryEffect ==
    ASSUME TypeOK, NEW timeout, NEW limit, NEW now \in 0..clock,
           NEW reason \in RecoveryReasons,
           NEW recovered \in Batches(StaleAt(now, timeout), limit),
           RecoverStaleExecutions(recovered, now, reason)
    PROVE  /\ \A a \in recovered : /\ a \in ApprovalIds
                                   /\ requests[a].status = "executing"
                                   /\ requests'[a].status = "pending"
                                   /\ requests'[a].attempt = requests[a].attempt
                                   /\ requests'[a].error = reason
                                   /\ requests'[a].retryable = "yes"
                                   /\ requests'[a].lastFailedAt = now
           /\ \A a \in ApprovalIds \ recovered : requests'[a] = requests[a]
<1>1. ASSUME NEW a \in recovered
      PROVE  /\ a \in ApprovalIds
             /\ requests[a].status = "executing"
             /\ requests'[a].status = "pending"
             /\ requests'[a].attempt = requests[a].attempt
             /\ requests'[a].error = reason
             /\ requests'[a].retryable = "yes"
             /\ requests'[a].lastFailedAt = now
  <2>1. a \in ApprovalIds /\ requests[a].status = "executing"
    BY BatchIsExecuting
  <2>2. requests'[a] = FailedRequest(requests[a], "pending", reason, "yes", now)
    BY <2>1 DEF RecoverStaleExecutions
  <2>3. /\ requests[a] \in Requests /\ now \in Nat /\ reason \in Errors
        /\ "pending" \in Statuses /\ "yes" \in Verdicts
    BY <2>1, SetsAssumption DEF TypeOK, Statuses, Verdicts
  <2> QED BY <2>1, <2>2, <2>3, FailedRequestType
<1>2. \A a \in ApprovalIds \ recovered : requests'[a] = requests[a]
  BY DEF RecoverStaleExecutions
<1> QED BY <1>1, <1>2

----------------------------------------------------------------------------
(* Type correctness.                                                       *)

\* Every method keeps the types: the step of TypeCorrect.
LEMMA TypeStep ==
    ASSUME TypeOK, [Next]_vars
    PROVE  TypeOK'
<1> USE DEF TypeOK
<1>1. ASSUME NEW a \in ApprovalIds, NEW context \in Contexts \cup {None},
             Create(a, context)
      PROVE  TypeOK'
  BY <1>1, NewRequestType DEF Create, Statuses
<1>2. ASSUME NEW a \in ApprovalIds, NEW context \in Contexts,
             AttachContext(a, context)
      PROVE  TypeOK'
  BY <1>2 DEF AttachContext, Requests
<1>3. ASSUME NEW a \in ApprovalIds, NEW e \in AttemptIds, BeginExecution(a, e)
      PROVE  TypeOK'
  <2>1. requests' \in [ApprovalIds -> Requests]
    BY <1>3, StartedRequestType DEF BeginExecution
  <2>2. requests[a].context \in Contexts \cup {None}
    BY DEF Requests
  <2>3. attempts' \in [AttemptIds -> Attempts]
    BY <1>3, <2>2 DEF BeginExecution, Attempts, Outcomes
  <2> QED BY <1>3, <2>1, <2>3 DEF BeginExecution
<1>4. ASSUME NEW a \in ApprovalIds, NEW e \in AttemptIds, NEW error \in Errors,
             NEW retryable \in Verdicts,
             NEW finalStatus \in {"pending", "invalid_context"},
             FailExecution(a, e, error, retryable, finalStatus)
      PROVE  TypeOK'
  <2>1. requests' \in [ApprovalIds -> Requests]
    BY <1>4, FailedRequestType DEF FailExecution, Statuses
  <2>2. attempts' \in [AttemptIds -> Attempts]
    BY <1>4 DEF FailExecution, Settle, Attempts, Outcomes
  <2> QED BY <1>4, <2>1, <2>2 DEF FailExecution
<1>5. ASSUME NEW a \in ApprovalIds, NEW e \in AttemptIds,
             FinishExecutionSuccess(a, e)
      PROVE  TypeOK'
  <2>1. requests' \in [ApprovalIds -> Requests]
    BY <1>5, ApprovedRequestType DEF FinishExecutionSuccess
  <2>2. attempts' \in [AttemptIds -> Attempts]
    BY <1>5 DEF FinishExecutionSuccess, Settle, Attempts, Outcomes
  <2> QED BY <1>5, <2>1, <2>2 DEF FinishExecutionSuccess
<1>6. ASSUME NEW a \in ApprovalIds, ResetExecutionError(a)
      PROVE  TypeOK'
  BY <1>6 DEF ResetExecutionError, Requests, Verdicts
<1>7. ASSUME NEW a \in ApprovalIds, RejectPending(a)
      PROVE  TypeOK'
  BY <1>7, RejectedRequestType DEF RejectPending
<1>8. ASSUME NEW timeout \in Timeouts, NEW limit \in Limits, NEW now \in 0..clock,
             NEW reason \in RecoveryReasons, Recover(timeout, limit, now, reason)
      PROVE  TypeOK'
  <2>1. PICK recovered \in Batches(StaleAt(now, timeout), limit) :
            RecoverStaleExecutions(recovered, now, reason)
    BY <1>8 DEF Recover
  <2>2. now \in Nat /\ reason \in Errors
    BY SetsAssumption
  <2>3. requests' \in [ApprovalIds -> Requests]
    BY <2>1, <2>2, FailedRequestType DEF RecoverStaleExecutions, Statuses, Verdicts
  <2>4. attempts' \in [AttemptIds -> Attempts]
    BY <2>1 DEF RecoverStaleExecutions, Attempts, Outcomes
  <2> QED BY <2>1, <2>3, <2>4 DEF RecoverStaleExecutions
<1>9. CASE Tick
  BY <1>9 DEF Tick
<1>10. CASE UNCHANGED vars
  BY <1>10 DEF vars
<1> QED
  BY <1>1, <1>2, <1>3, <1>4, <1>5, <1>6, <1>7, <1>8, <1>9, <1>10 DEF Next

\* The empty queue is well typed.
LEMMA TypeInit == Init => TypeOK
<1> SUFFICES ASSUME Init PROVE TypeOK
  OBVIOUS
<1>1. requests \in [ApprovalIds -> Requests]
  BY NewRequestType DEF Init, Statuses
<1>2. attempts \in [AttemptIds -> Attempts]
  BY DEF Init, Attempts, Outcomes
<1> QED BY <1>1, <1>2 DEF Init, TypeOK

\* Every variable of the queue keeps its type, for any constants.
THEOREM TypeCorrect == Spec => []TypeOK
BY TypeInit, TypeStep, PTL DEF Spec

----------------------------------------------------------------------------
(* The failure window.                                                     *)

\* A failure stamped at now, after the last one and not in the future, keeps
\* the window in order.
LEMMA FailedWindow ==
    ASSUME NEW r \in Requests, NEW now \in Nat, NEW later \in Nat, now <= later,
           WindowOrdered(r, later), r.lastFailedAt <= now,
           NEW status \in Statuses, status # "executing",
           NEW error \in Errors, NEW retryable \in Verdicts
    PROVE  WindowOrdered(FailedRequest(r, status, error, retryable, now), later)
<1>1. r.firstFailedAt \in Times /\ r.lastFailedAt \in Times
  BY DEF Requests
<1>2. Or(r.firstFailedAt, now) \in Nat /\ Or(r.firstFailedAt, now) <= now
  BY <1>1 DEF Or, WindowOrdered, Times, Never
<1> QED BY <1>2, FailedRequestType DEF WindowOrdered, Never

\* Every method keeps the failure windows in order: the step of
\* FailureTimesCorrect.
LEMMA FailureTimesStep ==
    ASSUME TypeOK, FailureTimesOrdered, [Next]_vars
    PROVE  FailureTimesOrdered'
<1> USE DEF TypeOK
<1>t. \A a \in ApprovalIds : /\ requests[a] \in Requests
                             /\ requests[a].firstFailedAt \in Times
                             /\ requests[a].lastFailedAt \in Times
  BY DEF Requests
<1>1. ASSUME NEW a \in ApprovalIds, NEW context \in Contexts \cup {None},
             Create(a, context)
      PROVE  FailureTimesOrdered'
  BY <1>1 DEF Create, FailureTimesOrdered, WindowOrdered, NewRequest, Never
<1>2. ASSUME NEW a \in ApprovalIds, NEW context \in Contexts,
             AttachContext(a, context)
      PROVE  FailureTimesOrdered'
  BY <1>2, <1>t DEF AttachContext, FailureTimesOrdered, WindowOrdered, Requests
<1>3. ASSUME NEW a \in ApprovalIds, NEW e \in AttemptIds, BeginExecution(a, e)
      PROVE  FailureTimesOrdered'
  BY <1>3, <1>t, StartedRequestType
     DEF BeginExecution, FailureTimesOrdered, WindowOrdered, Times, Never
<1>4. ASSUME NEW a \in ApprovalIds, NEW e \in AttemptIds, NEW error \in Errors,
             NEW retryable \in Verdicts,
             NEW finalStatus \in {"pending", "invalid_context"},
             FailExecution(a, e, error, retryable, finalStatus)
      PROVE  FailureTimesOrdered'
  <2>1. WindowOrdered(requests[a], clock)
    BY DEF FailureTimesOrdered
  <2>2. WindowOrdered(FailedRequest(requests[a], finalStatus, error, retryable, clock),
                      clock)
    BY <2>1, <1>t, FailedWindow DEF Statuses, WindowOrdered
  <2> QED BY <1>4, <2>2 DEF FailExecution, FailureTimesOrdered
<1>5. ASSUME NEW a \in ApprovalIds, NEW e \in AttemptIds,
             FinishExecutionSuccess(a, e)
      PROVE  FailureTimesOrdered'
  BY <1>5, <1>t, ApprovedRequestType
     DEF FinishExecutionSuccess, FailureTimesOrdered, WindowOrdered
<1>6. ASSUME NEW a \in ApprovalIds, ResetExecutionError(a)
      PROVE  FailureTimesOrdered'
  BY <1>6, <1>t
     DEF ResetExecutionError, CanReset, FailureTimesOrdered, WindowOrdered, Requests
<1>7. ASSUME NEW a \in ApprovalIds, RejectPending(a)
      PROVE  FailureTimesOrdered'
  BY <1>7, <1>t, RejectedRequestType
     DEF RejectPending, FailureTimesOrdered, WindowOrdered
<1>8. ASSUME NEW timeout \in Timeouts, NEW limit \in Limits, NEW now \in 0..clock,
             NEW reason \in RecoveryReasons, Recover(timeout, limit, now, reason)
      PROVE  FailureTimesOrdered'
  <2>1. PICK recovered \in Batches(StaleAt(now, timeout), limit) :
            RecoverStaleExecutions(recovered, now, reason)
    BY <1>8 DEF Recover
  <2>2. /\ now \in Nat /\ now <= clock /\ reason \in Errors
        /\ timeout \in Nat /\ timeout > 0
    BY SetsAssumption, NumbersAssumption
  \* A recovered attempt began after the last failure, and now is later still.
  <2>3. ASSUME NEW a \in recovered
        PROVE  WindowOrdered(FailedRequest(requests[a], "pending", reason, "yes", now),
                             clock)
    <3>1. /\ a \in ApprovalIds
          /\ requests[a].status = "executing"
          /\ now - requests[a].startedAt >= timeout
      BY BatchIsExecuting
    <3>2. WindowOrdered(requests[a], clock)
      BY <3>1 DEF FailureTimesOrdered
    <3>3. requests[a].lastFailedAt <= now
      BY <3>1, <3>2, <2>2, <1>t DEF WindowOrdered, Times, Never
    <3> QED BY <3>1, <3>2, <3>3, <2>2, <1>t, FailedWindow DEF Statuses, Verdicts
  <2> QED BY <2>1, <2>3 DEF RecoverStaleExecutions, FailureTimesOrdered
<1>9. CASE Tick
  BY <1>9, <1>t DEF Tick, FailureTimesOrdered, WindowOrdered, Times, Never
<1>10. CASE UNCHANGED vars
  BY <1>10 DEF vars, FailureTimesOrdered
<1> QED
  BY <1>1, <1>2, <1>3, <1>4, <1>5, <1>6, <1>7, <1>8, <1>9, <1>10 DEF Next

\* The failure window of every approval is in order, and a new attempt never
\* starts before the last failure.
THEOREM FailureTimesCorrect == Spec => []FailureTimesOrdered
<1>1. Init => FailureTimesOrdered
  BY DEF Init, FailureTimesOrdered, WindowOrdered, NewRequest, Never
<1> QED BY <1>1, FailureTimesStep, TypeCorrect, PTL DEF Spec

----------------------------------------------------------------------------
(* Attempts.                                                               *)

\* The halves of ApprovedByItsAttempt: an approval names the attempt it was
\* approved on, ...
ApprovedNamesAttempt ==
    \A a \in ApprovalIds : requests[a].status = "approved" =>
        /\ requests[a].attempt \in AttemptIds
        /\ attempts[requests[a].attempt].outcome = "succeeded"
        /\ attempts[requests[a].attempt].approval = a

\* ... and an attempt that succeeded is named by its approval (which does not
\* survive the loss of the queue in a restart).
SucceededIsNamed ==
    \A e \in AttemptIds : attempts[e].outcome = "succeeded" =>
        /\ attempts[e].approval \in ApprovalIds
        /\ requests[attempts[e].approval].status = "approved"
        /\ requests[attempts[e].approval].attempt = e

\* The inductive invariant: RunningIsCurrent and ApprovedNamesAttempt need each
\* other (a settled attempt is not running, an executing approval is not yet
\* approved), and the stored context is read through the attempt they name.
AttemptInv == RunningIsCurrent /\ ApprovedNamesAttempt /\ ExecutedContextIsStored

\* A recovery supersedes the attempts its approvals were executing, all of which
\* were running, and no others.
LEMMA RecoverySupersedes ==
    ASSUME TypeOK, RunningIsCurrent, NEW timeout \in Timeouts, NEW limit \in Limits,
           NEW now \in 0..clock, NEW reason \in RecoveryReasons,
           NEW recovered \in Batches(StaleAt(now, timeout), limit),
           RecoverStaleExecutions(recovered, now, reason)
    PROVE  \A e \in AttemptIds :
               /\ attempts'[e].approval = attempts[e].approval
               /\ attempts'[e].context = attempts[e].context
               /\ \/ /\ \E a \in recovered : requests[a].attempt = e
                     /\ attempts[e].outcome = "running"
                     /\ attempts'[e].outcome = "superseded"
                  \/ /\ \A a \in recovered : requests[a].attempt # e
                     /\ attempts'[e] = attempts[e]
<1> USE DEF TypeOK, RunningIsCurrent
<1> TAKE e \in AttemptIds
<1>1. CASE \E a \in recovered : requests[a].attempt = e
  <2>1. attempts[e].outcome = "running"
    BY <1>1, BatchIsExecuting
  <2>2. attempts'[e] = [attempts[e] EXCEPT !.outcome = "superseded"]
    BY <1>1 DEF RecoverStaleExecutions
  <2> QED BY <1>1, <2>1, <2>2 DEF Attempts
<1>2. CASE ~\E a \in recovered : requests[a].attempt = e
  BY <1>2 DEF RecoverStaleExecutions
<1> QED BY <1>1, <1>2

\* Every method keeps attempts and approvals in correspondence.
LEMMA AttemptStep ==
    ASSUME TypeOK, AttemptInv, [Next]_vars
    PROVE  AttemptInv'
<1> USE DEF TypeOK, AttemptInv, RunningIsCurrent, ApprovedNamesAttempt,
            ExecutedContextIsStored
<1>1. ASSUME NEW a \in ApprovalIds, NEW context \in Contexts \cup {None},
             Create(a, context)
      PROVE  AttemptInv'
  BY <1>1 DEF Create, NewRequest
<1>2. ASSUME NEW a \in ApprovalIds, NEW context \in Contexts,
             AttachContext(a, context)
      PROVE  AttemptInv'
  BY <1>2 DEF AttachContext, Requests
<1>3. ASSUME NEW a \in ApprovalIds, NEW e \in AttemptIds, BeginExecution(a, e)
      PROVE  AttemptInv'
  BY <1>3, StartedRequestType DEF BeginExecution, CanBegin, Attempts
<1>4. ASSUME NEW a \in ApprovalIds, NEW e \in AttemptIds, NEW error \in Errors,
             NEW retryable \in Verdicts,
             NEW finalStatus \in {"pending", "invalid_context"},
             FailExecution(a, e, error, retryable, finalStatus)
      PROVE  AttemptInv'
  BY <1>4, FailedRequestType
     DEF FailExecution, IsCurrentAttempt, Settle, Statuses, Attempts
<1>5. ASSUME NEW a \in ApprovalIds, NEW e \in AttemptIds,
             FinishExecutionSuccess(a, e)
      PROVE  AttemptInv'
  BY <1>5, ApprovedRequestType
     DEF FinishExecutionSuccess, IsCurrentAttempt, Settle, Attempts
<1>6. ASSUME NEW a \in ApprovalIds, ResetExecutionError(a)
      PROVE  AttemptInv'
  BY <1>6 DEF ResetExecutionError, CanReset, Requests
<1>7. ASSUME NEW a \in ApprovalIds, RejectPending(a)
      PROVE  AttemptInv'
  BY <1>7, RejectedRequestType DEF RejectPending, CanReject
<1>8. ASSUME NEW timeout \in Timeouts, NEW limit \in Limits, NEW now \in 0..clock,
             NEW reason \in RecoveryReasons, Recover(timeout, limit, now, reason)
      PROVE  AttemptInv'
  <2>1. PICK recovered \in Batches(StaleAt(now, timeout), limit) :
            RecoverStaleExecutions(recovered, now, reason)
    BY <1>8 DEF Recover
  <2>3. \A a \in recovered : /\ a \in ApprovalIds
                             /\ requests[a].status = "executing"
                             /\ requests'[a].status = "pending"
    BY <2>1, RecoveryEffect
  <2>4. \A a \in ApprovalIds \ recovered : requests'[a] = requests[a]
    BY <2>1, RecoveryEffect
  <2>5. \A e \in AttemptIds :
            \/ /\ \E a \in recovered : requests[a].attempt = e
               /\ attempts[e].outcome = "running"
               /\ attempts'[e].outcome = "superseded"
            \/ /\ \A a \in recovered : requests[a].attempt # e
               /\ attempts'[e] = attempts[e]
    BY <2>1, RecoverySupersedes
  <2>6. RunningIsCurrent'
    BY <2>3, <2>4, <2>5
  <2>7. ApprovedNamesAttempt'
    BY <2>3, <2>4, <2>5
  <2>8. ExecutedContextIsStored'
    BY <2>3, <2>4, <2>5
  <2> QED BY <2>6, <2>7, <2>8
<1>9. CASE Tick
  BY <1>9 DEF Tick
<1>10. CASE UNCHANGED vars
  BY <1>10 DEF vars
<1> QED
  BY <1>1, <1>2, <1>3, <1>4, <1>5, <1>6, <1>7, <1>8, <1>9, <1>10 DEF Next

\* In the empty queue no attempt exists and no approval names one.
LEMMA AttemptInit == Init => AttemptInv /\ SucceededIsNamed
BY DEF Init, AttemptInv, RunningIsCurrent, ApprovedNamesAttempt, SucceededIsNamed,
       ExecutedContextIsStored, NewRequest

\* Every method keeps a settled attempt as it is.
LEMMA SettledStep ==
    ASSUME TypeOK, AttemptInv, [Next]_vars, NEW e \in AttemptIds,
           attempts[e].outcome \in Settled
    PROVE  attempts'[e] = attempts[e]
<1> USE DEF TypeOK, AttemptInv, RunningIsCurrent, Settled
<1>1. CASE \E a \in ApprovalIds, f \in AttemptIds : BeginExecution(a, f)
  BY <1>1 DEF BeginExecution
<1>2. CASE \E a \in ApprovalIds, f \in AttemptIds, error \in Errors,
              retryable \in Verdicts,
              finalStatus \in {"pending", "invalid_context"} :
              FailExecution(a, f, error, retryable, finalStatus)
  BY <1>2 DEF FailExecution, IsCurrentAttempt, Settle
<1>3. CASE \E a \in ApprovalIds, f \in AttemptIds : FinishExecutionSuccess(a, f)
  BY <1>3 DEF FinishExecutionSuccess, IsCurrentAttempt, Settle
<1>4. CASE \E timeout \in Timeouts, limit \in Limits, now \in 0..clock,
              reason \in RecoveryReasons : Recover(timeout, limit, now, reason)
  <2>1. PICK timeout \in Timeouts, limit \in Limits, now \in 0..clock,
             reason \in RecoveryReasons :
             Recover(timeout, limit, now, reason)
    BY <1>4
  <2>2. PICK recovered \in Batches(StaleAt(now, timeout), limit) :
            RecoverStaleExecutions(recovered, now, reason)
    BY <2>1 DEF Recover
  <2> QED BY <2>2, RecoverySupersedes
<1>5. CASE UNCHANGED attempts
  BY <1>5
<1> QED
  BY <1>1, <1>2, <1>3, <1>4, <1>5
     DEF Next, Create, AttachContext, ResetExecutionError, RejectPending, Tick, vars

\* Every method keeps an approved or rejected entry as it is.
LEMMA TerminalStep ==
    ASSUME TypeOK, [Next]_vars, NEW a \in ApprovalIds,
           requests[a].status \in {"approved", "rejected"}
    PROVE  requests'[a] = requests[a]
<1> USE DEF TypeOK
<1>1. CASE \E timeout \in Timeouts, limit \in Limits, now \in 0..clock,
              reason \in RecoveryReasons : Recover(timeout, limit, now, reason)
  <2>1. PICK timeout \in Timeouts, limit \in Limits, now \in 0..clock,
             reason \in RecoveryReasons :
             Recover(timeout, limit, now, reason)
    BY <1>1
  <2>2. PICK recovered \in Batches(StaleAt(now, timeout), limit) :
            RecoverStaleExecutions(recovered, now, reason)
    BY <2>1 DEF Recover
  <2>3. a \notin recovered
    BY BatchIsExecuting
  <2> QED BY <2>2, <2>3 DEF RecoverStaleExecutions
<1>2. CASE ~\E timeout \in Timeouts, limit \in Limits, now \in 0..clock,
              reason \in RecoveryReasons : Recover(timeout, limit, now, reason)
  BY <1>2
     DEF Next, Create, AttachContext, BeginExecution, CanBegin, FailExecution,
         FinishExecutionSuccess, IsCurrentAttempt, ResetExecutionError, CanReset,
         RejectPending, CanReject, Tick, vars
<1> QED BY <1>1, <1>2

\* An attempt succeeds only together with its approval, which keeps naming it.
LEMMA SucceededStep ==
    ASSUME TypeOK, AttemptInv, SucceededIsNamed, [Next]_vars
    PROVE  SucceededIsNamed'
<1> USE DEF TypeOK, AttemptInv
<1> SUFFICES ASSUME NEW e \in AttemptIds, attempts'[e].outcome = "succeeded"
             PROVE  /\ attempts'[e].approval \in ApprovalIds
                    /\ requests'[attempts'[e].approval].status = "approved"
                    /\ requests'[attempts'[e].approval].attempt = e
  BY DEF SucceededIsNamed
<1>1. CASE attempts[e].outcome = "succeeded"
  BY <1>1, SettledStep, TerminalStep DEF SucceededIsNamed, Settled
<1>2. CASE attempts[e].outcome # "succeeded"
  <2>1. CASE \E a \in ApprovalIds, f \in AttemptIds : FinishExecutionSuccess(a, f)
    BY <1>2, <2>1, ApprovedRequestType
       DEF FinishExecutionSuccess, IsCurrentAttempt, Settle, Attempts, RunningIsCurrent
  <2>2. CASE \E timeout \in Timeouts, limit \in Limits, now \in 0..clock,
                reason \in RecoveryReasons : Recover(timeout, limit, now, reason)
    BY <1>2, <2>2, RecoverySupersedes DEF Recover
  <2>3. CASE \E a \in ApprovalIds, f \in AttemptIds : BeginExecution(a, f)
    BY <1>2, <2>3 DEF BeginExecution
  <2>4. CASE \E a \in ApprovalIds, f \in AttemptIds, error \in Errors,
                retryable \in Verdicts,
                finalStatus \in {"pending", "invalid_context"} :
                FailExecution(a, f, error, retryable, finalStatus)
    BY <1>2, <2>4 DEF FailExecution, Settle, Attempts
  <2>5. CASE UNCHANGED attempts
    BY <1>2, <2>5
  <2> QED
    BY <2>1, <2>2, <2>3, <2>4, <2>5
       DEF Next, Create, AttachContext, ResetExecutionError, RejectPending, Tick, vars
<1> QED BY <1>1, <1>2

\* The inductive invariant holds in every reachable state.
LEMMA AttemptCorrect == Spec => [](TypeOK /\ AttemptInv /\ SucceededIsNamed)
<1>1. Init => TypeOK /\ AttemptInv /\ SucceededIsNamed
  BY TypeInit, AttemptInit
<1>2. TypeOK /\ AttemptInv /\ SucceededIsNamed /\ [Next]_vars
          => (TypeOK /\ AttemptInv /\ SucceededIsNamed)'
  BY TypeStep, AttemptStep, SucceededStep
<1> QED BY <1>1, <1>2, PTL DEF Spec

\* An attempt runs exactly while its approval is executing under its id.
THEOREM RunningCorrect == Spec => []RunningIsCurrent
<1>1. AttemptInv => RunningIsCurrent
  BY DEF AttemptInv
<1> QED BY <1>1, AttemptCorrect, PTL

\* Approved means that the attempt the approval names succeeded, and no other did.
THEOREM ApprovedCorrect == Spec => []ApprovedByItsAttempt
<1>1. AttemptInv /\ SucceededIsNamed => ApprovedByItsAttempt
  BY DEF AttemptInv, ApprovedNamesAttempt, SucceededIsNamed, ApprovedByItsAttempt
<1> QED BY <1>1, AttemptCorrect, PTL

\* The stored context of an executing or approved approval is the executed one.
THEOREM ExecutedContextCorrect == Spec => []ExecutedContextIsStored
<1>1. AttemptInv => ExecutedContextIsStored
  BY DEF AttemptInv
<1> QED BY <1>1, AttemptCorrect, PTL

----------------------------------------------------------------------------
(* Verdicts.                                                               *)

\* Every method that sets a verdict sets the error with it, and every method
\* that closes an approval drops the verdict.
LEMMA VerdictStep ==
    ASSUME TypeOK, VerdictHasError, [Next]_vars
    PROVE  VerdictHasError'
<1> USE DEF TypeOK, VerdictHasError
<1>1. ASSUME NEW a \in ApprovalIds, NEW context \in Contexts \cup {None},
             Create(a, context)
      PROVE  VerdictHasError'
  BY <1>1 DEF Create, NewRequest
<1>2. ASSUME NEW a \in ApprovalIds, NEW context \in Contexts,
             AttachContext(a, context)
      PROVE  VerdictHasError'
  BY <1>2 DEF AttachContext, Requests
<1>3. ASSUME NEW a \in ApprovalIds, NEW e \in AttemptIds, BeginExecution(a, e)
      PROVE  VerdictHasError'
  BY <1>3, StartedRequestType DEF BeginExecution
<1>4. ASSUME NEW a \in ApprovalIds, NEW e \in AttemptIds, NEW error \in Errors,
             NEW retryable \in Verdicts,
             NEW finalStatus \in {"pending", "invalid_context"},
             FailExecution(a, e, error, retryable, finalStatus)
      PROVE  VerdictHasError'
  BY <1>4, SetsAssumption, FailedRequestType DEF FailExecution, Statuses, Never
<1>5. ASSUME NEW a \in ApprovalIds, NEW e \in AttemptIds,
             FinishExecutionSuccess(a, e)
      PROVE  VerdictHasError'
  BY <1>5, ApprovedRequestType DEF FinishExecutionSuccess
<1>6. ASSUME NEW a \in ApprovalIds, ResetExecutionError(a)
      PROVE  VerdictHasError'
  BY <1>6 DEF ResetExecutionError, CanReset, Requests
<1>7. ASSUME NEW a \in ApprovalIds, RejectPending(a)
      PROVE  VerdictHasError'
  BY <1>7, RejectedRequestType DEF RejectPending
<1>8. ASSUME NEW timeout \in Timeouts, NEW limit \in Limits, NEW now \in 0..clock,
             NEW reason \in RecoveryReasons, Recover(timeout, limit, now, reason)
      PROVE  VerdictHasError'
  <2>1. PICK recovered \in Batches(StaleAt(now, timeout), limit) :
            RecoverStaleExecutions(recovered, now, reason)
    BY <1>8 DEF Recover
  <2>2. now # Never /\ reason # None
    BY SetsAssumption DEF Never
  <2>3. \A a \in recovered : /\ requests'[a].status = "pending"
                             /\ requests'[a].error = reason
                             /\ requests'[a].lastFailedAt = now
    BY <2>1, RecoveryEffect
  <2>4. \A a \in ApprovalIds \ recovered : requests'[a] = requests[a]
    BY <2>1, RecoveryEffect
  <2> QED BY <2>2, <2>3, <2>4
<1>9. CASE Tick
  BY <1>9 DEF Tick
<1>10. CASE UNCHANGED vars
  BY <1>10 DEF vars
<1> QED
  BY <1>1, <1>2, <1>3, <1>4, <1>5, <1>6, <1>7, <1>8, <1>9, <1>10 DEF Next

\* A verdict on retrying always stands next to the failure it judges.
THEOREM VerdictCorrect == Spec => []VerdictHasError
<1>1. Init => VerdictHasError
  BY DEF Init, VerdictHasError, NewRequest
<1> QED BY <1>1, VerdictStep, TypeCorrect, PTL DEF Spec

----------------------------------------------------------------------------
(* What a step may never do.                                               *)

\* A settled attempt keeps its outcome, whatever is called with its id.
THEOREM SettledCorrect == Spec => AttemptsSettleOnce
<1>1. TypeOK /\ AttemptInv /\ [Next]_vars =>
          [\A e \in AttemptIds : attempts[e].outcome \in Settled =>
               attempts'[e] = attempts[e]]_vars
  BY SettledStep
<1> QED BY <1>1, AttemptCorrect, PTL DEF Spec, AttemptsSettleOnce

\* approved and rejected entries never change again.
THEOREM TerminalCorrect == Spec => TerminalIsFinal
<1>1. TypeOK /\ [Next]_vars =>
          [\A a \in ApprovalIds : requests[a].status \in {"approved", "rejected"} =>
               requests'[a] = requests[a]]_vars
  BY TerminalStep
<1> QED BY <1>1, TypeCorrect, PTL DEF Spec, TerminalIsFinal

\* A refused retry is only lifted by a reset of a resettable error, or ended by
\* a rejection.
THEOREM RefusalCorrect == Spec => RefusalNeedsReset
<1> DEFINE Lifted(a) ==
        \/ requests'[a].status = "rejected"
        \/ /\ requests'[a].status = "pending"
           /\ requests'[a].retryable = "yes"
           /\ requests'[a].error = requests[a].error
           /\ requests'[a].error \in ResettableErrors
<1>1. ASSUME TypeOK, VerdictHasError, Next, NEW a \in ApprovalIds,
             requests[a].retryable = "no", requests'[a].retryable # "no"
      PROVE  Lifted(a)
  <2> USE <1>1 DEF TypeOK
  <2>1. requests[a].status \in {"pending", "invalid_context"}
    BY DEF VerdictHasError
  <2>2. CASE \E b \in ApprovalIds : ResetExecutionError(b)
    BY <2>2 DEF ResetExecutionError, CanReset, Requests
  <2>3. CASE \E b \in ApprovalIds : RejectPending(b)
    BY <2>3, RejectedRequestType DEF RejectPending
  <2>4. CASE \E b \in ApprovalIds, context \in Contexts : AttachContext(b, context)
    BY <2>4 DEF AttachContext, Requests
  <2>5. CASE \E timeout \in Timeouts, limit \in Limits, now \in 0..clock,
                reason \in RecoveryReasons : Recover(timeout, limit, now, reason)
    <3>1. PICK timeout \in Timeouts, limit \in Limits, now \in 0..clock,
               reason \in RecoveryReasons :
               Recover(timeout, limit, now, reason)
      BY <2>5
    <3>2. PICK recovered \in Batches(StaleAt(now, timeout), limit) :
              RecoverStaleExecutions(recovered, now, reason)
      BY <3>1 DEF Recover
    <3> QED BY <2>1, <3>2, RecoveryEffect
  <2>6. CASE requests'[a] = requests[a]
    BY <2>6
  \* Every other action needs a status or a verdict that a does not have.
  <2> QED
    BY <2>1, <2>2, <2>3, <2>4, <2>5, <2>6
       DEF Next, Create, BeginExecution, CanBegin, FailExecution,
           FinishExecutionSuccess, IsCurrentAttempt, Tick
<1>2. TypeOK /\ VerdictHasError /\ [Next]_vars =>
          [\A a \in ApprovalIds :
               (requests[a].retryable = "no" /\ requests'[a].retryable # "no") =>
                   Lifted(a)]_vars
  BY <1>1
<1> QED BY <1>2, TypeCorrect, VerdictCorrect, PTL DEF Spec, RefusalNeedsReset

----------------------------------------------------------------------------
(* The queue implements ApprovalLifecycle.                                 *)

\* Every method is one step of ApprovalLifecycle or invisible to it.
LEMMA LifecycleStep ==
    ASSUME TypeOK, AttemptInv, [Next]_vars
    PROVE  [Lifecycle!Next]_(Lifecycle!vars)
<1> USE DEF TypeOK, Stage
<1>1. ASSUME NEW a \in ApprovalIds, NEW context \in Contexts \cup {None},
             Create(a, context)
      PROVE  Lifecycle!Open(a)
  BY <1>1 DEF Create, NewRequest, Lifecycle!Open
<1>2. ASSUME NEW a \in ApprovalIds, NEW context \in Contexts,
             AttachContext(a, context)
      PROVE  UNCHANGED Lifecycle!vars
  BY <1>2 DEF AttachContext, Requests, Lifecycle!vars
<1>3. ASSUME NEW a \in ApprovalIds, NEW e \in AttemptIds, BeginExecution(a, e)
      PROVE  Lifecycle!Start(a, e)
  <2>1. /\ requests'[a].status = "executing"
        /\ \A b \in ApprovalIds \ {a} : requests'[b] = requests[b]
    BY <1>3, StartedRequestType DEF BeginExecution
  <2>2. /\ attempts'[e].outcome = "running"
        /\ attempts'[e].approval = a
        /\ \A f \in AttemptIds \ {e} : attempts'[f] = attempts[f]
    BY <1>3 DEF BeginExecution
  <2>3. requests[a].status = "pending" /\ attempts[e].outcome = "unused"
    BY <1>3 DEF BeginExecution, CanBegin
  <2> QED BY <2>1, <2>2, <2>3 DEF Lifecycle!Start
<1>4. ASSUME NEW a \in ApprovalIds, NEW e \in AttemptIds, NEW error \in Errors,
             NEW retryable \in Verdicts,
             NEW finalStatus \in {"pending", "invalid_context"},
             FailExecution(a, e, error, retryable, finalStatus)
      PROVE  \E lost \in SUBSET ApprovalIds : Lifecycle!Lose(lost, "failed")
  <2>1. \A f \in AttemptIds :
            (attempts[f].outcome = "running" /\ attempts[f].approval = a) <=> f = e
    BY <1>4 DEF FailExecution, IsCurrentAttempt, AttemptInv, RunningIsCurrent
  <2>2. Lifecycle!Lose({a}, "failed")
    BY <1>4, <2>1, FailedRequestType
       DEF FailExecution, IsCurrentAttempt, Settle, Statuses, Attempts, Lifecycle!Lose
  <2> QED BY <2>2
<1>5. ASSUME NEW a \in ApprovalIds, NEW e \in AttemptIds,
             FinishExecutionSuccess(a, e)
      PROVE  Lifecycle!Succeed(a, e)
  <2>1. attempts[e].outcome = "running" /\ attempts[e].approval = a
    BY <1>5 DEF FinishExecutionSuccess, IsCurrentAttempt, AttemptInv, RunningIsCurrent
  <2>2. /\ requests[a].status = "executing"
        /\ requests'[a].status = "approved"
        /\ \A b \in ApprovalIds \ {a} : requests'[b] = requests[b]
    BY <1>5, ApprovedRequestType DEF FinishExecutionSuccess, IsCurrentAttempt
  <2>3. /\ attempts'[e].outcome = "succeeded"
        /\ attempts'[e].approval = a
        /\ \A f \in AttemptIds \ {e} : attempts'[f] = attempts[f]
    BY <1>5, <2>1 DEF FinishExecutionSuccess, Settle, Attempts
  <2> QED BY <2>1, <2>2, <2>3 DEF Lifecycle!Succeed
<1>6. ASSUME NEW a \in ApprovalIds, ResetExecutionError(a)
      PROVE  UNCHANGED Lifecycle!vars
  BY <1>6 DEF ResetExecutionError, Requests, Lifecycle!vars
<1>7. ASSUME NEW a \in ApprovalIds, RejectPending(a)
      PROVE  Lifecycle!Reject(a)
  BY <1>7, RejectedRequestType DEF RejectPending, CanReject, Lifecycle!Reject
<1>8. ASSUME NEW timeout \in Timeouts, NEW limit \in Limits, NEW now \in 0..clock,
             NEW reason \in RecoveryReasons, Recover(timeout, limit, now, reason)
      PROVE  \E lost \in SUBSET ApprovalIds : Lifecycle!Lose(lost, "superseded")
  <2>1. PICK recovered \in Batches(StaleAt(now, timeout), limit) :
            RecoverStaleExecutions(recovered, now, reason)
    BY <1>8 DEF Recover
  <2>2. /\ \A a \in recovered : /\ a \in ApprovalIds
                                /\ requests[a].status = "executing"
                                /\ requests'[a].status = "pending"
        /\ \A a \in ApprovalIds \ recovered : requests'[a] = requests[a]
    BY <2>1, RecoveryEffect
  <2>3. \A e \in AttemptIds :
            (attempts[e].outcome = "running" /\ attempts[e].approval \in recovered)
                <=> \E a \in recovered : requests[a].attempt = e
    BY <2>2 DEF AttemptInv, RunningIsCurrent
  <2>4. /\ \A e \in AttemptIds : attempts'[e].approval = attempts[e].approval
        /\ \A e \in AttemptIds : attempts'[e].outcome =
               IF \E a \in recovered : requests[a].attempt = e
                 THEN "superseded" ELSE attempts[e].outcome
    BY <2>1 DEF RecoverStaleExecutions, Attempts
  <2>5. Lifecycle!Lose(recovered, "superseded")
    BY <2>2, <2>3, <2>4 DEF Lifecycle!Lose
  <2> QED BY <2>2, <2>5
<1>9. CASE Tick
  BY <1>9 DEF Tick, Lifecycle!vars
<1>10. CASE UNCHANGED vars
  BY <1>10 DEF vars, Lifecycle!vars
<1> QED
  BY <1>1, <1>2, <1>3, <1>4, <1>5, <1>6, <1>7, <1>8, <1>9, <1>10
     DEF Next, Lifecycle!Next

\* The queue implements the abstract life of an approval, for any constants.
THEOREM QueueImplementsLifecycle == Spec => ImplementsLifecycle
<1>1. Init => Lifecycle!Init
  <2> HAVE Init
  <2>1. \A a \in ApprovalIds : Stage(a) = "absent"
    BY DEF Init, NewRequest, Stage
  <2>2. \A e \in AttemptIds : attempts[e].outcome = "unused" /\ attempts[e].approval = None
    BY DEF Init
  <2> QED BY <2>1, <2>2 DEF Lifecycle!Init
<1>2. TypeOK /\ AttemptInv /\ [Next]_vars => [Lifecycle!Next]_(Lifecycle!vars)
  BY LifecycleStep
<1> QED
  BY <1>1, <1>2, AttemptCorrect, PTL
     DEF Spec, ImplementsLifecycle, Lifecycle!Spec
============================================================================
