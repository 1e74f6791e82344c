----------------------- MODULE ApprovalGatewayProofs -----------------------
(***************************************************************************)
(* Theorems about ApprovalGateway and, in the second half, about           *)
(* ApprovalService, for any number of threads, approvals and attempts and  *)
(* any provider results, failing appends and restarts.                     *)
(***************************************************************************)
EXTENDS ApprovalService, ApprovalQueueProofs

\* The steps at which a thread still has to settle its attempt.
Executing == {"execute", "provider", "returned", "finish", "fail"}

\* What a thread's local variables hold by the time they are used: the
\* strengthening that makes GatewayTypeOK inductive.
JobReady(j) ==
    /\ j.at \notin {"idle", "recovered"} => j.approval \in ApprovalIds
    /\ j.at \in Executing => j.attempt \in AttemptIds
    /\ j.at = "fail" => /\ j.error \in Errors
                        /\ j.status \in {"pending", "invalid_context"}

JobsReady == \A h \in Handlers : JobReady(job[h])

GatewayInv == GatewayTypeOK /\ AttemptInv /\ JobsReady

----------------------------------------------------------------------------
(* Every step of a handler is a step of the queue.                         *)

\* Each handler step is a queue method called with the arguments the queue
\* expects, or leaves the queue alone.
LEMMA QueueStep ==
    ASSUME GatewayInv, [GatewayNext]_gatewayVars
    PROVE  [Next]_vars
<1> USE DEF GatewayInv, GatewayTypeOK
<1>1. ASSUME NEW h \in Handlers, NEW a \in ApprovalIds,
             \/ ChatRequest(h, a)
             \/ EvaluateRequest(h, a)
      PROVE  Next
  BY <1>1, GatewayAssumption DEF ChatRequest, EvaluateRequest, Next
<1>2. ASSUME NEW h \in Handlers, NEW a \in ApprovalIds,
             Reject(h, a)
      PROVE  Next
  BY <1>2 DEF Reject, Next
<1>3. ASSUME NEW h \in Handlers, NEW a \in ApprovalIds,
             ResetRequest(h, a)
      PROVE  UNCHANGED vars
  BY <1>3 DEF ResetRequest
<1>4. ASSUME NEW h \in Handlers, NEW a \in ApprovalIds, NEW e \in AttemptIds,
             Approve(h, a, e)
      PROVE  Next
  BY <1>4 DEF Approve, Next
<1>5. ASSUME NEW h \in Handlers, RecoverStale(h)
      PROVE  Next
  BY <1>5 DEF RecoverStale, Recover, Next
<1>6. ASSUME NEW h \in Handlers, AttachChatContext(h)
      PROVE  [Next]_vars
  <2>1. job[h].approval \in ApprovalIds
    BY <1>6 DEF AttachChatContext, JobsReady, JobReady
  <2>2. ChatContexts \subseteq Contexts
    BY GatewayAssumption DEF ChatContexts
  <2> QED BY <1>6, <2>1, <2>2 DEF AttachChatContext, Next
<1>7. ASSUME NEW h \in Handlers, Finish(h)
      PROVE  [Next]_vars
  <2>1. job[h].approval \in ApprovalIds /\ job[h].attempt \in AttemptIds
    BY <1>7 DEF Finish, JobsReady, JobReady, Executing
  <2> QED BY <1>7, <2>1 DEF Finish, Refused, Next
<1>8. ASSUME NEW h \in Handlers, Fail(h)
      PROVE  [Next]_vars
  <2>1. /\ job[h].approval \in ApprovalIds
        /\ job[h].attempt \in AttemptIds
        /\ job[h].error \in Errors
        /\ job[h].retryable \in Verdicts
        /\ job[h].status \in {"pending", "invalid_context"}
    BY <1>8 DEF Fail, JobsReady, JobReady, Executing, Jobs
  <2> QED BY <1>8, <2>1 DEF Fail, Refused, Next
<1>9. ASSUME NEW h \in Handlers, ResetError(h)
      PROVE  [Next]_vars
  <2>1. job[h].approval \in ApprovalIds
    BY <1>9 DEF ResetError, JobsReady, JobReady
  <2> QED BY <1>9, <2>1 DEF ResetError, Next
<1>10. ASSUME NEW h \in Handlers,
              \/ ExecuteStoredContext(h) \/ ProviderReturns(h) \/ CheckAttempt(h)
              \/ RecordFailure(h) \/ ReadConflict(h) \/ RecordConflict(h)
              \/ RecordResolution(h) \/ RecordExecution(h) \/ RecordRecovery(h)
              \/ RecordReset(h)
       PROVE  UNCHANGED vars
  BY <1>10 DEF ExecuteStoredContext, ProviderReturns, CheckAttempt, RecordFailure,
               ReadConflict, RecordConflict, RecordResolution, RecordExecution,
               RecordRecovery, RecordReset
<1>11. ASSUME NEW a \in ApprovalIds, NEW context \in DirectContexts,
              CreateDirectly(a, context)
       PROVE  Next
  BY <1>11, GatewayAssumption DEF CreateDirectly, Next
<1>12. CASE TimePasses
  BY <1>12 DEF TimePasses, Next
<1>13. CASE UNCHANGED gatewayVars
  BY <1>13 DEF gatewayVars
<1> QED
  BY <1>1, <1>2, <1>3, <1>4, <1>5, <1>6, <1>7, <1>8, <1>9, <1>10, <1>11, <1>12, <1>13
     DEF GatewayNext, Call, Continue

----------------------------------------------------------------------------
(* Local variables.                                                        *)

\* The record of a thread that is in no call.
LEMMA IdleJobType ==
    /\ IdleJob \in Jobs
    /\ IdleJob.at = "idle"
    /\ IdleJob.attempt = None
BY DEF IdleJob, NothingSeen, Jobs, Steps, Verdicts, Statuses

\* A copy of a stored request has the type of a copy.
LEMMA SeenType ==
    ASSUME TypeOK, NEW a \in ApprovalIds
    PROVE  Seen(a) \in [status : Statuses, attempt : AttemptIds \cup {None},
                       error : Errors \cup {None}, retryable : Verdicts]
BY DEF TypeOK, Seen, Requests

\* The initial state satisfies the inductive invariant.
LEMMA GatewayInvInit == GatewayInit => GatewayInv
<1> SUFFICES ASSUME GatewayInit PROVE GatewayInv
  OBVIOUS
<1>1. TypeOK /\ AttemptInv
  BY TypeInit, AttemptInit DEF GatewayInit
<1>2. job \in [Handlers -> Jobs] /\ JobsReady
  BY IdleJobType DEF GatewayInit, JobsReady, JobReady, Executing
<1>3. calls \in 0..MaxCalls
  BY GatewayAssumption DEF GatewayInit
<1> QED BY <1>1, <1>2, <1>3 DEF GatewayInit, GatewayInv, GatewayTypeOK

\* Replacing one thread's record by a good one keeps all of them good.
LEMMA JobUpdate ==
    ASSUME job \in [Handlers -> Jobs], JobsReady, NEW h \in Handlers,
           NEW j \in Jobs, JobReady(j), job' = [job EXCEPT ![h] = j]
    PROVE  (job \in [Handlers -> Jobs] /\ JobsReady)'
BY DEF JobsReady

\* Moving a thread to another step changes nothing else in its record.
LEMMA MovedJob ==
    ASSUME NEW j \in Jobs, NEW at \in Steps
    PROVE  /\ [j EXCEPT !.at = at] \in Jobs
           /\ [j EXCEPT !.at = at].at = at
           /\ [j EXCEPT !.at = at].approval = j.approval
           /\ [j EXCEPT !.at = at].attempt = j.attempt
           /\ [j EXCEPT !.at = at].context = j.context
           /\ [j EXCEPT !.at = at].error = j.error
           /\ [j EXCEPT !.at = at].status = j.status
BY DEF Jobs

\* A thread that moves on keeps its record good if it was good and the new step
\* does not need more than the old one had.
LEMMA MovesReady ==
    ASSUME job \in [Handlers -> Jobs], JobsReady, NEW h \in Handlers,
           NEW at \in Steps \ {"idle", "fail"}, GoTo(h, at),
           job[h].at \notin {"idle", "recovered"},
           at \in Executing => job[h].at \in Executing
    PROVE  (job \in [Handlers -> Jobs] /\ JobsReady)'
<1>1. job[h] \in Jobs /\ JobReady(job[h])
  BY DEF JobsReady
<1>2. job' = [job EXCEPT ![h] = [job[h] EXCEPT !.at = at]]
  BY DEF GoTo
<1>3. [job[h] EXCEPT !.at = at] \in Jobs /\ JobReady([job[h] EXCEPT !.at = at])
  BY <1>1, MovedJob DEF JobReady
<1> QED BY <1>2, <1>3, JobUpdate

\* A thread that raises an error with an attempt in hand keeps its record good.
LEMMA RaisesReady ==
    ASSUME job \in [Handlers -> Jobs], JobsReady, NEW h \in Handlers,
           NEW error \in Errors, NEW retryable \in Verdicts,
           NEW status \in {"pending", "invalid_context"},
           Raise(h, error, retryable, status), job[h].at \in Executing
    PROVE  (job \in [Handlers -> Jobs] /\ JobsReady)'
<1>1. job[h] \in Jobs /\ JobReady(job[h])
  BY DEF JobsReady
<1>2. PICK k : k = [job[h] EXCEPT !.at = "fail", !.error = error,
                                  !.retryable = retryable, !.status = status]
  OBVIOUS
<1>3. /\ k \in Jobs /\ k.at = "fail" /\ k.error = error /\ k.status = status
      /\ k.approval = job[h].approval /\ k.attempt = job[h].attempt
  BY <1>1, <1>2 DEF Jobs, Steps, Statuses
<1>4. JobReady(k)
  BY <1>1, <1>3 DEF JobReady, Executing
<1>5. job' = [job EXCEPT ![h] = k]
  BY <1>2 DEF Raise
<1> QED BY <1>3, <1>4, <1>5, JobUpdate

\* A thread that is done has nothing to keep.
LEMMA DoneReady ==
    ASSUME job \in [Handlers -> Jobs], JobsReady, NEW h \in Handlers, Done(h)
    PROVE  (job \in [Handlers -> Jobs] /\ JobsReady)'
BY IdleJobType, JobUpdate DEF Done, JobReady, Executing

\* A call that is accepted starts with a good record.
LEMMA CallReady ==
    ASSUME GatewayInv, NEW h \in Handlers, Call(h)
    PROVE  (job \in [Handlers -> Jobs] /\ JobsReady)'
<1> USE DEF GatewayInv, GatewayTypeOK, JobReady, Executing
<1>1. ASSUME NEW a \in ApprovalIds, ChatRequest(h, a)
      PROVE  (job \in [Handlers -> Jobs] /\ JobsReady)'
  <2>1. PICK k : k = [IdleJob EXCEPT !.at = "attach", !.approval = a]
    OBVIOUS
  <2>2. k \in Jobs /\ k.at = "attach" /\ k.approval = a
    BY <2>1 DEF IdleJob, NothingSeen, Jobs, Steps, Verdicts, Statuses
  <2>3. job' = [job EXCEPT ![h] = k]
    BY <1>1, <2>1 DEF ChatRequest
  <2> QED BY <2>2, <2>3, JobUpdate
<1>2. ASSUME NEW a \in ApprovalIds, EvaluateRequest(h, a)
      PROVE  (job \in [Handlers -> Jobs] /\ JobsReady)'
  BY <1>2 DEF EvaluateRequest, JobsReady
<1>3. ASSUME NEW a \in ApprovalIds, Reject(h, a)
      PROVE  (job \in [Handlers -> Jobs] /\ JobsReady)'
  <2>1. PICK k : k = [IdleJob EXCEPT !.at = "resolved", !.approval = a,
                                     !.status = "rejected"]
    OBVIOUS
  <2>2. k \in Jobs /\ k.at = "resolved" /\ k.approval = a
    BY <2>1 DEF IdleJob, NothingSeen, Jobs, Steps, Verdicts, Statuses
  <2>3. job' = [job EXCEPT ![h] = k]
    BY <1>3, <2>1 DEF Reject
  <2> QED BY <2>2, <2>3, JobUpdate
<1>4. ASSUME NEW a \in ApprovalIds, ResetRequest(h, a)
      PROVE  (job \in [Handlers -> Jobs] /\ JobsReady)'
  <2>1. PICK k : k = [IdleJob EXCEPT !.at = "reset", !.approval = a, !.seen = Seen(a)]
    OBVIOUS
  <2>2. k \in Jobs /\ k.at = "reset" /\ k.approval = a
    BY <2>1, SeenType DEF IdleJob, NothingSeen, Jobs, Steps, Verdicts, Statuses
  <2>3. job' = [job EXCEPT ![h] = k]
    BY <1>4, <2>1 DEF ResetRequest
  <2> QED BY <2>2, <2>3, JobUpdate
<1>5. ASSUME NEW a \in ApprovalIds, NEW e \in AttemptIds, Approve(h, a, e)
      PROVE  (job \in [Handlers -> Jobs] /\ JobsReady)'
  <2>1. PICK k : k = [IdleJob EXCEPT !.at = "execute", !.approval = a, !.attempt = e,
                                     !.context = requests[a].context]
    OBVIOUS
  <2>2. requests[a].context \in Contexts \cup {None}
    BY DEF TypeOK, Requests
  <2>3. k \in Jobs /\ k.at = "execute" /\ k.approval = a /\ k.attempt = e
    BY <2>1, <2>2 DEF IdleJob, NothingSeen, Jobs, Steps, Verdicts, Statuses
  <2>4. job' = [job EXCEPT ![h] = k]
    BY <1>5, <2>1 DEF Approve
  <2> QED BY <2>3, <2>4, JobUpdate
<1>6. CASE RecoverStale(h)
  <2>0. PICK timeout \in Timeouts, limit \in Limits, now \in 0..clock,
             reason \in RecoveryReasons :
        \E recovered \in Batches(StaleAt(now, timeout), limit) :
            job' = [job EXCEPT ![h] =
                [IdleJob EXCEPT !.at = "recovered", !.error = reason,
                    !.todo = {[approval |-> a, attempt |-> requests[a].attempt] :
                              a \in recovered}]]
    BY <1>6 DEF RecoverStale
  <2>1. PICK recovered \in Batches(StaleAt(now, timeout), limit) :
            job' = [job EXCEPT ![h] =
                [IdleJob EXCEPT !.at = "recovered", !.error = reason,
                    !.todo = {[approval |-> a, attempt |-> requests[a].attempt] :
                              a \in recovered}]]
    BY <2>0
  <2>2. PICK todo : todo = {[approval |-> a, attempt |-> requests[a].attempt] :
                            a \in recovered}
    OBVIOUS
  <2>3. \A a \in recovered : a \in ApprovalIds /\ requests[a].attempt \in AttemptIds
    BY BatchIsExecuting DEF AttemptInv, RunningIsCurrent
  <2>4. todo \in SUBSET [approval : ApprovalIds, attempt : AttemptIds]
    BY <2>2, <2>3
  <2>5. reason \in Errors
    BY SetsAssumption
  <2>6. PICK k : k = [IdleJob EXCEPT !.at = "recovered", !.error = reason, !.todo = todo]
    OBVIOUS
  <2>7. k \in Jobs /\ k.at = "recovered"
    BY <2>4, <2>5, <2>6 DEF IdleJob, NothingSeen, Jobs, Steps, Verdicts, Statuses
  <2>8. job' = [job EXCEPT ![h] = k]
    BY <2>1, <2>2, <2>6
  <2> QED BY <2>7, <2>8, JobUpdate
<1> QED BY <1>1, <1>2, <1>3, <1>4, <1>5, <1>6 DEF Call

\* A call that goes on keeps its record good.
LEMMA ContinueReady ==
    ASSUME GatewayInv, NEW h \in Handlers, Continue(h)
    PROVE  (job \in [Handlers -> Jobs] /\ JobsReady)'
<1> USE DEF GatewayInv, GatewayTypeOK
<1>0. job[h] \in Jobs /\ JobReady(job[h])
  BY DEF JobsReady
<1>1. CASE \/ AttachChatContext(h) \/ RecordFailure(h) \/ RecordConflict(h)
           \/ RecordExecution(h) \/ RecordReset(h)
  BY <1>1, DoneReady
     DEF AttachChatContext, RecordFailure, RecordConflict, RecordExecution, RecordReset
<1>2. CASE ExecuteStoredContext(h)
  <2>1. job[h].at = "execute"
    BY <1>2 DEF ExecuteStoredContext
  <2>2. CASE GoTo(h, "finish")
    BY <2>1, <2>2, MovesReady DEF Executing, Steps
  <2>3. CASE GoTo(h, "provider")
    BY <2>1, <2>3, MovesReady DEF Executing, Steps
  <2>4. CASE Raise(h, "stored_approval_context_error", "no", "invalid_context")
    BY <2>1, <2>4, RaisesReady, GatewayAssumption DEF Executing, Verdicts
  <2> QED BY <1>2, <2>2, <2>3, <2>4 DEF ExecuteStoredContext
<1>3. CASE ProviderReturns(h)
  <2>1. job[h].at = "provider"
    BY <1>3 DEF ProviderReturns
  <2>2. CASE GoTo(h, "returned") \/ GoTo(h, "conflict")
    BY <2>1, <2>2, MovesReady DEF Executing, Steps
  <2>3. CASE Done(h)
    BY <2>3, DoneReady
  <2>4. ASSUME NEW result \in ProviderErrorResults,
               Raise(h, ProviderError(result).error,
                        ProviderError(result).retryable, "pending")
        PROVE  (job \in [Handlers -> Jobs] /\ JobsReady)'
    <3>1. /\ ProviderError(result).error \in Errors
          /\ ProviderError(result).retryable \in Verdicts
      BY GatewayAssumption DEF ProviderErrorResults, HTTPErrors, ProviderError, Verdict,
         Verdicts
    <3> QED BY <2>1, <2>4, <3>1, RaisesReady DEF Executing
  <2> QED BY <1>3, <2>2, <2>3, <2>4 DEF ProviderReturns
<1>4. CASE CheckAttempt(h)
  <2>1. job[h].at = "returned"
    BY <1>4 DEF CheckAttempt
  <2>2. CASE GoTo(h, "conflict") \/ GoTo(h, "finish")
    BY <2>1, <2>2, MovesReady DEF Executing, Steps
  <2>3. CASE Raise(h, ProviderError("bad_shape").error,
                      ProviderError("bad_shape").retryable, "pending")
    <3>1. /\ ProviderError("bad_shape").error \in Errors
          /\ ProviderError("bad_shape").retryable \in Verdicts
      BY GatewayAssumption DEF ProviderError, HTTPErrors, Verdicts
    <3> QED BY <2>1, <2>3, <3>1, RaisesReady DEF Executing
  <2> QED BY <1>4, <2>2, <2>3 DEF CheckAttempt
<1>5. CASE Finish(h)
  <2>1. job[h].at = "finish"
    BY <1>5 DEF Finish
  <2>2. CASE GoTo(h, "conflict")
    BY <2>1, <2>2, MovesReady DEF Executing, Steps
  <2>3. CASE job' = [job EXCEPT ![h].at = "resolved", ![h].status = "approved"]
    <3>1. PICK k : k = [job[h] EXCEPT !.at = "resolved", !.status = "approved"]
      OBVIOUS
    <3>2. k \in Jobs /\ k.at = "resolved" /\ k.approval = job[h].approval
      BY <1>0, <3>1 DEF Jobs, Steps, Statuses
    <3>3. JobReady(k)
      BY <1>0, <2>1, <3>2 DEF JobReady, Executing
    <3>4. job' = [job EXCEPT ![h] = k]
      BY <2>3, <3>1
    <3> QED BY <3>2, <3>3, <3>4, JobUpdate
  <2> QED BY <1>5, <2>2, <2>3 DEF Finish, Refused
<1>6. CASE Fail(h)
  <2>1. job[h].at = "fail"
    BY <1>6 DEF Fail
  <2>2. GoTo(h, "failed") \/ GoTo(h, "conflict")
    BY <1>6 DEF Fail, Refused
  <2> QED BY <2>1, <2>2, MovesReady DEF Executing, Steps
<1>7. CASE ReadConflict(h)
  <2>1. job[h].at = "conflict" /\ job[h].approval \in ApprovalIds
    BY <1>0, <1>7 DEF ReadConflict, JobReady
  <2>2. PICK k : k = [job[h] EXCEPT !.at = "conflicted", !.seen = Seen(job[h].approval)]
    OBVIOUS
  <2>3. k \in Jobs /\ k.at = "conflicted" /\ k.approval = job[h].approval
    BY <1>0, <2>1, <2>2, SeenType DEF Jobs, Steps, Statuses
  <2>4. JobReady(k)
    BY <2>1, <2>3 DEF JobReady, Executing
  <2>5. job' = [job EXCEPT ![h] = k]
    BY <1>7, <2>2 DEF ReadConflict
  <2> QED BY <2>3, <2>4, <2>5, JobUpdate
<1>8. CASE RecordResolution(h)
  <2>1. job[h].at = "resolved"
    BY <1>8 DEF RecordResolution
  <2>2. GoTo(h, "executed") \/ Done(h)
    BY <1>8 DEF RecordResolution
  <2> QED BY <2>1, <2>2, MovesReady, DoneReady DEF Executing, Steps
<1>9. CASE RecordRecovery(h)
  <2>1. job[h].at = "recovered"
    BY <1>9 DEF RecordRecovery
  <2>2. CASE Done(h)
    BY <2>2, DoneReady
  <2>3. ASSUME NEW r, job' = [job EXCEPT ![h].todo = @ \ {r}]
        PROVE  (job \in [Handlers -> Jobs] /\ JobsReady)'
    <3>1. PICK k : k = [job[h] EXCEPT !.todo = @ \ {r}]
      OBVIOUS
    <3>2. k \in Jobs /\ k.at = "recovered"
      BY <1>0, <2>1, <3>1 DEF Jobs
    <3>3. JobReady(k)
      BY <3>2 DEF JobReady, Executing
    <3>4. job' = [job EXCEPT ![h] = k]
      BY <2>3, <3>1
    <3> QED BY <3>2, <3>3, <3>4, JobUpdate
  <2> QED BY <1>9, <2>2, <2>3 DEF RecordRecovery
<1>10. CASE ResetError(h)
  <2>1. job[h].at = "reset"
    BY <1>10 DEF ResetError
  <2>2. GoTo(h, "reset_done") \/ Done(h)
    BY <1>10 DEF ResetError
  <2> QED BY <2>1, <2>2, MovesReady, DoneReady DEF Executing, Steps
<1> QED
  BY <1>1, <1>2, <1>3, <1>4, <1>5, <1>6, <1>7, <1>8, <1>9, <1>10, Zenon DEF Continue

\* The rest of the type invariant: provider results, origins and the call count.
LEMMA HistoryType ==
    ASSUME GatewayInv, [GatewayNext]_gatewayVars
    PROVE  /\ provider' \in [AttemptIds -> {"none", "inflight"} \cup ProviderResults]
           /\ origin' \in [ApprovalIds -> {"none", "chat", "evaluate", "direct"}]
           /\ calls' \in 0..MaxCalls
<1>1. provider' \in [AttemptIds -> {"none", "inflight"} \cup ProviderResults]
  <2>1. CASE \E h \in Handlers : Call(h)
    BY <2>1 DEF Call, ChatRequest, EvaluateRequest, Reject, ResetRequest, Approve,
                RecoverStale, GatewayInv, GatewayTypeOK
  <2>2. CASE \E h \in Handlers : Continue(h)
    BY <2>2 DEF Continue, AttachChatContext, ExecuteStoredContext, ProviderReturns, CheckAttempt,
             Finish, Fail, RecordFailure, ReadConflict, RecordConflict,
             RecordResolution, RecordExecution, RecordRecovery, ResetError, RecordReset,
             GatewayInv, GatewayTypeOK
  <2>3. CASE \E a \in ApprovalIds, context \in DirectContexts : CreateDirectly(a, context)
    BY <2>3 DEF CreateDirectly, GatewayInv, GatewayTypeOK
  <2>4. CASE TimePasses \/ UNCHANGED gatewayVars
    BY <2>4 DEF TimePasses, gatewayVars, handlerVars, GatewayInv, GatewayTypeOK
  <2> QED BY <2>1, <2>2, <2>3, <2>4 DEF GatewayNext
<1>2. origin' \in [ApprovalIds -> {"none", "chat", "evaluate", "direct"}]
  <2>1. CASE \E h \in Handlers : Call(h)
    BY <2>1 DEF Call, ChatRequest, EvaluateRequest, Reject, ResetRequest, Approve,
                RecoverStale, GatewayInv, GatewayTypeOK
  <2>2. CASE \E h \in Handlers : Continue(h)
    BY <2>2 DEF Continue, AttachChatContext, ExecuteStoredContext, ProviderReturns, CheckAttempt,
             Finish, Fail, RecordFailure, ReadConflict, RecordConflict,
             RecordResolution, RecordExecution, RecordRecovery, ResetError, RecordReset,
             GatewayInv, GatewayTypeOK
  <2>3. CASE \E a \in ApprovalIds, context \in DirectContexts : CreateDirectly(a, context)
    BY <2>3 DEF CreateDirectly, GatewayInv, GatewayTypeOK
  <2>4. CASE TimePasses \/ UNCHANGED gatewayVars
    BY <2>4 DEF TimePasses, gatewayVars, handlerVars, GatewayInv, GatewayTypeOK
  <2> QED BY <2>1, <2>2, <2>3, <2>4 DEF GatewayNext
<1>3. \/ calls' = calls
      \/ calls < MaxCalls /\ calls' = calls + 1
  <2>1. CASE \E h \in Handlers : Call(h)
    BY <2>1 DEF Call, ChatRequest, EvaluateRequest, Reject, ResetRequest, Approve,
                RecoverStale, Accept
  <2>2. CASE \E h \in Handlers : Continue(h)
    BY <2>2 DEF Continue, AttachChatContext, ExecuteStoredContext, ProviderReturns, CheckAttempt,
             Finish, Fail, RecordFailure, ReadConflict, RecordConflict,
             RecordResolution, RecordExecution, RecordRecovery, ResetError, RecordReset
  <2>3. CASE \E a \in ApprovalIds, context \in DirectContexts : CreateDirectly(a, context)
    BY <2>3 DEF CreateDirectly
  <2>4. CASE TimePasses \/ UNCHANGED gatewayVars
    BY <2>4 DEF TimePasses, gatewayVars, handlerVars
  <2> QED BY <2>1, <2>2, <2>3, <2>4 DEF GatewayNext
<1>4. calls' \in 0..MaxCalls
  BY <1>3, GatewayAssumption DEF GatewayInv, GatewayTypeOK
<1> QED BY <1>1, <1>2, <1>4

\* Every step keeps the inductive invariant.
LEMMA GatewayInvStep ==
    ASSUME GatewayInv, [GatewayNext]_gatewayVars
    PROVE  GatewayInv'
<1>1. TypeOK' /\ AttemptInv'
  BY QueueStep, TypeStep, AttemptStep DEF GatewayInv, GatewayTypeOK
<1>2. (job \in [Handlers -> Jobs] /\ JobsReady)'
  <2>1. CASE \E h \in Handlers : Call(h)
    BY <2>1, CallReady
  <2>2. CASE \E h \in Handlers : Continue(h)
    BY <2>2, ContinueReady
  <2>3. CASE UNCHANGED job
    BY <2>3 DEF GatewayInv, GatewayTypeOK, JobsReady, JobReady
  <2> QED BY <2>1, <2>2, <2>3 DEF GatewayNext, CreateDirectly, TimePasses, gatewayVars,
                                  handlerVars
<1> QED BY <1>1, <1>2, HistoryType DEF GatewayInv, GatewayTypeOK

\* The inductive invariant holds in every reachable state.
LEMMA GatewayInvCorrect == GatewaySpec => []GatewayInv
BY GatewayInvInit, GatewayInvStep, PTL DEF GatewaySpec

\* The handlers and the queue keep their types.
THEOREM GatewayTypeCorrect == GatewaySpec => []GatewayTypeOK
<1>1. GatewayInv => GatewayTypeOK
  BY DEF GatewayInv
<1> QED BY <1>1, GatewayInvCorrect, PTL

\* Whatever the threads of the server do, the queue sees only calls a user of
\* the queue may make, so what is proved of ApprovalQueue holds in the gateway.
THEOREM GatewayImplementsQueue == GatewaySpec => ImplementsQueue
<1>1. GatewayInit => Init
  BY DEF GatewayInit
<1> QED BY <1>1, QueueStep, GatewayInvCorrect, PTL DEF GatewaySpec, ImplementsQueue, Spec

----------------------------------------------------------------------------
(* Every execution has its handler.                                        *)

\* An approval that is executing after a step was executing the same attempt
\* before it, or was begun by the step.
LEMMA StillExecuting ==
    ASSUME GatewayInv, GatewayNext, NEW a \in ApprovalIds,
           requests'[a].status = "executing"
    PROVE  \/ /\ requests[a].status = "executing"
              /\ requests'[a].attempt = requests[a].attempt
           \/ \E h \in Handlers, e \in AttemptIds : Approve(h, a, e)
<1> DEFINE Same == /\ requests[a].status = "executing"
                   /\ requests'[a].attempt = requests[a].attempt
<1> SUFFICES ASSUME ~ \E h \in Handlers, e \in AttemptIds : Approve(h, a, e)
             PROVE  Same
  OBVIOUS
<1> USE DEF GatewayInv, GatewayTypeOK, TypeOK
<1>1. ASSUME NEW b \in ApprovalIds, NEW context, Create(b, context)
      PROVE  Same
  BY <1>1 DEF Create, NewRequest
<1>2. ASSUME NEW h \in Handlers, NEW b \in ApprovalIds, NEW e \in AttemptIds,
             Approve(h, b, e)
      PROVE  Same
  BY <1>2 DEF Approve, BeginExecution
<1>3. ASSUME NEW b \in ApprovalIds, RejectPending(b)
      PROVE  Same
  BY <1>3 DEF RejectPending, RejectedRequest, Requests
<1>4. ASSUME NEW h \in Handlers, RecoverStale(h)
      PROVE  Same
  <2>1. PICK timeout \in Timeouts, limit \in Limits, now \in 0..clock,
             reason \in RecoveryReasons :
        \E recovered \in Batches(StaleAt(now, timeout), limit) :
            RecoverStaleExecutions(recovered, now, reason)
    BY <1>4 DEF RecoverStale
  <2>2. PICK recovered \in Batches(StaleAt(now, timeout), limit) :
            RecoverStaleExecutions(recovered, now, reason)
    BY <2>1
  <2>3. a \in recovered => requests'[a].status = "pending"
    BY <2>2, RecoveryEffect
  <2>4. a \notin recovered
    BY <2>3
  <2>5. requests'[a] = requests[a]
    BY <2>2, <2>4 DEF RecoverStaleExecutions
  <2> QED BY <2>5
<1>5. ASSUME NEW h \in Handlers,
             AttachChatContext(h) \/ Finish(h) \/ Fail(h) \/ ResetError(h)
      PROVE  Same
  <2> DEFINE b == job[h].approval
  <2>0. b \in ApprovalIds
    BY <1>5 DEF AttachChatContext, Finish, Fail, ResetError, JobsReady, JobReady
  <2>1. CASE AttachChatContext(h)
    BY <2>0, <2>1 DEF AttachChatContext, AttachContext, Requests, vars
  <2>2. CASE Finish(h)
    <3>1. ApprovedRequest(requests[b]).status = "approved"
      BY <2>0, ApprovedRequestType
    <3> QED BY <2>0, <2>2, <3>1 DEF Finish, Refused, FinishExecutionSuccess, vars
  <2>3. CASE Fail(h)
    <3>1. /\ job[h].error \in Errors /\ job[h].retryable \in Verdicts
          /\ job[h].status \in Statuses /\ job[h].status # "executing"
      BY <2>3 DEF Fail, Jobs, JobsReady, JobReady
    <3>2. FailedRequest(requests[b], job[h].status, job[h].error,
                        job[h].retryable, clock).status = job[h].status
      BY <2>0, <3>1, FailedRequestType
    <3> QED BY <2>0, <2>3, <3>1, <3>2 DEF Fail, Refused, FailExecution, vars
  <2>4. CASE ResetError(h)
    BY <2>0, <2>4 DEF ResetError, ResetExecutionError, Requests, vars
  <2> QED BY <1>5, <2>1, <2>2, <2>3, <2>4
<1>6. CASE UNCHANGED requests
  BY <1>6
<1> QED
  BY <1>1, <1>2, <1>3, <1>4, <1>5, <1>6
     DEF GatewayNext, Call, Continue, ChatRequest, EvaluateRequest, Reject, ResetRequest,
         CreateDirectly, TimePasses, Tick, ExecuteStoredContext, ProviderReturns,
         CheckAttempt, RecordFailure, ReadConflict, RecordConflict, RecordResolution,
         RecordExecution, RecordRecovery, RecordReset, vars

\* A thread that holds the attempt an approval is executing keeps hold of it
\* for as long as the approval executes it, if no provider call ends in an
\* exception that resolve_approval does not take for a provider failure.
LEMMA HolderKeeps ==
    ASSUME ProviderResults \subseteq ReturnedResults \cup ProviderErrorResults,
           GatewayInv, GatewayNext, NEW h \in Handlers,
           IsCurrentAttempt(job[h].approval, job[h].attempt),
           requests'[job[h].approval].status = "executing",
           job[h].at \in Executing
    PROVE  /\ job'[h].approval = job[h].approval
           /\ job'[h].attempt = job[h].attempt
           /\ job'[h].at \in Executing
<1> USE DEF GatewayInv, GatewayTypeOK, TypeOK
<1>0. job[h] \in Jobs /\ job[h].approval \in ApprovalIds /\ job[h].attempt \in AttemptIds
  BY DEF JobsReady, JobReady, Executing
<1>1. ASSUME NEW at \in Executing, GoTo(h, at)
      PROVE  /\ job'[h].approval = job[h].approval
             /\ job'[h].attempt = job[h].attempt
             /\ job'[h].at \in Executing
  BY <1>0, <1>1 DEF GoTo, Jobs
<1>2. ASSUME NEW error, NEW retryable, NEW status, Raise(h, error, retryable, status)
      PROVE  /\ job'[h].approval = job[h].approval
             /\ job'[h].attempt = job[h].attempt
             /\ job'[h].at \in Executing
  BY <1>0, <1>2 DEF Raise, Jobs, Executing
<1>3. CASE ExecuteStoredContext(h)
  BY <1>1, <1>2, <1>3 DEF ExecuteStoredContext, Executing
<1>4. CASE ProviderReturns(h)
  BY <1>1, <1>2, <1>4 DEF ProviderReturns, Executing, ReturnedResults,
     ProviderErrorResults, HTTPErrors
<1>5. CASE CheckAttempt(h)
  BY <1>1, <1>2, <1>5 DEF CheckAttempt, Executing
<1>6. ~Finish(h)
  <2>1. ApprovedRequest(requests[job[h].approval]).status = "approved"
    BY <1>0, ApprovedRequestType
  <2> QED BY <1>0, <2>1 DEF Finish, Refused, FinishExecutionSuccess
<1>7. ~Fail(h)
  <2> SUFFICES ASSUME Fail(h) PROVE FALSE
    OBVIOUS
  <2>1. /\ job[h].error \in Errors /\ job[h].retryable \in Verdicts
        /\ job[h].status \in Statuses /\ job[h].status # "executing"
    BY <1>0 DEF Fail, Jobs, JobsReady, JobReady
  <2>2. FailedRequest(requests[job[h].approval], job[h].status, job[h].error,
                      job[h].retryable, clock).status = job[h].status
    BY <1>0, <2>1, FailedRequestType
  <2> QED BY <1>0, <2>1, <2>2 DEF Fail, Refused, FailExecution
<1>8. ASSUME NEW g \in Handlers, g # h, Call(g) \/ Continue(g)
      PROVE  job'[h] = job[h]
  BY <1>8
     DEF Call, Continue, ChatRequest, EvaluateRequest, Reject, ResetRequest, Approve,
         RecoverStale, AttachChatContext, ExecuteStoredContext, ProviderReturns,
         CheckAttempt, Finish, Refused, Fail, RecordFailure, ReadConflict, RecordConflict,
         RecordResolution, RecordExecution, RecordRecovery, ResetError, RecordReset,
         GoTo, Done, Raise
<1>9. ~Call(h)
  BY DEF Call, ChatRequest, EvaluateRequest, Reject, ResetRequest, Approve, RecoverStale,
         Accept, Executing
<1>10. CASE Continue(h)
  BY <1>3, <1>4, <1>5, <1>6, <1>7, <1>10
     DEF Continue, AttachChatContext, RecordFailure, ReadConflict, RecordConflict,
         RecordResolution, RecordExecution, RecordRecovery, ResetError, RecordReset,
         Executing
<1>11. CASE UNCHANGED job
  BY <1>11
<1> QED
  BY <1>8, <1>9, <1>10, <1>11 DEF GatewayNext, CreateDirectly, TimePasses, handlerVars

\* No approval is left executing without a thread that will settle it, as long
\* as every provider call returns or raises one of the adapters' own errors.
THEOREM HandlersKeepExecutions ==
    ASSUME ProviderResults \subseteq ReturnedResults \cup ProviderErrorResults
    PROVE  GatewaySpec => []ExecutionHasHandler
<1>1. GatewayInit => ExecutionHasHandler
  BY DEF GatewayInit, Init, NewRequest, ExecutionHasHandler
<1>2. ASSUME GatewayInv, ExecutionHasHandler, [GatewayNext]_gatewayVars
      PROVE  ExecutionHasHandler'
  <2> SUFFICES ASSUME GatewayNext, NEW a \in ApprovalIds,
                      requests'[a].status = "executing"
               PROVE  \E h \in Handlers : /\ job'[h].approval = a
                                          /\ job'[h].attempt = requests'[a].attempt
                                          /\ job'[h].at \in Executing
    BY <1>2 DEF ExecutionHasHandler, Executing, gatewayVars, handlerVars, vars
  <2>1. CASE /\ requests[a].status = "executing"
             /\ requests'[a].attempt = requests[a].attempt
    <3>1. PICK h \in Handlers : /\ job[h].approval = a
                                /\ job[h].attempt = requests[a].attempt
                                /\ job[h].at \in Executing
      BY <1>2, <2>1 DEF ExecutionHasHandler, Executing
    <3>2. IsCurrentAttempt(job[h].approval, job[h].attempt)
      BY <2>1, <3>1 DEF IsCurrentAttempt
    <3> QED BY <1>2, <2>1, <3>1, <3>2, HolderKeeps
  <2>2. ASSUME NEW h \in Handlers, NEW e \in AttemptIds, Approve(h, a, e)
        PROVE  /\ job'[h].approval = a
               /\ job'[h].attempt = requests'[a].attempt
               /\ job'[h].at \in Executing
    <3>1. requests'[a].attempt = e
      BY <1>2, <2>2
         DEF GatewayInv, GatewayTypeOK, TypeOK, Approve, BeginExecution, StartedRequest
    <3>2. job'[h] = [IdleJob EXCEPT !.at = "execute", !.approval = a, !.attempt = e,
                                    !.context = requests[a].context]
      BY <1>2, <2>2 DEF GatewayInv, GatewayTypeOK, Approve
    <3> QED BY <3>1, <3>2 DEF IdleJob, NothingSeen, Executing
  <2> QED BY <1>2, <2>1, <2>2, StillExecuting
<1> QED BY <1>1, <1>2, GatewayInvCorrect, PTL DEF GatewaySpec

\* So a failed execution returns to pending (README.md, "If approved provider
\* execution fails") unless the call raises what no handler catches, or what they
\* take for an attempt conflict.
THEOREM FailedExecutionReturnsUnlessUncaught ==
    ASSUME ProviderResults \cap UnexpectedResults = {}
    PROVE  GatewaySpec => []FailedExecutionReturns
<1>1. ProviderResults \subseteq ReturnedResults \cup ProviderErrorResults
  BY GatewayAssumption DEF GatewayAssumption, Results
<1>2. ExecutionHasHandler => FailedExecutionReturns
  BY DEF ExecutionHasHandler, FailedExecutionReturns
<1> QED BY <1>1, <1>2, HandlersKeepExecutions, PTL

----------------------------------------------------------------------------
(* An approved chat completion was executed.                               *)

\* What a thread's record says about the attempt it holds.
OwnedJob(j) ==
    /\ j.attempt # None => attempts[j.attempt].outcome # "unused"
    /\ j.at \in Executing => /\ attempts[j.attempt].outcome # "succeeded"
                            /\ attempts[j.attempt].context = j.context
    /\ (j.at = "finish" /\ j.context = "chat_completion") => provider[j.attempt] = "ok"

\* The strengthening of ApprovedWasExecuted: no two threads hold one attempt,
\* so a thread's provider result cannot be overwritten before it is used.
OwnerInv ==
    /\ \A h \in Handlers : OwnedJob(job[h])
    /\ \A g, h \in Handlers :
           job[g].attempt = job[h].attempt /\ job[h].attempt # None => g = h
    /\ \A e \in AttemptIds :
           attempts[e].outcome = "succeeded" /\ attempts[e].context = "chat_completion"
               => provider[e] = "ok"

\* No attempt is begun or succeeds in the step.
NoSuccess ==
    \A e \in AttemptIds :
        /\ attempts'[e].context = attempts[e].context
        /\ attempts'[e].outcome = "unused" => attempts[e].outcome = "unused"
        /\ attempts'[e].outcome = "succeeded" => attempts[e].outcome = "succeeded"

\* The step touches no provider call but the thread's own.
OwnCallOnly(h) ==
    \/ provider' = provider
    \/ /\ job[h].at \in Executing
       /\ \A e \in AttemptIds \ {job[h].attempt} : provider'[e] = provider[e]

\* A step of one thread that gives it no new attempt, lets no attempt succeed
\* and touches no provider result but that of the attempt it is executing.
LEMMA OwnerFrame ==
    ASSUME GatewayInv, OwnerInv, NEW h \in Handlers, NEW j \in Jobs,
           job' = [job EXCEPT ![h] = j],
           j.attempt \in {None, job[h].attempt},
           j.at \in Executing => /\ job[h].at \in Executing
                                /\ j.attempt = job[h].attempt
                                /\ j.context = job[h].context,
           (j.at = "finish" /\ j.context = "chat_completion")
               => provider'[j.attempt] = "ok",
           NoSuccess, OwnCallOnly(h)
    PROVE  OwnerInv'
<1> USE DEF GatewayInv, GatewayTypeOK, NoSuccess, OwnCallOnly
<1>1. /\ job'[h] = j
      /\ \A g \in Handlers \ {h} : job'[g] = job[g]
      /\ \A g \in Handlers : job[g] \in Jobs /\ job[g].attempt \in AttemptIds \cup {None}
      /\ \A g \in Handlers : job[g].at \in Executing => job[g].attempt \in AttemptIds
      /\ None \notin AttemptIds
  BY SetsAssumption DEF Jobs, JobsReady, JobReady
<1>2. OwnedJob(j)'
  BY <1>1 DEF OwnerInv, OwnedJob, Executing
<1>3. ASSUME NEW g \in Handlers \ {h} PROVE OwnedJob(job[g])'
  <2>1. OwnedJob(job[g])
    BY DEF OwnerInv
  <2>2. job[g].attempt \in AttemptIds /\ job[h].at \in Executing
            => job[g].attempt # job[h].attempt
    BY <1>1 DEF OwnerInv
  <2>3. job[g].at = "finish" => job[g].attempt \in AttemptIds
    BY <1>1 DEF Executing
  <2> QED BY <1>1, <2>1, <2>2, <2>3 DEF OwnedJob
<1>4. (\A g, k \in Handlers :
          job[g].attempt = job[k].attempt /\ job[k].attempt # None => g = k)'
  BY <1>1 DEF OwnerInv
<1>5. ASSUME NEW e \in AttemptIds, attempts'[e].outcome = "succeeded",
             attempts'[e].context = "chat_completion"
      PROVE  provider'[e] = "ok"
  <2>1. provider[e] = "ok"
    BY <1>5 DEF OwnerInv
  <2>2. job[h].at \in Executing => e # job[h].attempt
    BY <1>5 DEF OwnerInv, OwnedJob
  <2> QED BY <2>1, <2>2
<1> QED BY <1>1, <1>2, <1>3, <1>4, <1>5 DEF OwnerInv

\* A call that is accepted keeps OwnerInv: only Approve takes an attempt, and
\* takes one that nobody has used.
LEMMA OwnerCall ==
    ASSUME GatewayInv, OwnerInv, NEW h \in Handlers, Call(h)
    PROVE  OwnerInv'
<1> USE DEF GatewayInv, GatewayTypeOK, NoSuccess, OwnCallOnly
<1>0. ASSUME NEW j \in Jobs, job' = [job EXCEPT ![h] = j], j.attempt = None,
             j.at \notin Executing, attempts' = attempts, provider' = provider
      PROVE  OwnerInv'
  <2>1. j.at # "finish"
    BY <1>0 DEF Executing
  <2> QED BY <1>0, <2>1, OwnerFrame
<1>1. ASSUME NEW a \in ApprovalIds, ChatRequest(h, a)
      PROVE  OwnerInv'
  <2>1. PICK k : k = [IdleJob EXCEPT !.at = "attach", !.approval = a]
    OBVIOUS
  <2>2. k \in Jobs /\ k.at \notin Executing /\ k.attempt = None
    BY <2>1 DEF IdleJob, NothingSeen, Jobs, Steps, Verdicts, Statuses, Executing
  <2> QED BY <1>0, <1>1, <2>1, <2>2 DEF ChatRequest, Create
<1>2. ASSUME NEW a \in ApprovalIds, EvaluateRequest(h, a)
      PROVE  OwnerInv'
  BY <1>2 DEF EvaluateRequest, Create, OwnerInv, OwnedJob
<1>3. ASSUME NEW a \in ApprovalIds, Reject(h, a)
      PROVE  OwnerInv'
  <2>1. PICK k : k = [IdleJob EXCEPT !.at = "resolved", !.approval = a,
                                     !.status = "rejected"]
    OBVIOUS
  <2>2. k \in Jobs /\ k.at \notin Executing /\ k.attempt = None
    BY <2>1 DEF IdleJob, NothingSeen, Jobs, Steps, Verdicts, Statuses, Executing
  <2> QED BY <1>0, <1>3, <2>1, <2>2 DEF Reject, RejectPending
<1>4. ASSUME NEW a \in ApprovalIds, ResetRequest(h, a)
      PROVE  OwnerInv'
  <2>1. PICK k : k = [IdleJob EXCEPT !.at = "reset", !.approval = a, !.seen = Seen(a)]
    OBVIOUS
  <2>2. k \in Jobs /\ k.at \notin Executing /\ k.attempt = None
    BY <2>1, SeenType DEF IdleJob, NothingSeen, Jobs, Steps, Verdicts, Statuses, Executing
  <2> QED BY <1>0, <1>4, <2>1, <2>2 DEF ResetRequest, vars
<1>5. ASSUME NEW a \in ApprovalIds, NEW e \in AttemptIds, Approve(h, a, e)
      PROVE  OwnerInv'
  <2>1. PICK k : k = [IdleJob EXCEPT !.at = "execute", !.approval = a, !.attempt = e,
                                     !.context = requests[a].context]
    OBVIOUS
  <2>2. k.at = "execute" /\ k.attempt = e /\ k.context = requests[a].context
    BY <2>1 DEF IdleJob, NothingSeen
  <2>3. job' = [job EXCEPT ![h] = k] /\ provider' = provider
    BY <1>5, <2>1 DEF Approve
  <2>4. /\ attempts[e].outcome = "unused"
        /\ attempts'[e].outcome = "running" /\ attempts'[e].context = requests[a].context
        /\ \A f \in AttemptIds \ {e} : attempts'[f] = attempts[f]
    BY <1>5 DEF Approve, BeginExecution, TypeOK
  <2>5. ASSUME NEW g \in Handlers \ {h}
        PROVE  /\ job[g].attempt # e
               /\ job[g].attempt \in AttemptIds \cup {None}
               /\ job'[g] = job[g]
               /\ job[g].at \in Executing => job[g].attempt \in AttemptIds
    BY <2>3, <2>4, SetsAssumption DEF OwnerInv, OwnedJob, Jobs, JobsReady, JobReady
  <2>6. OwnedJob(job[h])'
    BY <2>2, <2>3, <2>4 DEF OwnedJob
  <2>7. ASSUME NEW g \in Handlers \ {h} PROVE OwnedJob(job[g])'
    <3>1. OwnedJob(job[g])
      BY DEF OwnerInv
    <3> QED BY <2>3, <2>4, <2>5, <3>1 DEF OwnedJob
  <2>8. (\A g, k2 \in Handlers :
            job[g].attempt = job[k2].attempt /\ job[k2].attempt # None => g = k2)'
    BY <2>2, <2>3, <2>5 DEF OwnerInv
  <2>9. (\A f \in AttemptIds :
            attempts[f].outcome = "succeeded" /\ attempts[f].context = "chat_completion"
                => provider[f] = "ok")'
    BY <2>3, <2>4 DEF OwnerInv
  <2> QED BY <2>6, <2>7, <2>8, <2>9 DEF OwnerInv
<1>6. CASE RecoverStale(h)
  <2>0. PICK timeout \in Timeouts, limit \in Limits, now \in 0..clock,
             reason \in RecoveryReasons :
        \E recovered \in Batches(StaleAt(now, timeout), limit) :
            /\ RecoverStaleExecutions(recovered, now, reason)
            /\ job' = [job EXCEPT ![h] =
                   [IdleJob EXCEPT !.at = "recovered", !.error = reason,
                       !.todo = {[approval |-> a, attempt |-> requests[a].attempt] :
                                 a \in recovered}]]
    BY <1>6 DEF RecoverStale
  <2>1. PICK recovered :
            /\ RecoverStaleExecutions(recovered, now, reason)
            /\ job' = [job EXCEPT ![h] =
                   [IdleJob EXCEPT !.at = "recovered", !.error = reason,
                       !.todo = {[approval |-> a, attempt |-> requests[a].attempt] :
                                 a \in recovered}]]
    BY <2>0
  <2>2. PICK k : k = [IdleJob EXCEPT !.at = "recovered", !.error = reason,
                       !.todo = {[approval |-> a, attempt |-> requests[a].attempt] :
                                 a \in recovered}]
    OBVIOUS
  <2>3. k.at = "recovered" /\ k.attempt = None
    BY <2>2 DEF IdleJob, NothingSeen
  <2>4. job' = [job EXCEPT ![h] = k]
    BY <2>1, <2>2
  <2>5. k \in Jobs
    BY <2>4, CallReady DEF JobsReady
  <2>6. \A e \in AttemptIds :
            /\ attempts'[e].context = attempts[e].context
            /\ attempts'[e].outcome \in {attempts[e].outcome, "superseded"}
    BY <2>1 DEF RecoverStaleExecutions, TypeOK, Attempts
  <2>7. provider' = provider
    BY <1>6 DEF RecoverStale
  <2> QED BY <2>3, <2>4, <2>5, <2>6, <2>7, OwnerFrame DEF Executing
<1> QED BY <1>1, <1>2, <1>3, <1>4, <1>5, <1>6 DEF Call

\* OwnerFrame for a thread that only moves to another step, ...
LEMMA OwnerMove ==
    ASSUME GatewayInv, OwnerInv, NEW h \in Handlers, NEW at \in Steps, GoTo(h, at),
           at \in Executing => job[h].at \in Executing,
           (at = "finish" /\ job[h].context = "chat_completion")
               => provider'[job[h].attempt] = "ok",
           NoSuccess, OwnCallOnly(h)
    PROVE  OwnerInv'
<1>1. job[h] \in Jobs
  BY DEF GatewayInv, GatewayTypeOK
<1>2. PICK k : k = [job[h] EXCEPT !.at = at]
  OBVIOUS
<1>3. k \in Jobs /\ k.at = at /\ k.attempt = job[h].attempt /\ k.context = job[h].context
  BY <1>1, <1>2 DEF Jobs
<1>4. job' = [job EXCEPT ![h] = k]
  BY <1>2 DEF GoTo
<1> QED BY <1>3, <1>4, OwnerFrame

\* ... that raises an error, ...
LEMMA OwnerRaise ==
    ASSUME GatewayInv, OwnerInv, NEW h \in Handlers,
           NEW error, NEW retryable, NEW status, Raise(h, error, retryable, status),
           (job \in [Handlers -> Jobs])', job[h].at \in Executing,
           NoSuccess, OwnCallOnly(h)
    PROVE  OwnerInv'
<1>1. job[h] \in Jobs
  BY DEF GatewayInv, GatewayTypeOK
<1>2. PICK k : k = [job[h] EXCEPT !.at = "fail", !.error = error,
                                  !.retryable = retryable, !.status = status]
  OBVIOUS
<1>3. k.at = "fail" /\ k.attempt = job[h].attempt /\ k.context = job[h].context
  BY <1>1, <1>2 DEF Jobs
<1>4. job' = [job EXCEPT ![h] = k]
  BY <1>2 DEF Raise
<1>5. k \in Jobs
  BY <1>4 DEF GatewayInv, GatewayTypeOK
<1> QED BY <1>3, <1>4, <1>5, OwnerFrame

\* ... or that is done.
LEMMA OwnerDone ==
    ASSUME GatewayInv, OwnerInv, NEW h \in Handlers, Done(h), NoSuccess, OwnCallOnly(h)
    PROVE  OwnerInv'
BY IdleJobType, OwnerFrame DEF Done, Executing

\* A call that goes on keeps OwnerInv.
LEMMA OwnerContinue ==
    ASSUME GatewayInv, OwnerInv, NEW h \in Handlers, Continue(h)
    PROVE  OwnerInv'
<1> USE DEF GatewayInv, GatewayTypeOK
<1>0. /\ job[h] \in Jobs /\ JobReady(job[h]) /\ OwnedJob(job[h])
      /\ (job \in [Handlers -> Jobs])'
  BY ContinueReady DEF JobsReady, OwnerInv
<1>q. attempts' = attempts => NoSuccess
  BY DEF NoSuccess
<1>p. provider' = provider => OwnCallOnly(h)
  BY DEF OwnCallOnly
<1>1. CASE \/ AttachChatContext(h) \/ RecordFailure(h) \/ RecordConflict(h)
           \/ RecordExecution(h) \/ RecordReset(h)
  BY <1>1, <1>q, <1>p, OwnerDone
     DEF AttachChatContext, AttachContext, RecordFailure, RecordConflict, RecordExecution,
         RecordReset, vars
<1>2. CASE ExecuteStoredContext(h)
  <2>1. job[h].at = "execute" /\ NoSuccess
    BY <1>2, <1>q DEF ExecuteStoredContext, vars
  <2>2. OwnCallOnly(h)
    BY <1>2, <2>1 DEF ExecuteStoredContext, OwnCallOnly, Executing
  <2>3. CASE GoTo(h, "finish") /\ job[h].context # "chat_completion"
    BY <2>1, <2>2, <2>3, OwnerMove DEF Executing, Steps
  <2>4. CASE GoTo(h, "provider")
    BY <2>1, <2>2, <2>4, OwnerMove DEF Executing, Steps
  <2>5. CASE Raise(h, "stored_approval_context_error", "no", "invalid_context")
    BY <1>0, <2>1, <2>2, <2>5, OwnerRaise DEF Executing
  <2> QED BY <1>2, <2>3, <2>4, <2>5 DEF ExecuteStoredContext
<1>3. CASE ProviderReturns(h)
  <2>1. job[h].at = "provider" /\ NoSuccess
    BY <1>3, <1>q DEF ProviderReturns, vars
  <2>2. OwnCallOnly(h)
    BY <1>3, <2>1 DEF ProviderReturns, OwnCallOnly, Executing
  <2>3. CASE GoTo(h, "returned") \/ GoTo(h, "conflict")
    BY <2>1, <2>2, <2>3, OwnerMove DEF Executing, Steps
  <2>4. CASE Done(h)
    BY <2>1, <2>2, <2>4, OwnerDone
  <2>5. ASSUME NEW result, Raise(h, ProviderError(result).error,
                                 ProviderError(result).retryable, "pending")
        PROVE  OwnerInv'
    BY <1>0, <2>1, <2>2, <2>5, OwnerRaise DEF Executing
  <2> QED BY <1>3, <2>3, <2>4, <2>5 DEF ProviderReturns
<1>4. CASE CheckAttempt(h)
  <2>1. job[h].at = "returned" /\ NoSuccess /\ OwnCallOnly(h) /\ provider' = provider
    BY <1>4, <1>q, <1>p DEF CheckAttempt, vars
  <2>2. CASE GoTo(h, "conflict")
    BY <2>1, <2>2, OwnerMove DEF Executing, Steps
  <2>3. CASE GoTo(h, "finish") /\ provider[job[h].attempt] = "ok"
    BY <2>1, <2>3, OwnerMove DEF Executing, Steps
  <2>4. CASE Raise(h, ProviderError("bad_shape").error,
                      ProviderError("bad_shape").retryable, "pending")
    BY <1>0, <2>1, <2>4, OwnerRaise DEF Executing
  <2> QED BY <1>4, <2>2, <2>3, <2>4 DEF CheckAttempt
<1>5. CASE Finish(h)
  <2>1. job[h].at = "finish" /\ provider' = provider /\ OwnCallOnly(h)
    BY <1>5, <1>p DEF Finish
  <2>2. CASE Refused(h)
    BY <1>q, <2>1, <2>2, OwnerMove DEF Refused, Executing, Steps, vars
  <2>3. CASE /\ FinishExecutionSuccess(job[h].approval, job[h].attempt)
             /\ job' = [job EXCEPT ![h].at = "resolved", ![h].status = "approved"]
    <3> DEFINE e == job[h].attempt
    <3>1. e \in AttemptIds /\ None \notin AttemptIds
      BY <1>0, <2>1, SetsAssumption DEF JobReady, Executing
    <3>2. /\ attempts'[e].outcome = "succeeded" /\ attempts'[e].context = attempts[e].context
          /\ \A f \in AttemptIds \ {e} : attempts'[f] = attempts[f]
      BY <2>3, <3>1 DEF FinishExecutionSuccess, Settle, TypeOK, Attempts
    <3>3. /\ attempts[e].context = job[h].context
          /\ job[h].context = "chat_completion" => provider[e] = "ok"
      BY <1>0, <2>1 DEF OwnedJob, Executing
    <3>4. /\ job'[h].at = "resolved" /\ job'[h].attempt = e
          /\ \A g \in Handlers \ {h} : job'[g] = job[g]
      BY <1>0, <2>3 DEF Jobs
    <3>5. ASSUME NEW g \in Handlers \ {h}
          PROVE  /\ job[g].attempt # e
                 /\ job[g].attempt \in AttemptIds \cup {None}
                 /\ job[g].at \in Executing => job[g].attempt \in AttemptIds
      BY <3>1 DEF OwnerInv, Jobs, JobsReady, JobReady
    <3>6. OwnedJob(job[h])'
      BY <3>2, <3>4 DEF OwnedJob, Executing
    <3>7. ASSUME NEW g \in Handlers \ {h} PROVE OwnedJob(job[g])'
      <4>1. OwnedJob(job[g])
        BY DEF OwnerInv
      <4> QED BY <2>1, <3>2, <3>4, <3>5, <4>1 DEF OwnedJob
    <3>8. (\A g, k \in Handlers :
              job[g].attempt = job[k].attempt /\ job[k].attempt # None => g = k)'
      BY <3>4, <3>5 DEF OwnerInv
    <3>9. (\A f \in AttemptIds :
              attempts[f].outcome = "succeeded" /\ attempts[f].context = "chat_completion"
                  => provider[f] = "ok")'
      BY <2>1, <3>2, <3>3 DEF OwnerInv
    <3> QED BY <3>6, <3>7, <3>8, <3>9 DEF OwnerInv
  <2> QED BY <1>5, <2>2, <2>3 DEF Finish
<1>6. CASE Fail(h)
  <2>1. job[h].at = "fail" /\ OwnCallOnly(h)
    BY <1>6, <1>p DEF Fail
  <2>2. GoTo(h, "failed") \/ GoTo(h, "conflict")
    BY <1>6 DEF Fail, Refused
  <2>3. NoSuccess
    <3>1. CASE UNCHANGED vars
      BY <1>q, <3>1 DEF vars
    <3>2. CASE Settle(job[h].attempt, "failed")
      BY <3>2 DEF Settle, NoSuccess, TypeOK, Attempts
    <3> QED BY <1>6, <3>1, <3>2 DEF Fail, Refused, FailExecution
  <2> QED BY <2>1, <2>2, <2>3, OwnerMove DEF Executing, Steps
<1>7. CASE ReadConflict(h)
  <2>1. PICK k : k = [job[h] EXCEPT !.at = "conflicted", !.seen = Seen(job[h].approval)]
    OBVIOUS
  <2>2. k.at = "conflicted" /\ k.attempt = job[h].attempt
    BY <1>0, <2>1 DEF Jobs
  <2>3. job' = [job EXCEPT ![h] = k] /\ NoSuccess /\ OwnCallOnly(h)
    BY <1>7, <2>1, <1>q, <1>p DEF ReadConflict, vars
  <2>4. k \in Jobs
    BY <1>0, <2>3
  <2> QED BY <2>2, <2>3, <2>4, OwnerFrame DEF Executing
<1>8. CASE RecordResolution(h)
  <2>1. (GoTo(h, "executed") \/ Done(h)) /\ NoSuccess /\ OwnCallOnly(h)
    BY <1>8, <1>q, <1>p DEF RecordResolution, vars
  <2> QED BY <2>1, OwnerMove, OwnerDone DEF Executing, Steps
<1>9. CASE RecordRecovery(h)
  <2>1. job[h].at = "recovered" /\ NoSuccess /\ OwnCallOnly(h)
    BY <1>9, <1>q, <1>p DEF RecordRecovery, vars
  <2>2. CASE Done(h)
    BY <2>1, <2>2, OwnerDone
  <2>3. ASSUME NEW r, job' = [job EXCEPT ![h].todo = @ \ {r}]
        PROVE  OwnerInv'
    <3>1. PICK k : k = [job[h] EXCEPT !.todo = @ \ {r}]
      OBVIOUS
    <3>2. k.at = "recovered" /\ k.attempt = job[h].attempt
      BY <1>0, <2>1, <3>1 DEF Jobs
    <3>3. job' = [job EXCEPT ![h] = k]
      BY <2>3, <3>1
    <3>4. k \in Jobs
      BY <1>0, <3>3
    <3> QED BY <2>1, <3>2, <3>3, <3>4, OwnerFrame DEF Executing
  <2> QED BY <1>9, <2>2, <2>3 DEF RecordRecovery
<1>10. CASE ResetError(h)
  <2>1. (GoTo(h, "reset_done") \/ Done(h)) /\ NoSuccess /\ OwnCallOnly(h)
    BY <1>10, <1>q, <1>p DEF ResetError, ResetExecutionError, vars
  <2> QED BY <2>1, OwnerMove, OwnerDone DEF Executing, Steps
<1> QED
  BY <1>1, <1>2, <1>3, <1>4, <1>5, <1>6, <1>7, <1>8, <1>9, <1>10, Zenon DEF Continue

\* An approval of a chat completion rests on a valid response of the provider to
\* the attempt it names, however the threads, recoveries and retries interleave.
THEOREM ApprovedWasExecutedCorrect == GatewaySpec => []ApprovedWasExecuted
<1>1. GatewayInit => OwnerInv
  BY IdleJobType DEF GatewayInit, Init, OwnerInv, OwnedJob, IdleJob, Executing
<1>2. ASSUME GatewayInv, OwnerInv, [GatewayNext]_gatewayVars
      PROVE  OwnerInv'
  <2>1. CASE \E h \in Handlers : Call(h)
    BY <1>2, <2>1, OwnerCall
  <2>2. CASE \E h \in Handlers : Continue(h)
    BY <1>2, <2>2, OwnerContinue
  <2>3. CASE UNCHANGED <<attempts, job, provider>>
    BY <1>2, <2>3 DEF OwnerInv, OwnedJob
  <2> QED BY <1>2, <2>1, <2>2, <2>3
          DEF GatewayNext, CreateDirectly, Create, TimePasses, Tick, gatewayVars,
              handlerVars, vars
<1>3. GatewayInv /\ OwnerInv => ApprovedWasExecuted
  BY DEF GatewayInv, AttemptInv, ApprovedNamesAttempt, OwnerInv, ApprovedWasExecuted
<1> QED BY <1>1, <1>2, <1>3, GatewayInvCorrect, PTL DEF GatewaySpec

----------------------------------------------------------------------------
(* What the steps of the handlers do, in terms of the invariants below.    *)

\* The fields of a stored approval that decide what may be done with it.
SameVerdict(a) ==
    /\ requests'[a].status = requests[a].status
    /\ requests'[a].attempt = requests[a].attempt
    /\ requests'[a].error = requests[a].error
    /\ requests'[a].retryable = requests[a].retryable

\* What decides about the approvals stays, and so do the attempts.
QueueKept == (\A a \in ApprovalIds : SameVerdict(a)) /\ attempts' = attempts

\* The other approvals stay.
OthersKept(a) == \A b \in ApprovalIds \ {a} : requests'[b] = requests[b]

\* Only the record of thread h changes.
Only(h) == \A g \in Handlers \ {h} : job'[g] = job[g]

\* Thread h goes to another step with the same local variables, ...
Moves(h, at) ==
    /\ Only(h)
    /\ job'[h].at = at
    /\ job'[h].approval = job[h].approval
    /\ job'[h].attempt = job[h].attempt
    /\ job'[h].context = job[h].context
    /\ job'[h].error = job[h].error
    /\ job'[h].retryable = job[h].retryable
    /\ job'[h].status = job[h].status
    /\ job'[h].seen = job[h].seen

\* ... raises an error, ...
Raises(h, error, retryable, status) ==
    /\ Only(h)
    /\ job'[h].at = "fail"
    /\ job'[h].approval = job[h].approval
    /\ job'[h].attempt = job[h].attempt
    /\ job'[h].context = job[h].context
    /\ job'[h].error = error
    /\ job'[h].retryable = retryable
    /\ job'[h].status = status

\* ... or is done.
Frees(h) == Only(h) /\ job'[h] = IdleJob

\* The fields of a thread that is in no call.
LEMMA IdleFields ==
    /\ IdleJob.at = "idle" /\ IdleJob.approval = None /\ IdleJob.attempt = None
    /\ IdleJob.context = None /\ IdleJob.status = "absent" /\ IdleJob.todo = {}
BY DEF IdleJob

\* The thread keeps its local variables while it goes on.
LEMMA GoToMoves ==
    ASSUME job \in [Handlers -> Jobs], NEW h \in Handlers, NEW at \in Steps, GoTo(h, at)
    PROVE  Moves(h, at)
<1>1. job[h] \in Jobs
  OBVIOUS
<1>2. job'[h] = [job[h] EXCEPT !.at = at] /\ Only(h)
  BY DEF GoTo, Only
<1> QED BY <1>1, <1>2 DEF Moves, Jobs

\* The thread keeps its approval and its attempt while it raises, ...
LEMMA RaiseRaises ==
    ASSUME job \in [Handlers -> Jobs], NEW h \in Handlers, NEW error, NEW retryable,
           NEW status, Raise(h, error, retryable, status)
    PROVE  Raises(h, error, retryable, status)
<1>1. job[h] \in Jobs
  OBVIOUS
<1>2. /\ job'[h] = [job[h] EXCEPT !.at = "fail", !.error = error,
                                  !.retryable = retryable, !.status = status]
      /\ Only(h)
  BY DEF Raise, Only
<1> QED BY <1>1, <1>2 DEF Raises, Jobs

\* ... and keeps nothing when it is done.
LEMMA DoneFrees ==
    ASSUME job \in [Handlers -> Jobs], NEW h \in Handlers, Done(h)
    PROVE  Frees(h)
BY DEF Done, Frees, Only

\* A stored approval is created, ...
Creates(a) ==
    /\ requests[a].status = "absent"
    /\ requests'[a].status = "pending"
    /\ requests'[a].attempt = None
    /\ requests'[a].error = None
    /\ requests'[a].retryable = "unset"
    /\ OthersKept(a)
    /\ origin'[a] # "none"
    /\ \A b \in ApprovalIds \ {a} : origin'[b] = origin[b]
    /\ UNCHANGED <<attempts, provider, log>>

\* Create stores an approval that nothing is known of yet.
LEMMA CreateCreates ==
    ASSUME GatewayInv, NEW a \in ApprovalIds, NEW context, NEW from, Create(a, context),
           from # "none", origin' = [origin EXCEPT ![a] = from],
           UNCHANGED <<provider, log>>
    PROVE  Creates(a)
BY DEF GatewayInv, GatewayTypeOK, TypeOK, Create, Creates, NewRequest, OthersKept

\* A held chat completion stores an approval whose context is still to come,
\* ...
LEMMA ChatRequestEffect ==
    ASSUME GatewayInv, NEW h \in Handlers, NEW a \in ApprovalIds, ChatRequest(h, a)
    PROVE  /\ Creates(a)
           /\ Only(h) /\ job'[h].at = "attach" /\ job'[h].attempt = None
           /\ job'[h].approval = a
<1>1. Creates(a)
  BY CreateCreates DEF ChatRequest
<1>2. job' = [job EXCEPT ![h] = [IdleJob EXCEPT !.at = "attach", !.approval = a]]
  BY DEF ChatRequest
<1> QED BY <1>1, <1>2 DEF GatewayInv, GatewayTypeOK, Only, IdleJob

\* ... and the other two ways of making an approval leave the threads alone.
LEMMA OpenEffect ==
    ASSUME GatewayInv, NEW a \in ApprovalIds,
           \/ \E h \in Handlers : EvaluateRequest(h, a)
           \/ \E context \in DirectContexts : CreateDirectly(a, context)
    PROVE  Creates(a) /\ job' = job
BY CreateCreates DEF EvaluateRequest, CreateDirectly

\* ... loses or gains a context, ...
LEMMA AttachEffect ==
    ASSUME GatewayInv, NEW h \in Handlers, AttachChatContext(h)
    PROVE  /\ QueueKept
           /\ job[h].at = "attach"
           /\ Frees(h)
           /\ UNCHANGED <<provider, origin, log>>
<1>1. ASSUME UNCHANGED vars
      PROVE  QueueKept
  BY <1>1 DEF vars, QueueKept, SameVerdict
<1>2. ASSUME NEW context, AttachContext(job[h].approval, context)
      PROVE  QueueKept
  <2>1. PICK b : b = job[h].approval
    OBVIOUS
  <2>2. /\ requests' = [requests EXCEPT ![b].context = context]
        /\ attempts' = attempts
    BY <1>2, <2>1 DEF AttachContext
  <2>3. \A a \in ApprovalIds : requests[a] \in Requests
    BY <2>2 DEF GatewayInv, GatewayTypeOK, TypeOK
  <2>4. \A a \in ApprovalIds : SameVerdict(a)
    BY <2>2, <2>3 DEF GatewayInv, GatewayTypeOK, TypeOK, Requests, SameVerdict
  <2> QED BY <2>2, <2>4 DEF QueueKept
<1>3. QueueKept
  BY <1>1, <1>2 DEF AttachChatContext
<1> QED BY <1>3, DoneFrees DEF GatewayInv, GatewayTypeOK, AttachChatContext

\* ... is rejected, ...
LEMMA RejectEffect ==
    ASSUME GatewayInv, NEW h \in Handlers, NEW a \in ApprovalIds, Reject(h, a)
    PROVE  /\ requests[a].status \in {"pending", "invalid_context"}
           /\ requests'[a].status = "rejected"
           /\ requests'[a].attempt = requests[a].attempt
           /\ requests'[a].error = requests[a].error
           /\ requests'[a].retryable = "unset"
           /\ OthersKept(a)
           /\ Only(h)
           /\ job'[h].at = "resolved" /\ job'[h].approval = a /\ job'[h].attempt = None
           /\ job'[h].context = None /\ job'[h].status = "rejected"
           /\ UNCHANGED <<attempts, provider, origin, log>>
<1>1. job' = [job EXCEPT ![h] =
          [IdleJob EXCEPT !.at = "resolved", !.approval = a, !.status = "rejected"]]
  BY DEF Reject
<1>2. /\ Only(h)
      /\ job'[h].at = "resolved" /\ job'[h].approval = a /\ job'[h].attempt = None
      /\ job'[h].context = None /\ job'[h].status = "rejected"
  BY <1>1 DEF GatewayInv, GatewayTypeOK, Only, IdleJob
<1>3. /\ requests'[a] = RejectedRequest(requests[a])
      /\ requests[a] \in Requests
  BY DEF GatewayInv, GatewayTypeOK, TypeOK, Reject, RejectPending
<1> QED
  BY <1>2, <1>3, RejectedRequestType
  DEF GatewayInv, GatewayTypeOK, TypeOK, Reject, RejectPending, CanReject, OthersKept

\* ... is read for a reset, ...
LEMMA ResetRequestEffect ==
    ASSUME GatewayInv, NEW h \in Handlers, NEW a \in ApprovalIds, ResetRequest(h, a)
    PROVE  /\ requests[a].status # "absent"
           /\ Only(h)
           /\ job'[h].at = "reset" /\ job'[h].approval = a /\ job'[h].attempt = None
           /\ job'[h].seen = Seen(a)
           /\ UNCHANGED <<requests, attempts, provider, origin, log>>
<1>1. job' = [job EXCEPT ![h] =
          [IdleJob EXCEPT !.at = "reset", !.approval = a, !.seen = Seen(a)]]
  BY DEF ResetRequest
<1> QED
  BY <1>1 DEF GatewayInv, GatewayTypeOK, ResetRequest, Only, IdleJob, vars

\* ... or is executed by a thread under an attempt that was never used.
LEMMA ApproveEffect ==
    ASSUME GatewayInv, NEW h \in Handlers, NEW a \in ApprovalIds, NEW e \in AttemptIds,
           Approve(h, a, e)
    PROVE  /\ requests[a].status = "pending" /\ requests[a].retryable # "no"
           /\ requests'[a].status = "executing"
           /\ requests'[a].attempt = e
           /\ requests'[a].error = requests[a].error
           /\ requests'[a].retryable = "unset"
           /\ OthersKept(a)
           /\ attempts[e].outcome = "unused"
           /\ attempts'[e].outcome = "running"
           /\ attempts'[e].approval = a
           /\ \A f \in AttemptIds \ {e} : attempts'[f] = attempts[f]
           /\ Only(h)
           /\ job[h].at = "idle"
           /\ job'[h].at = "execute" /\ job'[h].approval = a /\ job'[h].attempt = e
           /\ UNCHANGED <<provider, origin, log>>
<1>1. job' = [job EXCEPT ![h] = [IdleJob EXCEPT !.at = "execute", !.approval = a,
                                    !.attempt = e, !.context = requests[a].context]]
  BY DEF Approve
<1>2. /\ Only(h)
      /\ job'[h].at = "execute" /\ job'[h].approval = a /\ job'[h].attempt = e
  BY <1>1 DEF GatewayInv, GatewayTypeOK, Only, IdleJob
<1>3. /\ requests'[a] = StartedRequest(requests[a], e, clock)
      /\ requests[a] \in Requests /\ clock \in Nat
  BY DEF GatewayInv, GatewayTypeOK, TypeOK, Approve, BeginExecution
<1> QED
  BY <1>2, <1>3, StartedRequestType
  DEF GatewayInv, GatewayTypeOK, TypeOK, Approve, Accept, BeginExecution, CanBegin, OthersKept

\* Attempts are recovered: thread h will append an event about each.
Recovers(h, recovered) ==
    /\ \A a \in recovered :
           /\ a \in ApprovalIds
           /\ requests[a].status = "executing"
           /\ requests'[a].status = "pending"
           /\ requests'[a].attempt = requests[a].attempt
           /\ requests'[a].error \in RecoveryReasons
           /\ requests'[a].retryable = "yes"
    /\ \A a \in ApprovalIds \ recovered : requests'[a] = requests[a]
    /\ \A e \in AttemptIds :
           /\ attempts'[e].approval = attempts[e].approval
           /\ \/ /\ \E a \in recovered : requests[a].attempt = e
                 /\ attempts[e].outcome = "running"
                 /\ attempts'[e].outcome = "superseded"
              \/ /\ \A a \in recovered : requests[a].attempt # e
                 /\ attempts'[e] = attempts[e]
    /\ Only(h)
    /\ job'[h].at = "recovered"
    /\ job'[h].attempt = None
    /\ job'[h].todo = {[approval |-> a, attempt |-> requests[a].attempt] : a \in recovered}
    /\ UNCHANGED <<provider, origin, log>>

\* Stale recovery takes running attempts from their threads.
LEMMA RecoverStaleEffect ==
    ASSUME GatewayInv, NEW h \in Handlers, RecoverStale(h)
    PROVE  \E recovered : Recovers(h, recovered)
<1>1. PICK timeout \in Timeouts, limit \in Limits, now \in 0..clock,
           reason \in RecoveryReasons :
      \E recovered \in Batches(StaleAt(now, timeout), limit) \ {{}} :
          /\ RecoverStaleExecutions(recovered, now, reason)
          /\ job' = [job EXCEPT ![h] =
                 [IdleJob EXCEPT !.at = "recovered", !.error = reason,
                     !.todo = {[approval |-> a, attempt |-> requests[a].attempt] :
                               a \in recovered}]]
  BY DEF RecoverStale
<1>2. PICK recovered \in Batches(StaleAt(now, timeout), limit) :
          /\ RecoverStaleExecutions(recovered, now, reason)
          /\ job' = [job EXCEPT ![h] =
                 [IdleJob EXCEPT !.at = "recovered", !.error = reason,
                     !.todo = {[approval |-> a, attempt |-> requests[a].attempt] :
                               a \in recovered}]]
  BY <1>1
<1>3. /\ \A a \in recovered :
            /\ a \in ApprovalIds
            /\ requests[a].status = "executing"
            /\ requests'[a].status = "pending"
            /\ requests'[a].attempt = requests[a].attempt
            /\ requests'[a].error \in RecoveryReasons
            /\ requests'[a].retryable = "yes"
      /\ \A a \in ApprovalIds \ recovered : requests'[a] = requests[a]
  BY <1>2, RecoveryEffect DEF GatewayInv, GatewayTypeOK
<1>4. \A e \in AttemptIds :
          /\ attempts'[e].approval = attempts[e].approval
          /\ \/ /\ \E a \in recovered : requests[a].attempt = e
                /\ attempts[e].outcome = "running"
                /\ attempts'[e].outcome = "superseded"
             \/ /\ \A a \in recovered : requests[a].attempt # e
                /\ attempts'[e] = attempts[e]
  BY <1>2, RecoverySupersedes DEF GatewayInv, GatewayTypeOK, AttemptInv
<1>5. PICK todo : todo = {[approval |-> a, attempt |-> requests[a].attempt] : a \in recovered}
  OBVIOUS
<1>6. /\ Only(h) /\ job'[h].at = "recovered" /\ job'[h].attempt = None /\ job'[h].todo = todo
  BY <1>2, <1>5 DEF GatewayInv, GatewayTypeOK, Only, IdleJob
<1>7. UNCHANGED <<provider, origin, log>>
  BY DEF RecoverStale
<1> QED BY <1>3, <1>4, <1>5, <1>6, <1>7 DEF Recovers

\* An error a handler records: only a context error closes the approval, and a
\* refusal that leaves it open is one an operator may lift.
FairRefusal(error, retryable, status) ==
    /\ status = "invalid_context" <=> error = "stored_approval_context_error"
    /\ status = "pending" /\ retryable = "no" => error \in ResettableErrors

\* Thread h has the error of a provider call to record.
RaisesProviderError(h) ==
    \E error, retryable : /\ Raises(h, error, retryable, "pending")
                          /\ FairRefusal(error, retryable, "pending")

\* The verdicts of the adapters are ones an operator may lift.
LEMMA ProviderErrorIsFair ==
    ASSUME NEW result \in ProviderErrorResults \cup {"bad_shape"}
    PROVE  FairRefusal(ProviderError(result).error, ProviderError(result).retryable,
                       "pending")
BY GatewayAssumption
   DEF FairRefusal, ProviderErrorResults, HTTPErrors, ProviderError

\* The thread calls the provider only for a chat completion, ...
LEMMA ExecuteEffect ==
    ASSUME GatewayInv, NEW h \in Handlers, ExecuteStoredContext(h)
    PROVE  /\ job[h].at = "execute"
           /\ UNCHANGED <<requests, attempts, origin, log>>
           /\ \/ /\ Moves(h, "finish")
                 /\ job[h].context # "chat_completion"
                 /\ provider' = provider
              \/ /\ Moves(h, "provider")
                 /\ job[h].context = "chat_completion"
                 /\ \A f \in AttemptIds \ {job[h].attempt} : provider'[f] = provider[f]
              \/ /\ Raises(h, "stored_approval_context_error", "no", "invalid_context")
                 /\ job[h].context # "chat_completion"
                 /\ provider' = provider
<1> USE DEF GatewayInv, GatewayTypeOK
<1>1. GoTo(h, "finish") => Moves(h, "finish")
  BY GoToMoves DEF Steps
<1>2. GoTo(h, "provider") => Moves(h, "provider")
  BY GoToMoves DEF Steps
<1>3. Raise(h, "stored_approval_context_error", "no", "invalid_context")
          => Raises(h, "stored_approval_context_error", "no", "invalid_context")
  BY RaiseRaises
<1> QED BY <1>1, <1>2, <1>3 DEF ExecuteStoredContext, CanExecute, vars

\* ... goes on with what the call came back with, ...
LEMMA ReturnEffect ==
    ASSUME GatewayInv, NEW h \in Handlers, ProviderReturns(h)
    PROVE  /\ job[h].at = "provider"
           /\ UNCHANGED <<requests, attempts, origin, log>>
           /\ \A f \in AttemptIds \ {job[h].attempt} : provider'[f] = provider[f]
           /\ \/ Moves(h, "returned")
              \/ RaisesProviderError(h)
              \/ Moves(h, "conflict") /\ "value_error" \in ProviderResults
              \/ Frees(h)
<1> USE DEF GatewayInv, GatewayTypeOK
<1>1. PICK result \in ProviderResults :
          /\ provider' = [provider EXCEPT ![job[h].attempt] = result]
          /\ \/ GoTo(h, "returned")
             \/ /\ result \in ProviderErrorResults
                /\ Raise(h, ProviderError(result).error,
                            ProviderError(result).retryable, "pending")
             \/ result = "value_error" /\ GoTo(h, "conflict")
             \/ Done(h)
  BY DEF ProviderReturns
<1>2. GoTo(h, "returned") => Moves(h, "returned")
  BY GoToMoves DEF Steps
<1>3. GoTo(h, "conflict") => Moves(h, "conflict")
  BY GoToMoves DEF Steps
<1>4. Raise(h, ProviderError(result).error, ProviderError(result).retryable, "pending")
          => Raises(h, ProviderError(result).error, ProviderError(result).retryable,
                    "pending")
  BY RaiseRaises
<1>5. result \in ProviderErrorResults =>
          FairRefusal(ProviderError(result).error, ProviderError(result).retryable,
                      "pending")
  BY ProviderErrorIsFair
<1>6. \/ Moves(h, "returned")
      \/ RaisesProviderError(h)
      \/ Moves(h, "conflict") /\ "value_error" \in ProviderResults
      \/ Frees(h)
  BY <1>1, <1>2, <1>3, <1>4, <1>5, DoneFrees DEF RaisesProviderError
<1> QED BY <1>1, <1>6 DEF ProviderReturns, vars

\* ... settles a valid response as a success only while its attempt is current,
\* ...
LEMMA CheckEffect ==
    ASSUME GatewayInv, NEW h \in Handlers, CheckAttempt(h)
    PROVE  /\ job[h].at = "returned"
           /\ UNCHANGED <<requests, attempts, provider, origin, log>>
           /\ \/ /\ Moves(h, "conflict")
                 /\ ~IsCurrentAttempt(job[h].approval, job[h].attempt)
              \/ /\ Moves(h, "finish")
                 /\ provider[job[h].attempt] = "ok"
              \/ RaisesProviderError(h)
<1> USE DEF GatewayInv, GatewayTypeOK
<1>1. GoTo(h, "finish") => Moves(h, "finish")
  BY GoToMoves DEF Steps
<1>2. GoTo(h, "conflict") => Moves(h, "conflict")
  BY GoToMoves DEF Steps
<1>3. Raise(h, ProviderError("bad_shape").error, ProviderError("bad_shape").retryable,
            "pending") => RaisesProviderError(h)
  BY RaiseRaises, ProviderErrorIsFair DEF RaisesProviderError
<1> QED BY <1>1, <1>2, <1>3 DEF CheckAttempt, vars

\* ... settles its attempt as succeeded, ...
LEMMA FinishEffect ==
    ASSUME GatewayInv, NEW h \in Handlers, Finish(h)
    PROVE  /\ job[h].at = "finish"
           /\ UNCHANGED <<provider, origin, log>>
           /\ \/ /\ Moves(h, "conflict")
                 /\ ~IsCurrentAttempt(job[h].approval, job[h].attempt)
                 /\ UNCHANGED <<requests, attempts>>
              \/ /\ IsCurrentAttempt(job[h].approval, job[h].attempt)
                 /\ requests'[job[h].approval].status = "approved"
                 /\ requests'[job[h].approval].attempt = job[h].attempt
                 /\ requests'[job[h].approval].error = None
                 /\ requests'[job[h].approval].retryable = "unset"
                 /\ OthersKept(job[h].approval)
                 /\ attempts'[job[h].attempt].outcome = "succeeded"
                 /\ attempts'[job[h].attempt].approval = job[h].approval
                 /\ attempts[job[h].attempt].approval = job[h].approval
                 /\ attempts[job[h].attempt].outcome = "running"
                 /\ \A f \in AttemptIds \ {job[h].attempt} : attempts'[f] = attempts[f]
                 /\ Only(h)
                 /\ job'[h].at = "resolved"
                 /\ job'[h].approval = job[h].approval
                 /\ job'[h].attempt = job[h].attempt
                 /\ job'[h].context = job[h].context
                 /\ job'[h].status = "approved"
<1> USE DEF GatewayInv, GatewayTypeOK
<1>0. /\ job[h].at = "finish" /\ job[h] \in Jobs
      /\ job[h].approval \in ApprovalIds /\ job[h].attempt \in AttemptIds
      /\ UNCHANGED <<provider, origin, log>>
  BY DEF Finish, JobsReady, JobReady, Executing
<1>1. CASE Refused(h)
  <2>1. Moves(h, "conflict")
    BY <1>1, GoToMoves DEF Refused, Steps
  <2> QED BY <1>0, <1>1, <2>1 DEF Refused, vars
<1>2. CASE /\ FinishExecutionSuccess(job[h].approval, job[h].attempt)
           /\ job' = [job EXCEPT ![h].at = "resolved", ![h].status = "approved"]
  <2>1. /\ Only(h)
        /\ job'[h].at = "resolved"
        /\ job'[h].approval = job[h].approval
        /\ job'[h].attempt = job[h].attempt
        /\ job'[h].context = job[h].context
        /\ job'[h].status = "approved"
    BY <1>0, <1>2 DEF Only, Jobs
  <2>2. /\ requests'[job[h].approval] = ApprovedRequest(requests[job[h].approval])
        /\ requests[job[h].approval] \in Requests
        /\ IsCurrentAttempt(job[h].approval, job[h].attempt)
        /\ OthersKept(job[h].approval)
    BY <1>0, <1>2 DEF FinishExecutionSuccess, TypeOK, OthersKept
  <2>3. /\ attempts[job[h].attempt].outcome = "running"
        /\ attempts[job[h].attempt].approval = job[h].approval
    BY <1>0, <2>2 DEF AttemptInv, RunningIsCurrent, IsCurrentAttempt
  <2>4. /\ attempts'[job[h].attempt].outcome = "succeeded"
        /\ attempts'[job[h].attempt].approval = attempts[job[h].attempt].approval
        /\ \A f \in AttemptIds \ {job[h].attempt} : attempts'[f] = attempts[f]
    BY <1>0, <1>2 DEF FinishExecutionSuccess, Settle, TypeOK, Attempts
  <2> QED BY <1>0, <2>1, <2>2, <2>3, <2>4, ApprovedRequestType DEF IsCurrentAttempt
<1> QED BY <1>1, <1>2 DEF Finish

\* ... or as failed, or learns that the attempt is not its own any more, ...
LEMMA FailEffect ==
    ASSUME GatewayInv, NEW h \in Handlers, Fail(h)
    PROVE  /\ job[h].at = "fail"
           /\ UNCHANGED <<provider, origin, log>>
           /\ \/ /\ Moves(h, "conflict")
                 /\ ~IsCurrentAttempt(job[h].approval, job[h].attempt)
                 /\ UNCHANGED <<requests, attempts>>
              \/ /\ Moves(h, "failed")
                 /\ IsCurrentAttempt(job[h].approval, job[h].attempt)
                 /\ job[h].status \in {"pending", "invalid_context"}
                 /\ requests'[job[h].approval].status = job[h].status
                 /\ requests'[job[h].approval].attempt = job[h].attempt
                 /\ requests'[job[h].approval].error = job[h].error
                 /\ requests'[job[h].approval].retryable = job[h].retryable
                 /\ OthersKept(job[h].approval)
                 /\ attempts'[job[h].attempt].outcome = "failed"
                 /\ attempts'[job[h].attempt].approval = job[h].approval
                 /\ attempts[job[h].attempt].approval = job[h].approval
                 /\ attempts[job[h].attempt].outcome = "running"
                 /\ \A f \in AttemptIds \ {job[h].attempt} : attempts'[f] = attempts[f]
<1> USE DEF GatewayInv, GatewayTypeOK
<1>0. /\ job[h].at = "fail" /\ job[h] \in Jobs
      /\ job[h].approval \in ApprovalIds /\ job[h].attempt \in AttemptIds
      /\ job[h].error \in Errors /\ job[h].retryable \in Verdicts
      /\ job[h].status \in {"pending", "invalid_context"} /\ job[h].status \in Statuses
      /\ UNCHANGED <<provider, origin, log>>
  BY DEF Fail, JobsReady, JobReady, Executing, Jobs
<1>1. CASE Refused(h)
  <2>1. Moves(h, "conflict")
    BY <1>1, GoToMoves DEF Refused, Steps
  <2> QED BY <1>0, <1>1, <2>1 DEF Refused, vars
<1>2. CASE /\ FailExecution(job[h].approval, job[h].attempt, job[h].error,
                            job[h].retryable, job[h].status)
           /\ GoTo(h, "failed")
  <2>1. Moves(h, "failed")
    BY <1>2, GoToMoves DEF Steps
  <2>2. /\ requests'[job[h].approval] =
               FailedRequest(requests[job[h].approval], job[h].status, job[h].error,
                             job[h].retryable, clock)
        /\ requests[job[h].approval] \in Requests
        /\ clock \in Nat
        /\ IsCurrentAttempt(job[h].approval, job[h].attempt)
        /\ OthersKept(job[h].approval)
    BY <1>0, <1>2 DEF FailExecution, TypeOK, OthersKept
  <2>3. /\ attempts[job[h].attempt].outcome = "running"
        /\ attempts[job[h].attempt].approval = job[h].approval
    BY <1>0, <2>2 DEF AttemptInv, RunningIsCurrent, IsCurrentAttempt
  <2>4. /\ attempts'[job[h].attempt].outcome = "failed"
        /\ attempts'[job[h].attempt].approval = attempts[job[h].attempt].approval
        /\ \A f \in AttemptIds \ {job[h].attempt} : attempts'[f] = attempts[f]
    BY <1>0, <1>2 DEF FailExecution, Settle, TypeOK, Attempts
  <2> QED BY <1>0, <2>1, <2>2, <2>3, <2>4, FailedRequestType DEF IsCurrentAttempt
<1> QED BY <1>1, <1>2 DEF Fail

\* ... and then reads what became of the approval.
LEMMA ReadConflictEffect ==
    ASSUME GatewayInv, NEW h \in Handlers, ReadConflict(h)
    PROVE  /\ job[h].at = "conflict"
           /\ Only(h)
           /\ job'[h].at = "conflicted"
           /\ job'[h].approval = job[h].approval
           /\ job'[h].attempt = job[h].attempt
           /\ job'[h].seen = Seen(job[h].approval)
           /\ UNCHANGED <<requests, attempts, provider, origin, log>>
<1>1. job[h] \in Jobs
  BY DEF GatewayInv, GatewayTypeOK
<1>2. job' = [job EXCEPT ![h] = [job[h] EXCEPT !.at = "conflicted",
                                               !.seen = Seen(job[h].approval)]]
  BY DEF ReadConflict
<1> QED BY <1>1, <1>2 DEF GatewayInv, GatewayTypeOK, ReadConflict, Only, Jobs, vars

\* A reset lifts the refusal, or is refused itself.
LEMMA ResetErrorEffect ==
    ASSUME GatewayInv, NEW h \in Handlers, ResetError(h)
    PROVE  /\ job[h].at = "reset"
           /\ UNCHANGED <<attempts, provider, origin, log>>
           /\ \/ Frees(h) /\ requests' = requests
              \/ /\ Moves(h, "reset_done")
                 /\ CanReset(job[h].approval)
                 /\ requests'[job[h].approval].status = "pending"
                 /\ requests'[job[h].approval].attempt = requests[job[h].approval].attempt
                 /\ requests'[job[h].approval].error = requests[job[h].approval].error
                 /\ requests'[job[h].approval].retryable = "yes"
                 /\ OthersKept(job[h].approval)
<1> USE DEF GatewayInv, GatewayTypeOK
<1>0. job[h].at = "reset" /\ job[h].approval \in ApprovalIds
  BY DEF ResetError, JobsReady, JobReady
<1>1. GoTo(h, "reset_done") => Moves(h, "reset_done")
  BY GoToMoves DEF Steps
<1>2. CASE ResetExecutionError(job[h].approval) /\ GoTo(h, "reset_done")
  <2>1. requests[job[h].approval] \in Requests
    BY <1>0 DEF TypeOK
  <2> QED
    BY <1>0, <1>1, <1>2, <2>1
       DEF ResetError, ResetExecutionError, CanReset, TypeOK, Requests, OthersKept
<1>3. CASE Done(h) /\ UNCHANGED vars
  BY <1>0, <1>3, DoneFrees DEF ResetError, vars
<1> QED BY <1>2, <1>3 DEF ResetError

\* The steps that append an event leave the queue alone: the thread is done,
\* or goes on to the next event.
Appended(h) ==
    /\ UNCHANGED <<requests, attempts, provider, origin>>
    /\ Only(h)
    /\ \/ job'[h] = IdleJob
       \/ job[h].at = "resolved" /\ Moves(h, "executed")
       \/ /\ job[h].at = "recovered" /\ job'[h].at = "recovered"
          /\ job'[h].attempt = job[h].attempt

\* Every step that appends an event is one of those.
LEMMA RecordEffect ==
    ASSUME GatewayInv, NEW h \in Handlers,
           \/ RecordFailure(h) \/ RecordConflict(h) \/ RecordResolution(h)
           \/ RecordExecution(h) \/ RecordRecovery(h) \/ RecordReset(h)
    PROVE  Appended(h)
<1> USE DEF GatewayInv, GatewayTypeOK
<1>0. job[h] \in Jobs
  OBVIOUS
<1>1. UNCHANGED <<requests, attempts, provider, origin>>
  BY DEF RecordFailure, RecordConflict, RecordResolution, RecordExecution,
         RecordRecovery, RecordReset, vars
<1>2. CASE Done(h)
  BY <1>1, <1>2, DoneFrees DEF Frees, Appended
<1>3. CASE RecordResolution(h)
  <2>1. GoTo(h, "executed") => Moves(h, "executed")
    BY GoToMoves DEF Steps
  <2>2. Moves(h, "executed") => Only(h)
    BY DEF Moves
  <2> QED BY <1>1, <1>2, <1>3, <2>1, <2>2 DEF RecordResolution, Appended
<1>4. CASE RecordRecovery(h)
  <2>1. ASSUME NEW r, job' = [job EXCEPT ![h].todo = @ \ {r}]
        PROVE  Only(h) /\ job'[h].at = job[h].at /\ job'[h].attempt = job[h].attempt
    BY <1>0, <2>1 DEF Only, Jobs
  <2> QED BY <1>1, <1>2, <1>4, <2>1 DEF RecordRecovery, Appended
<1> QED
  BY <1>2, <1>3, <1>4 DEF RecordFailure, RecordConflict, RecordExecution, RecordReset

----------------------------------------------------------------------------
(* Faults.                                                                 *)

\* Steps that change no verdict and no attempt: threads may be done with them.
Quiet ==
    /\ QueueKept
    /\ UNCHANGED <<provider, origin>>
    /\ \A h \in Handlers : job'[h] \in {job[h], IdleJob}

\* After a restart no approval is stored, no attempt runs and no thread is in a
\* call.
Restarted ==
    /\ \A a \in ApprovalIds : requests'[a] = NewRequest("absent", None)
    /\ \A e \in AttemptIds :
           /\ attempts'[e].approval = attempts[e].approval
           /\ attempts'[e].context = attempts[e].context
           /\ attempts'[e].outcome = IF attempts[e].outcome = "running"
                                       THEN "superseded" ELSE attempts[e].outcome
    /\ \A h \in Handlers : job'[h] = IdleJob
    /\ UNCHANGED <<provider, origin, log>>

\* The steps of which nothing follows for the invariants.
LEMMA QuietSteps ==
    ASSUME GatewayInv,
           \/ \E h \in Handlers : AttachChatContext(h) \/ AppendRaises(h)
           \/ TimePasses
           \/ UNCHANGED gatewayVars
    PROVE  Quiet
<1> USE DEF GatewayInv, GatewayTypeOK
<1>1. ASSUME NEW h \in Handlers, AttachChatContext(h)
      PROVE  Quiet
  BY <1>1, AttachEffect DEF Quiet, Frees, Only
<1>2. ASSUME NEW h \in Handlers, AppendRaises(h)
      PROVE  Quiet
  BY <1>2, DoneFrees DEF AppendRaises, Quiet, Frees, Only, QueueKept, SameVerdict, vars
<1>3. CASE TimePasses \/ UNCHANGED gatewayVars
  BY <1>3 DEF TimePasses, Tick, handlerVars, gatewayVars, vars, Quiet, QueueKept, SameVerdict
<1> QED BY <1>1, <1>2, <1>3

\* What a restart leaves behind.
LEMMA RestartEffect ==
    ASSUME GatewayInv, Restart
    PROVE  Restarted
BY DEF GatewayInv, GatewayTypeOK, TypeOK, Attempts, Restart, Restarted

\* The faults keep the invariants of the handlers.
LEMMA FaultStep ==
    ASSUME GatewayInv, OwnerInv, Restart \/ \E h \in Handlers : AppendRaises(h)
    PROVE  GatewayInv' /\ OwnerInv'
<1> USE DEF GatewayInv, GatewayTypeOK
<1>1. ASSUME NEW h \in Handlers, AppendRaises(h)
      PROVE  GatewayInv' /\ OwnerInv'
  <2>1. Done(h) /\ UNCHANGED <<requests, attempts, clock, provider, origin, calls>>
    BY <1>1 DEF AppendRaises, vars
  <2>2. (job \in [Handlers -> Jobs] /\ JobsReady)'
    BY <2>1, DoneReady
  <2>3. TypeOK' /\ AttemptInv'
    BY <2>1 DEF TypeOK, AttemptInv, RunningIsCurrent, ApprovedNamesAttempt,
                ExecutedContextIsStored
  <2>4. OwnerInv'
    BY <2>1, OwnerDone DEF NoSuccess, OwnCallOnly
  <2> QED BY <2>1, <2>2, <2>3, <2>4
<1>2. CASE Restart
  <2>1. Restarted /\ UNCHANGED <<clock, calls>>
    BY <1>2, RestartEffect DEF Restart
  <2>2. requests' \in [ApprovalIds -> Requests]
    BY <1>2, NewRequestType DEF Restart, Statuses
  <2>3. attempts' \in [AttemptIds -> Attempts]
    BY <1>2 DEF Restart, TypeOK, Attempts, Outcomes
  <2>4. job' \in [Handlers -> Jobs] /\ JobsReady'
    BY <1>2, IdleJobType DEF Restart, JobsReady, JobReady, Executing
  <2>5. AttemptInv'
    BY <2>1 DEF Restarted, NewRequest, AttemptInv, RunningIsCurrent, ApprovedNamesAttempt,
                ExecutedContextIsStored
  <2>6. OwnerInv'
    BY <2>1, IdleFields DEF Restarted, OwnerInv, OwnedJob, Executing
  <2> QED BY <2>1, <2>2, <2>3, <2>4, <2>5, <2>6 DEF Restarted, TypeOK
<1> QED BY <1>1, <1>2

\* The empty server.
LEMMA OwnerInit == GatewayInit => OwnerInv
BY IdleJobType DEF GatewayInit, Init, OwnerInv, OwnedJob, IdleJob, Executing

\* Every step of the handlers keeps OwnerInv.
LEMMA OwnerStep ==
    ASSUME GatewayInv, OwnerInv, [GatewayNext]_gatewayVars
    PROVE  OwnerInv'
<1>1. CASE \E h \in Handlers : Call(h)
  BY <1>1, OwnerCall
<1>2. CASE \E h \in Handlers : Continue(h)
  BY <1>2, OwnerContinue
<1>3. CASE UNCHANGED <<attempts, job, provider>>
  BY <1>3 DEF OwnerInv, OwnedJob
<1> QED BY <1>1, <1>2, <1>3
        DEF GatewayNext, CreateDirectly, Create, TimePasses, Tick, gatewayVars,
            handlerVars, vars

\* A step of the service, seen from the gateway.
LEMMA ServiceStep ==
    ASSUME [ServiceNext]_serviceVars
    PROVE  \/ [GatewayNext /\ FreshIds]_gatewayVars
           \/ \E h \in Handlers : AppendRaises(h)
           \/ Restart
BY DEF ServiceNext, serviceVars

----------------------------------------------------------------------------
(* What a step of the service is, in terms of the effects.                 *)

\* Creates for the handler of a chat completion or for nobody.
Opens(a) ==
    /\ Creates(a)
    /\ \/ job' = job
       \/ \E h \in Handlers : /\ Only(h)
                              /\ job'[h].at = "attach" /\ job'[h].attempt = None

\* The three ways an approval is made.
LEMMA OpensEffect ==
    ASSUME GatewayInv, NEW a \in ApprovalIds,
           \/ \E h \in Handlers : ChatRequest(h, a) \/ EvaluateRequest(h, a)
           \/ \E context \in DirectContexts : CreateDirectly(a, context)
    PROVE  Opens(a)
BY ChatRequestEffect, OpenEffect DEF Opens

----------------------------------------------------------------------------
(* Provider calls.                                                         *)

\* What a thread knows of the provider call of the attempt it holds.
CallingJob(j) ==
    /\ j.at \in Executing => attempts[j.attempt].outcome \in {"running", "superseded"}
    /\ (\/ j.at = "execute"
        \/ j.at \in Executing /\ j.context # "chat_completion")
           => provider[j.attempt] = "none"
    /\ j.at \in {"provider", "returned"} => j.context = "chat_completion"
    /\ j.at = "fail" /\ j.status = "invalid_context" => j.context # "chat_completion"

\* No attempt that was not begun reached a provider, nor did one whose context
\* is invalid.
CallsInv ==
    /\ \A h \in Handlers : CallingJob(job[h])
    /\ \A e \in AttemptIds : attempts[e].outcome = "unused" => provider[e] = "none"
    /\ \A a \in ApprovalIds : requests[a].status = "invalid_context" =>
           /\ requests[a].attempt \in AttemptIds
           /\ attempts[requests[a].attempt].outcome = "failed"
           /\ provider[requests[a].attempt] = "none"

\* A step of a thread that touches at most the attempt it is executing.
LEMMA CallsFrame ==
    ASSUME GatewayInv, OwnerInv, CallsInv, NEW h \in Handlers, Only(h),
           \A e \in AttemptIds : (job[h].at \in Executing => e # job[h].attempt) =>
               /\ attempts'[e] = attempts[e]
               /\ provider'[e] = provider[e],
           job[h].at \in Executing => attempts'[job[h].attempt].outcome # "unused",
           CallingJob(job[h])',
           \A a \in ApprovalIds :
               \/ SameVerdict(a)
               \/ requests'[a].status # "invalid_context"
               \/ /\ requests'[a].attempt \in AttemptIds
                  /\ attempts'[requests'[a].attempt].outcome = "failed"
                  /\ provider'[requests'[a].attempt] = "none"
    PROVE  CallsInv'
<1> USE DEF GatewayInv, GatewayTypeOK
<1>0. /\ \A g \in Handlers : job[g].attempt \in AttemptIds \cup {None}
      /\ \A g \in Handlers : job[g].at \in Executing => job[g].attempt \in AttemptIds
      /\ None \notin AttemptIds
  BY SetsAssumption DEF Jobs, JobsReady, JobReady
<1>1. ASSUME NEW g \in Handlers \ {h} PROVE CallingJob(job[g])'
  <2>1. CallingJob(job[g]) /\ job'[g] = job[g]
    BY DEF CallsInv, Only
  <2>2. job[g].at \in Executing => /\ job[g].attempt \in AttemptIds
                                  /\ job[g].attempt # job[h].attempt
    BY <1>0 DEF OwnerInv
  <2>3. job[g].at \in Executing => /\ attempts'[job[g].attempt] = attempts[job[g].attempt]
                                  /\ provider'[job[g].attempt] = provider[job[g].attempt]
    BY <2>2
  <2>4. job[g].at = "execute" => job[g].at \in Executing
    BY DEF Executing
  <2> QED BY <2>1, <2>3, <2>4 DEF CallingJob
<1>2. ASSUME NEW e \in AttemptIds, attempts'[e].outcome = "unused"
      PROVE  provider'[e] = "none"
  BY <1>2 DEF CallsInv
<1>3. ASSUME NEW a \in ApprovalIds, requests'[a].status = "invalid_context", SameVerdict(a)
      PROVE  /\ requests'[a].attempt \in AttemptIds
             /\ attempts'[requests'[a].attempt].outcome = "failed"
             /\ provider'[requests'[a].attempt] = "none"
  <2>1. /\ requests[a].attempt \in AttemptIds
        /\ attempts[requests[a].attempt].outcome = "failed"
        /\ provider[requests[a].attempt] = "none"
        /\ requests'[a].attempt = requests[a].attempt
    BY <1>3 DEF CallsInv, SameVerdict
  <2>2. job[h].at \in Executing => requests[a].attempt # job[h].attempt
    BY <2>1 DEF CallsInv, CallingJob
  <2> QED BY <2>1, <2>2
<1> QED BY <1>1, <1>2, <1>3 DEF CallsInv, Only

\* Faults and steps without effect keep the call records.
LEMMA CallsQuiet ==
    ASSUME GatewayInv, OwnerInv, CallsInv, Quiet \/ Restarted
    PROVE  CallsInv'
<1>1. CASE Quiet
  BY <1>1, IdleFields DEF Quiet, QueueKept, SameVerdict, CallsInv, CallingJob, Executing
<1>2. CASE Restarted
  BY <1>2, IdleFields
     DEF Restarted, NewRequest, CallsInv, CallingJob, Executing, GatewayInv, GatewayTypeOK,
         TypeOK, Attempts, Outcomes
<1> QED BY <1>1, <1>2

\* A new API call keeps the call records.
LEMMA CallsCall ==
    ASSUME GatewayInv, OwnerInv, CallsInv, NEW h \in Handlers, Call(h)
    PROVE  CallsInv'
<1> USE DEF GatewayInv, GatewayTypeOK
<1>1. ASSUME NEW a \in ApprovalIds, Reject(h, a)
      PROVE  CallsInv'
  <2>1. CallingJob(job[h])'
    BY <1>1, RejectEffect DEF CallingJob, Executing
  <2>2. \A b \in ApprovalIds : SameVerdict(b) \/ requests'[b].status # "invalid_context"
    BY <1>1, RejectEffect DEF OthersKept, SameVerdict
  <2>3. job[h].at \notin Executing
    BY <1>1 DEF Reject, Accept, Executing
  <2> QED BY <1>1, <2>1, <2>2, <2>3, RejectEffect, CallsFrame
<1>2. ASSUME NEW a \in ApprovalIds, ResetRequest(h, a)
      PROVE  CallsInv'
  <2>1. CallingJob(job[h])'
    BY <1>2, ResetRequestEffect DEF CallingJob, Executing
  <2> QED BY <1>2, <2>1, ResetRequestEffect, CallsFrame
     DEF SameVerdict, ResetRequest, Accept, Executing
<1>3. ASSUME NEW a \in ApprovalIds, ChatRequest(h, a)
      PROVE  CallsInv'
  <2>1. CallingJob(job[h])'
    BY <1>3, ChatRequestEffect DEF CallingJob, Executing
  <2>2. \A b \in ApprovalIds : SameVerdict(b) \/ requests'[b].status # "invalid_context"
    BY <1>3, ChatRequestEffect DEF Creates, OthersKept, SameVerdict
  <2>3. job[h].at \notin Executing
    BY <1>3 DEF ChatRequest, Accept, Executing
  <2> QED BY <1>3, <2>1, <2>2, <2>3, ChatRequestEffect, CallsFrame DEF Creates
<1>4. ASSUME NEW a \in ApprovalIds, EvaluateRequest(h, a)
      PROVE  CallsInv'
  BY <1>4, OpenEffect DEF Creates, OthersKept, CallsInv, CallingJob
<1>5. ASSUME NEW a \in ApprovalIds, NEW e \in AttemptIds, Approve(h, a, e)
      PROVE  CallsInv'
  <2>1. provider[e] = "none"
    BY <1>5, ApproveEffect DEF CallsInv
  <2>2. CallingJob(job[h])'
    BY <1>5, <2>1, ApproveEffect DEF CallingJob, Executing
  <2>3. ASSUME NEW g \in Handlers \ {h} PROVE CallingJob(job[g])'
    <3>1. CallingJob(job[g]) /\ job'[g] = job[g]
      BY <1>5, ApproveEffect DEF CallsInv, Only
    <3>2. job[g].at \in Executing => job[g].attempt \in AttemptIds \ {e}
      BY <1>5, <3>1, ApproveEffect DEF CallingJob, JobsReady, JobReady
    <3>3. job[g].at \in Executing => attempts'[job[g].attempt] = attempts[job[g].attempt]
      BY <1>5, <3>2, ApproveEffect
    <3>4. provider' = provider
      BY <1>5, ApproveEffect
    <3> QED BY <3>1, <3>3, <3>4 DEF CallingJob
  <2>4. ASSUME NEW b \in ApprovalIds, requests'[b].status = "invalid_context"
        PROVE  /\ requests'[b].attempt \in AttemptIds
               /\ attempts'[requests'[b].attempt].outcome = "failed"
               /\ provider'[requests'[b].attempt] = "none"
    BY <1>5, <2>4, ApproveEffect DEF CallsInv, OthersKept
  <2>5. \A f \in AttemptIds : attempts'[f].outcome = "unused" => provider'[f] = "none"
    BY <1>5, ApproveEffect DEF CallsInv
  <2> QED BY <2>2, <2>3, <2>4, <2>5 DEF CallsInv
<1>6. CASE RecoverStale(h)
  <2>1. PICK recovered : Recovers(h, recovered)
    BY <1>6, RecoverStaleEffect
  <2>2. \A g \in Handlers : CallingJob(job[g])'
    <3>1. CallingJob(job[h])'
      BY <2>1 DEF Recovers, CallingJob, Executing
    <3>2. ASSUME NEW g \in Handlers \ {h} PROVE CallingJob(job[g])'
      <4>1. CallingJob(job[g]) /\ job'[g] = job[g] /\ provider' = provider
        BY <2>1 DEF CallsInv, Only, Recovers
      <4>2. job[g].at \in Executing => job[g].attempt \in AttemptIds
        BY DEF JobsReady, JobReady
      <4>3. job[g].at \in Executing =>
                attempts'[job[g].attempt].outcome \in {"running", "superseded"}
        BY <2>1, <4>1, <4>2 DEF Recovers, CallingJob
      <4> QED BY <4>1, <4>3 DEF CallingJob
    <3> QED BY <3>1, <3>2
  <2>3. \A e \in AttemptIds : attempts'[e].outcome = "unused" => provider'[e] = "none"
    BY <2>1 DEF Recovers, CallsInv
  <2>4. ASSUME NEW b \in ApprovalIds, requests'[b].status = "invalid_context"
        PROVE  /\ requests'[b].attempt \in AttemptIds
               /\ attempts'[requests'[b].attempt].outcome = "failed"
               /\ provider'[requests'[b].attempt] = "none"
    <3>1. requests'[b] = requests[b] /\ provider' = provider
      BY <2>1, <2>4 DEF Recovers
    <3>2. /\ requests[b].attempt \in AttemptIds
          /\ attempts[requests[b].attempt].outcome = "failed"
          /\ provider[requests[b].attempt] = "none"
      BY <2>4, <3>1 DEF CallsInv
    <3> QED BY <2>1, <3>1, <3>2 DEF Recovers
  <2> QED BY <2>2, <2>3, <2>4 DEF CallsInv
<1> QED BY <1>1, <1>2, <1>3, <1>4, <1>5, <1>6 DEF Call

\* So does every later step of a handler, ...
LEMMA CallsContinue ==
    ASSUME GatewayInv, OwnerInv, CallsInv, NEW h \in Handlers, Continue(h)
    PROVE  CallsInv'
<1> USE DEF GatewayInv, GatewayTypeOK
<1>0. /\ CallingJob(job[h])
      /\ job[h].at \in Executing => job[h].attempt \in AttemptIds
      /\ job[h].at \in Executing \cup {"reset"} => job[h].approval \in ApprovalIds
  BY DEF CallsInv, JobsReady, JobReady, Executing
<1>1. CASE AttachChatContext(h)
  BY <1>1, QuietSteps, CallsQuiet
<1>2. CASE ExecuteStoredContext(h)
  <2>1. CallingJob(job[h])'
    BY <1>0, <1>2, ExecuteEffect DEF CallingJob, Moves, Raises, Executing
  <2>2. Only(h)
    BY <1>2, ExecuteEffect DEF Moves, Raises
  <2>3. /\ UNCHANGED <<requests, attempts>> /\ job[h].at = "execute"
        /\ \A f \in AttemptIds \ {job[h].attempt} : provider'[f] = provider[f]
    BY <1>2, ExecuteEffect
  <2>4. attempts[job[h].attempt].outcome # "unused"
    BY <1>0, <2>3 DEF CallingJob, Executing
  <2> QED BY <2>1, <2>2, <2>3, <2>4, CallsFrame DEF SameVerdict, Executing
<1>3. CASE ProviderReturns(h)
  <2>1. /\ UNCHANGED <<requests, attempts>> /\ job[h].at = "provider"
        /\ \A f \in AttemptIds \ {job[h].attempt} : provider'[f] = provider[f]
        /\ \/ Moves(h, "returned") \/ RaisesProviderError(h) \/ Moves(h, "conflict")
           \/ Frees(h)
    BY <1>3, ReturnEffect
  <2>2. Only(h)
    BY <2>1 DEF Moves, Raises, RaisesProviderError, Frees
  <2>3. attempts[job[h].attempt].outcome \in {"running", "superseded"}
    BY <1>0, <2>1 DEF CallingJob, Executing
  <2>4. job[h].context = "chat_completion"
    BY <1>0, <2>1 DEF CallingJob
  <2>5. CallingJob(job[h])'
    BY <2>1, <2>3, <2>4, IdleFields
       DEF CallingJob, Moves, Raises, RaisesProviderError, Frees, Executing
  <2> QED BY <2>1, <2>2, <2>3, <2>5, CallsFrame DEF SameVerdict, Executing
<1>4. CASE CheckAttempt(h)
  <2>1. /\ UNCHANGED <<requests, attempts, provider>> /\ job[h].at = "returned"
        /\ Moves(h, "conflict") \/ Moves(h, "finish") \/ RaisesProviderError(h)
    BY <1>4, CheckEffect
  <2>2. Only(h)
    BY <2>1 DEF Moves, Raises, RaisesProviderError
  <2>3. attempts[job[h].attempt].outcome \in {"running", "superseded"}
    BY <1>0, <2>1 DEF CallingJob, Executing
  <2>4. CallingJob(job[h])'
    BY <1>0, <2>1, <2>3 DEF CallingJob, Moves, Raises, RaisesProviderError, Executing
  <2> QED BY <2>1, <2>2, <2>3, <2>4, CallsFrame DEF SameVerdict, Executing
<1>5. CASE Finish(h)
  <2>1. job[h].at = "finish" /\ provider' = provider
    BY <1>5, FinishEffect
  <2>2. attempts[job[h].attempt].outcome \in {"running", "superseded"}
    BY <1>0, <2>1 DEF CallingJob, Executing
  <2>3. Only(h) /\ CallingJob(job[h])'
    BY <1>5, FinishEffect DEF Moves, CallingJob, Executing
  <2>4. \A b \in ApprovalIds : SameVerdict(b) \/ requests'[b].status # "invalid_context"
    BY <1>5, FinishEffect DEF OthersKept, SameVerdict
  <2>5. /\ \A f \in AttemptIds \ {job[h].attempt} : attempts'[f] = attempts[f]
        /\ attempts'[job[h].attempt].outcome # "unused"
    BY <1>5, <2>2, FinishEffect
  <2> QED BY <2>1, <2>3, <2>4, <2>5, CallsFrame DEF Executing
<1>6. CASE Fail(h)
  <2>1. job[h].at = "fail" /\ provider' = provider
    BY <1>6, FailEffect
  <2>2. attempts[job[h].attempt].outcome \in {"running", "superseded"}
    BY <1>0, <2>1 DEF CallingJob, Executing
  <2>3. Only(h) /\ CallingJob(job[h])'
    BY <1>6, FailEffect DEF Moves, CallingJob, Executing
  <2>4. /\ \A f \in AttemptIds \ {job[h].attempt} : attempts'[f] = attempts[f]
        /\ attempts'[job[h].attempt].outcome # "unused"
    BY <1>6, <2>2, FailEffect
  <2>5. job[h].status = "invalid_context" => provider[job[h].attempt] = "none"
    BY <1>0, <2>1 DEF CallingJob, Executing
  <2>6. ASSUME NEW b \in ApprovalIds
        PROVE  \/ SameVerdict(b)
               \/ requests'[b].status # "invalid_context"
               \/ /\ requests'[b].attempt \in AttemptIds
                  /\ attempts'[requests'[b].attempt].outcome = "failed"
                  /\ provider'[requests'[b].attempt] = "none"
    BY <1>0, <1>6, <2>1, <2>5, FailEffect DEF OthersKept, SameVerdict, Executing
  <2> QED BY <2>1, <2>3, <2>4, <2>6, CallsFrame DEF Executing
<1>7. CASE ReadConflict(h)
  <2>1. CallingJob(job[h])'
    BY <1>7, ReadConflictEffect DEF CallingJob, Executing
  <2> QED BY <1>7, <2>1, ReadConflictEffect, CallsFrame DEF SameVerdict, Executing
<1>8. CASE \/ RecordFailure(h) \/ RecordConflict(h) \/ RecordResolution(h)
           \/ RecordExecution(h) \/ RecordRecovery(h) \/ RecordReset(h)
  <2>1. Appended(h) /\ job[h].at \notin Executing
    BY <1>8, RecordEffect
       DEF RecordFailure, RecordConflict, RecordResolution, RecordExecution,
           RecordRecovery, RecordReset, Executing
  <2>2. CallingJob(job[h])'
    BY <2>1, IdleFields DEF Appended, Moves, CallingJob, Executing
  <2> QED BY <2>1, <2>2, CallsFrame DEF Appended, SameVerdict
<1>9. CASE ResetError(h)
  <2>1. CallingJob(job[h])' /\ Only(h)
    BY <1>9, ResetErrorEffect, IdleFields DEF Frees, Moves, CallingJob, Executing
  <2>2. \A b \in ApprovalIds : SameVerdict(b) \/ requests'[b].status # "invalid_context"
    BY <1>9, ResetErrorEffect DEF OthersKept, SameVerdict
  <2> QED BY <1>9, <2>1, <2>2, ResetErrorEffect, CallsFrame DEF Executing
<1> QED BY <1>1, <1>2, <1>3, <1>4, <1>5, <1>6, <1>7, <1>8, <1>9, Zenon DEF Continue

\* ... and every step of the service.
LEMMA CallsStep ==
    ASSUME GatewayInv, OwnerInv, CallsInv,
           [GatewayNext]_gatewayVars \/ Restart \/ \E h \in Handlers : AppendRaises(h)
    PROVE  CallsInv'
<1>1. CASE \E h \in Handlers : Call(h)
  BY <1>1, CallsCall
<1>2. CASE \E h \in Handlers : Continue(h)
  BY <1>2, CallsContinue
<1>3. CASE \E a \in ApprovalIds, context \in DirectContexts : CreateDirectly(a, context)
  BY <1>3, OpenEffect DEF Creates, OthersKept, CallsInv, CallingJob
<1>4. CASE \/ TimePasses \/ UNCHANGED gatewayVars \/ Restart
           \/ \E h \in Handlers : AppendRaises(h)
  BY <1>4, QuietSteps, RestartEffect, CallsQuiet
<1> QED BY <1>1, <1>2, <1>3, <1>4 DEF GatewayNext

\* The empty server has called nobody.
LEMMA CallsInit == GatewayInit => CallsInv
BY IdleFields DEF GatewayInit, Init, NewRequest, CallsInv, CallingJob, Executing

----------------------------------------------------------------------------
(* Refusals.                                                               *)

\* What the error and the verdict of a stored approval say about its status.
FairRequest(r) ==
    /\ r.error = "stored_approval_context_error"
           => r.status \in {"invalid_context", "rejected"}
    /\ r.status = "invalid_context" => r.error = "stored_approval_context_error"
    /\ r.status = "pending" /\ r.retryable = "no" => r.error \in ResettableErrors
    /\ r.retryable # "unset" => r.status \in {"pending", "invalid_context"}

\* Errors on their way to the queue, and the stored ones, refuse only what can
\* be reset.
RefusalInv ==
    /\ \A h \in Handlers : job[h].at = "fail" =>
           FairRefusal(job[h].error, job[h].retryable, job[h].status)
    /\ \A a \in ApprovalIds : FairRequest(requests[a])

\* Faults and steps without effect keep the refusals fair.
LEMMA RefusalQuiet ==
    ASSUME RefusalInv, Quiet \/ Restarted
    PROVE  RefusalInv'
<1>1. CASE Quiet
  BY <1>1, IdleFields DEF Quiet, QueueKept, SameVerdict, RefusalInv, FairRequest
<1>2. CASE Restarted
  <2>1. None # "stored_approval_context_error"
    BY SetsAssumption, GatewayAssumption
  <2> QED BY <1>2, <2>1, IdleFields DEF Restarted, NewRequest, RefusalInv, FairRequest
<1> QED BY <1>1, <1>2

\* A step of one thread that touches at most one stored approval.
LEMMA RefusalFrame ==
    ASSUME RefusalInv, NEW h \in Handlers, Only(h),
           job'[h].at = "fail" =>
               FairRefusal(job'[h].error, job'[h].retryable, job'[h].status),
           \A a \in ApprovalIds : SameVerdict(a) \/ FairRequest(requests'[a])
    PROVE  RefusalInv'
BY DEF RefusalInv, Only, SameVerdict, FairRequest

\* A new approval carries no error.
LEMMA RefusalOpens ==
    ASSUME RefusalInv, NEW a \in ApprovalIds, Opens(a)
    PROVE  RefusalInv'
<1>0. None # "stored_approval_context_error"
  BY SetsAssumption, GatewayAssumption
<1>1. \A b \in ApprovalIds : FairRequest(requests'[b])
  BY <1>0 DEF RefusalInv, Opens, Creates, OthersKept, FairRequest
<1> QED BY <1>1 DEF Opens, Only, RefusalInv

\* A new API call keeps the refusals fair.
LEMMA RefusalCall ==
    ASSUME GatewayInv, RefusalInv, NEW h \in Handlers, Call(h)
    PROVE  RefusalInv'
<1>1. ASSUME NEW a \in ApprovalIds, Reject(h, a)
      PROVE  RefusalInv'
  <2>1. \A b \in ApprovalIds : SameVerdict(b) \/ FairRequest(requests'[b])
    BY <1>1, RejectEffect DEF OthersKept, SameVerdict, FairRequest
  <2> QED BY <1>1, <2>1, RejectEffect, RefusalFrame
<1>2. ASSUME NEW a \in ApprovalIds, ResetRequest(h, a)
      PROVE  RefusalInv'
  BY <1>2, ResetRequestEffect, RefusalFrame DEF SameVerdict
<1>3. ASSUME NEW a \in ApprovalIds, ChatRequest(h, a) \/ EvaluateRequest(h, a)
      PROVE  RefusalInv'
  BY <1>3, OpensEffect, RefusalOpens
<1>4. ASSUME NEW a \in ApprovalIds, NEW e \in AttemptIds, Approve(h, a, e)
      PROVE  RefusalInv'
  <2>1. FairRequest(requests'[a])
    BY <1>4, ApproveEffect DEF RefusalInv, FairRequest
  <2>2. \A b \in ApprovalIds : SameVerdict(b) \/ FairRequest(requests'[b])
    BY <1>4, <2>1, ApproveEffect DEF OthersKept, SameVerdict
  <2>3. Only(h) /\ job'[h].at # "fail"
    BY <1>4, ApproveEffect
  <2> QED BY <2>2, <2>3, RefusalFrame
<1>5. CASE RecoverStale(h)
  <2>1. PICK recovered : Recovers(h, recovered)
    BY <1>5, RecoverStaleEffect
  <2>2. ASSUME NEW b \in ApprovalIds
        PROVE  SameVerdict(b) \/ FairRequest(requests'[b])
    <3>1. CASE b \in recovered
      BY <2>1, <3>1, GatewayAssumption DEF Recovers, FairRequest
    <3>2. CASE b \notin recovered
      BY <2>1, <3>2 DEF Recovers, SameVerdict
    <3> QED BY <3>1, <3>2
  <2>3. Only(h) /\ job'[h].at # "fail"
    BY <2>1 DEF Recovers
  <2> QED BY <2>2, <2>3, RefusalFrame
<1> QED BY <1>1, <1>2, <1>3, <1>4, <1>5 DEF Call

\* So does every later step of a handler, ...
LEMMA RefusalContinue ==
    ASSUME GatewayInv, RefusalInv, NEW h \in Handlers, Continue(h)
    PROVE  RefusalInv'
<1>1. CASE AttachChatContext(h)
  BY <1>1, QuietSteps, RefusalQuiet
<1>2. CASE ExecuteStoredContext(h) \/ ProviderReturns(h) \/ CheckAttempt(h)
  <2>1. \/ Moves(h, "finish") \/ Moves(h, "provider") \/ Moves(h, "returned")
        \/ Moves(h, "conflict") \/ RaisesProviderError(h) \/ Frees(h)
        \/ Raises(h, "stored_approval_context_error", "no", "invalid_context")
    BY <1>2, ExecuteEffect, ReturnEffect, CheckEffect
  <2>2. Only(h) /\ (job'[h].at = "fail" =>
            FairRefusal(job'[h].error, job'[h].retryable, job'[h].status))
    BY <2>1, IdleFields DEF Moves, Raises, RaisesProviderError, Frees, FairRefusal
  <2>3. requests' = requests
    BY <1>2, ExecuteEffect, ReturnEffect, CheckEffect
  <2> QED BY <2>2, <2>3, RefusalFrame DEF SameVerdict
<1>3. CASE Finish(h)
  <2>1. \A b \in ApprovalIds : SameVerdict(b) \/ FairRequest(requests'[b])
    <3>1. None # "stored_approval_context_error"
      BY SetsAssumption, GatewayAssumption
    <3> QED BY <1>3, <3>1, FinishEffect DEF OthersKept, SameVerdict, FairRequest
  <2>2. Only(h) /\ job'[h].at # "fail"
    BY <1>3, FinishEffect DEF Moves
  <2> QED BY <2>1, <2>2, RefusalFrame
<1>4. CASE Fail(h)
  <2>1. FairRefusal(job[h].error, job[h].retryable, job[h].status)
    BY <1>4, FailEffect DEF RefusalInv
  <2>2. \A b \in ApprovalIds : SameVerdict(b) \/ FairRequest(requests'[b])
    BY <1>4, <2>1, FailEffect DEF OthersKept, SameVerdict, FairRequest, FairRefusal
  <2>3. Only(h) /\ job'[h].at # "fail"
    BY <1>4, FailEffect DEF Moves
  <2> QED BY <2>2, <2>3, RefusalFrame
<1>5. CASE ReadConflict(h)
  BY <1>5, ReadConflictEffect, RefusalFrame DEF SameVerdict
<1>6. CASE \/ RecordFailure(h) \/ RecordConflict(h) \/ RecordResolution(h)
           \/ RecordExecution(h) \/ RecordRecovery(h) \/ RecordReset(h)
  <2>1. Appended(h)
    BY <1>6, RecordEffect
  <2>2. Only(h) /\ job'[h].at # "fail" /\ requests' = requests
    BY <2>1, IdleFields DEF Appended, Moves
  <2> QED BY <2>2, RefusalFrame DEF SameVerdict
<1>7. CASE ResetError(h)
  <2>1. \A b \in ApprovalIds : SameVerdict(b) \/ FairRequest(requests'[b])
    BY <1>7, ResetErrorEffect
       DEF OthersKept, SameVerdict, RefusalInv, FairRequest, CanReset
  <2>2. Only(h) /\ job'[h].at # "fail"
    BY <1>7, ResetErrorEffect, IdleFields DEF Frees, Moves
  <2> QED BY <2>1, <2>2, RefusalFrame
<1> QED BY <1>1, <1>2, <1>3, <1>4, <1>5, <1>6, <1>7, Zenon DEF Continue

\* ... and every step of the service.
LEMMA RefusalStep ==
    ASSUME GatewayInv, RefusalInv,
           [GatewayNext]_gatewayVars \/ Restart \/ \E h \in Handlers : AppendRaises(h)
    PROVE  RefusalInv'
<1>1. CASE \E h \in Handlers : Call(h)
  BY <1>1, RefusalCall
<1>2. CASE \E h \in Handlers : Continue(h)
  BY <1>2, RefusalContinue
<1>3. CASE \E a \in ApprovalIds, context \in DirectContexts : CreateDirectly(a, context)
  BY <1>3, OpensEffect, RefusalOpens
<1>4. CASE \/ TimePasses \/ UNCHANGED gatewayVars \/ Restart
           \/ \E h \in Handlers : AppendRaises(h)
  BY <1>4, QuietSteps, RestartEffect, RefusalQuiet
<1> QED BY <1>1, <1>2, <1>3, <1>4 DEF GatewayNext

\* The empty server has refused nothing.
LEMMA RefusalInit == GatewayInit => RefusalInv
<1>0. None # "stored_approval_context_error"
  BY SetsAssumption, GatewayAssumption
<1> QED BY <1>0, IdleFields DEF GatewayInit, Init, NewRequest, RefusalInv, FairRequest

\* A refusal of a pending approval can be lifted, ...
LEMMA RefusalsLiftable ==
    ASSUME RefusalInv
    PROVE  RefusedCanBeReset
BY DEF RefusedCanBeReset, RefusalInv, FairRequest, CanBegin, CanReset

\* ... and an invalid approval was never sent to a provider.
LEMMA InvalidUncalled ==
    ASSUME CallsInv, RefusalInv
    PROVE  InvalidNeverCalled
BY DEF CallsInv, RefusalInv, FairRequest, InvalidNeverCalled

----------------------------------------------------------------------------
(* One live attempt per approval.                                          *)

\* The attempt will have no effect on its approval.
Dead(e) == attempts[e].outcome \in {"unused", "failed", "superseded"}

\* Approval ids are never used twice, so the attempts of one approval id are
\* attempts of one approval, and a success is the last of them.
LivesInv ==
    /\ \A a \in ApprovalIds : requests[a].status # "absent" => origin[a] # "none"
    /\ \A e \in AttemptIds : attempts[e].outcome # "unused" =>
           /\ attempts[e].approval \in ApprovalIds
           /\ origin[attempts[e].approval] # "none"
    /\ \A e \in AttemptIds : attempts[e].outcome = "succeeded" =>
           requests[attempts[e].approval].status \in {"approved", "absent"}
    /\ \A e, f \in AttemptIds :
           e # f /\ attempts[e].approval = attempts[f].approval => Dead(e) \/ Dead(f)

\* A step that ends attempts and begins none, and changes no approval that is
\* approved or absent.
LEMMA LivesFrame ==
    ASSUME LivesInv, origin' = origin,
           \A a \in ApprovalIds :
               /\ requests'[a].status = "absent" <=> requests[a].status = "absent"
               /\ requests[a].status = "approved" => requests'[a].status = "approved",
           \A e \in AttemptIds :
               \/ attempts'[e] = attempts[e]
               \/ /\ attempts[e].outcome # "unused"
                  /\ attempts'[e].outcome \in {"failed", "superseded"}
                  /\ attempts'[e].approval = attempts[e].approval
    PROVE  LivesInv'
<1>1. \A e \in AttemptIds : attempts'[e].outcome # "unused" =>
          attempts[e].outcome # "unused" /\ attempts'[e].approval = attempts[e].approval
  OBVIOUS
<1>2. \A a \in ApprovalIds : requests'[a].status # "absent" => origin'[a] # "none"
  BY DEF LivesInv
<1>3. \A e \in AttemptIds : attempts'[e].outcome # "unused" =>
          /\ attempts'[e].approval \in ApprovalIds
          /\ origin'[attempts'[e].approval] # "none"
  BY <1>1 DEF LivesInv
<1>4. ASSUME NEW e \in AttemptIds, attempts'[e].outcome = "succeeded"
      PROVE  requests'[attempts'[e].approval].status \in {"approved", "absent"}
  <2>1. attempts'[e] = attempts[e]
    BY <1>4
  <2> QED BY <1>4, <2>1 DEF LivesInv
<1>5. \A e \in AttemptIds : /\ attempts'[e].approval = attempts[e].approval
                            /\ Dead(e) => Dead(e)'
  BY DEF Dead
<1>6. (\A e, f \in AttemptIds :
          e # f /\ attempts[e].approval = attempts[f].approval => Dead(e) \/ Dead(f))'
  BY <1>5 DEF LivesInv
<1> QED BY <1>2, <1>3, <1>4, <1>6 DEF LivesInv

\* A new approval has an id of its own.
LEMMA LivesOpens ==
    ASSUME LivesInv, FreshIds, NEW a \in ApprovalIds, Opens(a)
    PROVE  LivesInv'
<1>1. origin[a] = "none"
  BY DEF Opens, Creates, FreshIds
<1>2. /\ attempts' = attempts
      /\ \A b \in ApprovalIds : origin[b] # "none" =>
             origin'[b] # "none" /\ requests'[b] = requests[b]
      /\ \A b \in ApprovalIds : requests'[b].status # "absent" => origin'[b] # "none"
  BY <1>1 DEF LivesInv, Opens, Creates, OthersKept
<1>3. \A e \in AttemptIds : attempts'[e].outcome # "unused" =>
          /\ attempts'[e].approval \in ApprovalIds
          /\ origin'[attempts'[e].approval] # "none"
          /\ requests'[attempts'[e].approval] = requests[attempts'[e].approval]
  BY <1>2 DEF LivesInv
<1> QED BY <1>2, <1>3 DEF LivesInv, Dead

\* A new attempt comes after the end of those before it.
LEMMA LivesApprove ==
    ASSUME GatewayInv, LivesInv, NEW h \in Handlers, NEW a \in ApprovalIds,
           NEW e \in AttemptIds, Approve(h, a, e)
    PROVE  LivesInv'
<1> USE DEF GatewayInv, GatewayTypeOK
<1>1. /\ requests[a].status = "pending" /\ requests'[a].status = "executing"
      /\ OthersKept(a)
      /\ attempts[e].outcome = "unused"
      /\ attempts'[e].outcome = "running"
      /\ attempts'[e].approval = a
      /\ \A f \in AttemptIds \ {e} : attempts'[f] = attempts[f]
      /\ origin' = origin
  BY ApproveEffect
\* The attempts of a before this one are over.
<1>2. ASSUME NEW f \in AttemptIds \ {e}, attempts[f].approval = a
      PROVE  Dead(f)
  <2>1. attempts[f].outcome # "running"
    BY <1>1, <1>2 DEF AttemptInv, RunningIsCurrent
  <2>2. attempts[f].outcome # "succeeded"
    BY <1>1, <1>2 DEF LivesInv
  <2> QED BY <2>1, <2>2 DEF TypeOK, Attempts, Outcomes, Dead
<1>3. (\A f, g \in AttemptIds :
          f # g /\ attempts[f].approval = attempts[g].approval => Dead(f) \/ Dead(g))'
  BY <1>1, <1>2 DEF LivesInv, Dead
<1>4. (\A f \in AttemptIds : attempts[f].outcome = "succeeded" =>
           requests[attempts[f].approval].status \in {"approved", "absent"})'
  <2> SUFFICES ASSUME NEW f \in AttemptIds, attempts'[f].outcome = "succeeded"
               PROVE  requests'[attempts'[f].approval].status \in {"approved", "absent"}
    OBVIOUS
  <2>1. attempts'[f] = attempts[f]
    BY <1>1
  <2>2. /\ attempts[f].approval \in ApprovalIds
        /\ requests[attempts[f].approval].status \in {"approved", "absent"}
    BY <2>1 DEF LivesInv
  <2> QED BY <1>1, <2>1, <2>2 DEF OthersKept
<1>5. (\A f \in AttemptIds : attempts[f].outcome # "unused" =>
           /\ attempts[f].approval \in ApprovalIds
           /\ origin[attempts[f].approval] # "none")'
  BY <1>1 DEF LivesInv
<1>6. (\A b \in ApprovalIds : requests[b].status # "absent" => origin[b] # "none")'
  BY <1>1 DEF LivesInv, OthersKept
<1> QED BY <1>3, <1>4, <1>5, <1>6 DEF LivesInv

\* A success is the last attempt of its approval.
LEMMA LivesFinish ==
    ASSUME GatewayInv, LivesInv, NEW h \in Handlers, Finish(h)
    PROVE  LivesInv'
<1> USE DEF GatewayInv, GatewayTypeOK
<1>1. CASE UNCHANGED <<requests, attempts>>
  BY <1>1, FinishEffect, LivesFrame
<1>2. CASE ~UNCHANGED <<requests, attempts>>
  <2>0. job[h].approval \in ApprovalIds /\ job[h].attempt \in AttemptIds
    BY FinishEffect DEF JobsReady, JobReady, Executing
  <2>1. PICK a \in ApprovalIds, e \in AttemptIds :
          /\ requests[a].status = "executing"
          /\ requests'[a].status = "approved"
          /\ OthersKept(a)
          /\ attempts[e].outcome = "running"
          /\ attempts'[e].outcome = "succeeded"
          /\ attempts'[e].approval = a
          /\ attempts[e].approval = a
          /\ \A f \in AttemptIds \ {e} : attempts'[f] = attempts[f]
          /\ origin' = origin
    BY <1>2, <2>0, FinishEffect DEF IsCurrentAttempt
  <2>2. \A f \in AttemptIds \ {e} : attempts[f].approval = a => Dead(f)
    BY <2>1 DEF LivesInv, Dead
  <2>3. (\A f, g \in AttemptIds :
            f # g /\ attempts[f].approval = attempts[g].approval => Dead(f) \/ Dead(g))'
    BY <2>1, <2>2 DEF LivesInv, Dead
  <2>4. ASSUME NEW f \in AttemptIds, attempts'[f].outcome = "succeeded"
        PROVE  requests'[attempts'[f].approval].status \in {"approved", "absent"}
    <3>1. CASE f = e
      BY <2>1, <3>1
    <3>2. CASE f # e
      <4>1. /\ attempts'[f] = attempts[f]
            /\ attempts[f].approval \in ApprovalIds
            /\ requests[attempts[f].approval].status \in {"approved", "absent"}
        BY <2>1, <2>4, <3>2 DEF LivesInv
      <4> QED BY <2>1, <4>1 DEF OthersKept
    <3> QED BY <3>1, <3>2
  <2>5. (\A f \in AttemptIds : attempts[f].outcome # "unused" =>
             /\ attempts[f].approval \in ApprovalIds
             /\ origin[attempts[f].approval] # "none")'
    BY <2>1 DEF LivesInv
  <2>6. (\A b \in ApprovalIds : requests[b].status # "absent" => origin[b] # "none")'
    BY <2>1 DEF LivesInv, OthersKept
  <2> QED BY <2>3, <2>4, <2>5, <2>6 DEF LivesInv
<1> QED BY <1>1, <1>2

\* A restart ends the attempts that run.
LEMMA LivesRestart ==
    ASSUME GatewayInv, LivesInv, Restarted
    PROVE  LivesInv'
BY DEF GatewayInv, GatewayTypeOK, TypeOK, Attempts, Outcomes, LivesInv, Restarted,
       NewRequest, Dead

\* Every step of the service keeps the attempts of an approval apart.
LEMMA LivesStep ==
    ASSUME GatewayInv, LivesInv,
           \/ [GatewayNext /\ FreshIds]_gatewayVars
           \/ Restart \/ \E h \in Handlers : AppendRaises(h)
    PROVE  LivesInv'
<1> USE DEF GatewayInv, GatewayTypeOK
<1>1. CASE Quiet
  BY <1>1, LivesFrame DEF Quiet, QueueKept, SameVerdict
<1>2. CASE Restart
  BY <1>2, RestartEffect, LivesRestart
<1>3. ASSUME NEW a \in ApprovalIds, FreshIds,
             \/ \E h \in Handlers : ChatRequest(h, a) \/ EvaluateRequest(h, a)
             \/ \E context \in DirectContexts : CreateDirectly(a, context)
      PROVE  LivesInv'
  BY <1>3, OpensEffect, LivesOpens
<1>4. ASSUME NEW h \in Handlers, NEW a \in ApprovalIds, Reject(h, a)
      PROVE  LivesInv'
  BY <1>4, RejectEffect, LivesFrame DEF OthersKept
<1>5. ASSUME NEW h \in Handlers, NEW a \in ApprovalIds, ResetRequest(h, a)
      PROVE  LivesInv'
  BY <1>5, ResetRequestEffect, LivesFrame
<1>6. ASSUME NEW h \in Handlers, RecoverStale(h)
      PROVE  LivesInv'
  <2>1. PICK recovered : Recovers(h, recovered)
    BY <1>6, RecoverStaleEffect
  <2> QED BY <2>1, LivesFrame DEF Recovers
<1>7. ASSUME NEW h \in Handlers,
             ExecuteStoredContext(h) \/ ProviderReturns(h) \/ CheckAttempt(h) \/ ReadConflict(h)
      PROVE  LivesInv'
  BY <1>7, ExecuteEffect, ReturnEffect, CheckEffect, ReadConflictEffect, LivesFrame
<1>8. ASSUME NEW h \in Handlers, Fail(h)
      PROVE  LivesInv'
  BY <1>8, FailEffect, LivesFrame DEF OthersKept, IsCurrentAttempt
<1>9. ASSUME NEW h \in Handlers,
             \/ RecordFailure(h) \/ RecordConflict(h) \/ RecordResolution(h)
             \/ RecordExecution(h) \/ RecordRecovery(h) \/ RecordReset(h)
      PROVE  LivesInv'
  BY <1>9, RecordEffect, LivesFrame DEF Appended
<1>10. ASSUME NEW h \in Handlers, ResetError(h)
       PROVE  LivesInv'
  BY <1>10, ResetErrorEffect, LivesFrame DEF OthersKept, CanReset
<1>11. ASSUME NEW h \in Handlers, Call(h), FreshIds
       PROVE  LivesInv'
  BY <1>3, <1>4, <1>5, <1>6, <1>11, LivesApprove DEF Call
<1>12. ASSUME NEW h \in Handlers, Continue(h)
       PROVE  LivesInv' \/ Quiet
  BY <1>7, <1>8, <1>9, <1>10, <1>12, LivesFinish, QuietSteps DEF Continue
<1> QED BY <1>1, <1>2, <1>3, <1>11, <1>12, QuietSteps DEF GatewayNext

\* The empty server has no attempts.
LEMMA LivesInit == GatewayInit => LivesInv
BY DEF GatewayInit, Init, NewRequest, LivesInv, Dead

----------------------------------------------------------------------------
(* Contexts that were tried and refused.                                   *)

\* A thread that has got past the check of its context holds one that can be
\* executed, and one that has not closes the approval.
TriedJob(j) ==
    /\ j.at \in {"provider", "returned", "finish"} => CanExecute(j.context)
    /\ j.at = "fail" /\ ~CanExecute(j.context) => j.status = "invalid_context"

\* No attempt will be begun for the approval any more.
Closed(status) == status \in {"invalid_context", "rejected", "absent"}

\* The strengthening of OffersAreHonoured: an attempt that failed for its context
\* closed its approval.
TriedInv ==
    /\ \A h \in Handlers : TriedJob(job[h])
    /\ \A e \in AttemptIds :
           attempts[e].outcome = "failed" /\ ~CanExecute(attempts[e].context) =>
               Closed(requests[attempts[e].approval].status)

\* A step that opens no closed approval but one whose id is new, and fails an
\* attempt for its context only together with its approval.
LEMMA TriedFrame ==
    ASSUME LivesInv, TriedInv,
           \A h \in Handlers : job'[h] = job[h] \/ TriedJob(job'[h]),
           \A a \in ApprovalIds :
               Closed(requests[a].status) => Closed(requests'[a].status) \/ origin[a] = "none",
           \A e \in AttemptIds :
               \/ attempts'[e] = attempts[e]
               \/ attempts'[e].outcome # "failed"
               \/ CanExecute(attempts'[e].context)
               \/ Closed(requests'[attempts'[e].approval].status)
    PROVE  TriedInv'
<1>1. \A h \in Handlers : TriedJob(job'[h])
  BY DEF TriedInv
<1>2. ASSUME NEW e \in AttemptIds, attempts'[e].outcome = "failed",
             ~CanExecute(attempts'[e].context)
      PROVE  Closed(requests'[attempts'[e].approval].status)
  <2>1. CASE attempts'[e] = attempts[e]
    <3>1. /\ attempts[e].approval \in ApprovalIds
          /\ origin[attempts[e].approval] # "none"
          /\ Closed(requests[attempts[e].approval].status)
      BY <1>2, <2>1 DEF LivesInv, TriedInv
    <3> QED BY <2>1, <3>1
  <2>2. CASE attempts'[e] # attempts[e]
    BY <1>2, <2>2
  <2> QED BY <2>1, <2>2
<1> QED BY <1>1, <1>2 DEF TriedInv, TriedJob

\* A step of one thread after which it holds no attempt that it has yet to
\* settle, and no attempt has failed.
LEMMA TriedAway ==
    ASSUME LivesInv, TriedInv, NEW h \in Handlers, Only(h),
           job'[h].at \notin {"provider", "returned", "finish", "fail"},
           \A a \in ApprovalIds :
               Closed(requests[a].status) => Closed(requests'[a].status) \/ origin[a] = "none",
           \A e \in AttemptIds :
               attempts'[e] = attempts[e] \/ attempts'[e].outcome # "failed"
    PROVE  TriedInv'
<1>1. TriedJob(job'[h])
  BY DEF TriedJob
<1>2. \A g \in Handlers : job'[g] = job[g] \/ TriedJob(job'[g])
  BY <1>1 DEF Only
<1> QED BY <1>2, TriedFrame

\* A new approval has no attempts.
LEMMA TriedOpens ==
    ASSUME LivesInv, TriedInv, FreshIds, NEW a \in ApprovalIds, Opens(a)
    PROVE  TriedInv'
<1>1. /\ origin[a] = "none" /\ OthersKept(a)
      /\ attempts' = attempts
  BY DEF Opens, Creates, FreshIds
<1>2. \A b \in ApprovalIds :
          Closed(requests[b].status) => Closed(requests'[b].status) \/ origin[b] = "none"
  BY <1>1 DEF OthersKept
<1>3. \A h \in Handlers : job'[h] = job[h] \/ TriedJob(job'[h])
  BY DEF Opens, Only, TriedJob
<1> QED BY <1>1, <1>2, <1>3, TriedFrame

\* Steps without effect, and faults, open nothing.
LEMMA TriedQuiet ==
    ASSUME LivesInv, TriedInv, Quiet
    PROVE  TriedInv'
<1>1. TriedJob(IdleJob)
  BY IdleFields DEF TriedJob
<1>2. \A h \in Handlers : job'[h] = job[h] \/ TriedJob(job'[h])
  BY <1>1 DEF Quiet
<1>3. /\ attempts' = attempts
      /\ \A a \in ApprovalIds : requests'[a].status = requests[a].status
  BY DEF Quiet, QueueKept, SameVerdict
<1> QED BY <1>2, <1>3, TriedFrame

LEMMA TriedRestart ==
    ASSUME LivesInv, TriedInv, Restarted
    PROVE  TriedInv'
<1>1. TriedJob(IdleJob)
  BY IdleFields DEF TriedJob
<1>2. \A a \in ApprovalIds : requests'[a].status = "absent"
  BY DEF Restarted, NewRequest
<1>3. \A e \in AttemptIds : attempts'[e].outcome = "failed" =>
          attempts'[e].approval \in ApprovalIds
  BY DEF Restarted, LivesInv
<1> QED BY <1>1, <1>2, <1>3 DEF Restarted, TriedInv, TriedJob, Closed

\* A failure is recorded with the attempt, not with another context.
LEMMA FailKeepsContext ==
    ASSUME NEW h \in Handlers, Fail(h), ~UNCHANGED <<requests, attempts>>
    PROVE  attempts' = [attempts EXCEPT ![job[h].attempt].outcome = "failed"]
BY DEF Fail, Refused, FailExecution, Settle, vars

\* A new API call tries nothing yet.
LEMMA TriedCall ==
    ASSUME GatewayInv, LivesInv, TriedInv, FreshIds, NEW h \in Handlers, Call(h)
    PROVE  TriedInv'
<1>1. ASSUME NEW a \in ApprovalIds, Reject(h, a)
      PROVE  TriedInv'
  BY <1>1, RejectEffect, TriedAway DEF OthersKept, Closed
<1>2. ASSUME NEW a \in ApprovalIds, ResetRequest(h, a)
      PROVE  TriedInv'
  BY <1>2, ResetRequestEffect, TriedAway
<1>3. ASSUME NEW a \in ApprovalIds, ChatRequest(h, a) \/ EvaluateRequest(h, a)
      PROVE  TriedInv'
  BY <1>3, TriedOpens, OpensEffect
<1>4. ASSUME NEW a \in ApprovalIds, NEW e \in AttemptIds, Approve(h, a, e)
      PROVE  TriedInv'
  <2>1. /\ requests[a].status = "pending"
        /\ OthersKept(a)
        /\ attempts'[e].outcome = "running"
        /\ \A f \in AttemptIds \ {e} : attempts'[f] = attempts[f]
        /\ Only(h) /\ job'[h].at = "execute"
    BY <1>4, ApproveEffect
  <2> QED BY <2>1, TriedAway DEF OthersKept, Closed
<1>5. CASE RecoverStale(h)
  <2>1. PICK recovered : Recovers(h, recovered)
    BY <1>5, RecoverStaleEffect
  <2>2. \A a \in ApprovalIds : Closed(requests[a].status) => requests'[a] = requests[a]
    BY <2>1 DEF Recovers, Closed
  <2>3. /\ Only(h) /\ job'[h].at = "recovered"
        /\ \A e \in AttemptIds : \/ attempts'[e] = attempts[e]
                                 \/ attempts'[e].outcome # "failed"
    BY <2>1 DEF Recovers
  <2> QED BY <2>2, <2>3, TriedAway
<1> QED BY <1>1, <1>2, <1>3, <1>4, <1>5 DEF Call

\* A later step of a handler fails an attempt for its context only by closing the
\* approval.
LEMMA TriedContinue ==
    ASSUME GatewayInv, OwnerInv, LivesInv, TriedInv, NEW h \in Handlers, Continue(h)
    PROVE  TriedInv'
<1> USE DEF GatewayInv, GatewayTypeOK
<1>0. TriedJob(job[h]) /\ OwnedJob(job[h]) /\ JobReady(job[h])
  BY DEF TriedInv, OwnerInv, JobsReady
\* The queue is left alone.
<1>k. ASSUME UNCHANGED <<requests, attempts>>, Only(h), TriedJob(job'[h])
      PROVE  TriedInv'
  BY <1>k, TriedFrame DEF Only
<1>1. CASE AttachChatContext(h)
  BY <1>1, QuietSteps, TriedQuiet
<1>2. CASE ExecuteStoredContext(h)
  <2>1. /\ UNCHANGED <<requests, attempts>>
        /\ \/ Moves(h, "finish") /\ CanExecute(job[h].context)
           \/ Moves(h, "provider") /\ CanExecute(job[h].context)
           \/ Raises(h, "stored_approval_context_error", "no", "invalid_context")
    <3>1. GoTo(h, "finish") => Moves(h, "finish")
      BY GoToMoves DEF Steps
    <3>2. GoTo(h, "provider") => Moves(h, "provider")
      BY GoToMoves DEF Steps
    <3>3. Raise(h, "stored_approval_context_error", "no", "invalid_context")
              => Raises(h, "stored_approval_context_error", "no", "invalid_context")
      BY RaiseRaises
    <3> QED BY <1>2, <3>1, <3>2, <3>3 DEF ExecuteStoredContext, CanExecute, vars
  <2>2. Only(h) /\ TriedJob(job'[h])
    BY <2>1 DEF Moves, Raises, TriedJob
  <2> QED BY <1>k, <2>1, <2>2
<1>3. CASE ProviderReturns(h) \/ CheckAttempt(h)
  <2>1. /\ UNCHANGED <<requests, attempts>>
        /\ job[h].at \in {"provider", "returned"}
        /\ \/ Moves(h, "returned") \/ Moves(h, "finish") \/ Moves(h, "conflict")
           \/ RaisesProviderError(h) \/ Frees(h)
    BY <1>3, ReturnEffect, CheckEffect
  <2>2. CanExecute(job[h].context)
    BY <1>0, <2>1 DEF TriedJob
  <2>3. Only(h) /\ TriedJob(job'[h])
    BY <2>1, <2>2, IdleFields DEF Moves, Raises, RaisesProviderError, Frees, TriedJob
  <2> QED BY <1>k, <2>1, <2>3
<1>4. CASE Finish(h)
  <2>1. CASE Moves(h, "conflict") /\ UNCHANGED <<requests, attempts>>
    BY <1>k, <2>1 DEF Moves, TriedJob
  <2>2. CASE ~(Moves(h, "conflict") /\ UNCHANGED <<requests, attempts>>)
    <3>1. /\ requests[job[h].approval].status = "executing"
          /\ OthersKept(job[h].approval)
          /\ attempts'[job[h].attempt].outcome = "succeeded"
          /\ \A f \in AttemptIds \ {job[h].attempt} : attempts'[f] = attempts[f]
          /\ Only(h) /\ job'[h].at = "resolved"
      BY <1>4, <2>2, FinishEffect DEF IsCurrentAttempt
    <3>2. \A a \in ApprovalIds : Closed(requests[a].status) => requests'[a] = requests[a]
      BY <3>1 DEF OthersKept, Closed
    <3>3. \A e \in AttemptIds : \/ attempts'[e] = attempts[e]
                               \/ attempts'[e].outcome # "failed"
      BY <3>1
    <3> QED BY <3>1, <3>2, <3>3, TriedAway
  <2> QED BY <2>1, <2>2
<1>5. CASE Fail(h)
  <2>1. CASE Moves(h, "conflict") /\ UNCHANGED <<requests, attempts>>
    BY <1>k, <2>1 DEF Moves, TriedJob
  <2>2. CASE ~(Moves(h, "conflict") /\ UNCHANGED <<requests, attempts>>)
    <3>1. /\ job[h].at = "fail" /\ job[h].attempt \in AttemptIds
          /\ job[h].approval \in ApprovalIds
      BY <1>0, <1>5, FailEffect DEF JobReady, Executing
    <3>2. /\ requests[job[h].approval].status = "executing"
          /\ requests'[job[h].approval].status = job[h].status
          /\ OthersKept(job[h].approval)
          /\ attempts'[job[h].attempt].approval = job[h].approval
          /\ \A f \in AttemptIds \ {job[h].attempt} : attempts'[f] = attempts[f]
          /\ Moves(h, "failed")
      BY <1>5, <2>2, FailEffect DEF IsCurrentAttempt
    <3>3. attempts'[job[h].attempt].context = job[h].context
      <4>1. attempts' = [attempts EXCEPT ![job[h].attempt].outcome = "failed"]
        <5>1. requests' # requests
          BY <3>1, <3>2, <1>0 DEF JobReady
        <5> QED BY <1>5, <5>1, FailKeepsContext
      <4>2. attempts'[job[h].attempt].context = attempts[job[h].attempt].context
        BY <3>1, <4>1 DEF TypeOK, Attempts
      <4> QED BY <1>0, <3>1, <4>2 DEF OwnedJob, Executing
    <3>4. ~CanExecute(job[h].context) => Closed(requests'[job[h].approval].status)
      BY <1>0, <3>1, <3>2 DEF TriedJob, Closed
    <3>5. \A a \in ApprovalIds : Closed(requests[a].status) => requests'[a] = requests[a]
      BY <3>2 DEF OthersKept, Closed
    <3>6. \A e \in AttemptIds : \/ attempts'[e] = attempts[e]
                               \/ CanExecute(attempts'[e].context)
                               \/ Closed(requests'[attempts'[e].approval].status)
      BY <3>2, <3>3, <3>4
    <3>7. \A g \in Handlers : job'[g] = job[g] \/ TriedJob(job'[g])
      BY <3>2 DEF Moves, Only, TriedJob
    <3> QED BY <3>5, <3>6, <3>7, TriedFrame
  <2> QED BY <2>1, <2>2
<1>6. CASE ReadConflict(h)
  BY <1>6, <1>k, ReadConflictEffect DEF TriedJob
<1>7. CASE \/ RecordFailure(h) \/ RecordConflict(h) \/ RecordResolution(h)
           \/ RecordExecution(h) \/ RecordRecovery(h) \/ RecordReset(h)
  <2>1. Appended(h)
    BY <1>7, RecordEffect
  <2>2. UNCHANGED <<requests, attempts>> /\ Only(h) /\ TriedJob(job'[h])
    BY <2>1, IdleFields DEF Appended, Moves, TriedJob
  <2> QED BY <1>k, <2>2
<1>8. CASE ResetError(h)
  <2>1. /\ Only(h) /\ job'[h].at \in {"idle", "reset_done"}
        /\ attempts' = attempts
        /\ \/ requests' = requests
           \/ /\ requests[job[h].approval].status = "pending"
              /\ OthersKept(job[h].approval)
    BY <1>8, ResetErrorEffect, IdleFields DEF Frees, Moves, CanReset
  <2>2. \A a \in ApprovalIds : Closed(requests[a].status) => requests'[a] = requests[a]
    BY <2>1 DEF OthersKept, Closed
  <2> QED BY <2>1, <2>2, TriedAway
<1> QED BY <1>1, <1>2, <1>3, <1>4, <1>5, <1>6, <1>7, <1>8, Zenon DEF Continue

\* Every step of the service keeps what was found out.
LEMMA TriedStep ==
    ASSUME GatewayInv, OwnerInv, LivesInv, TriedInv,
           \/ [GatewayNext /\ FreshIds]_gatewayVars
           \/ Restart \/ \E h \in Handlers : AppendRaises(h)
    PROVE  TriedInv'
<1>1. CASE Restart
  BY <1>1, RestartEffect, TriedRestart
<1>2. ASSUME FreshIds, NEW h \in Handlers, Call(h)
      PROVE  TriedInv'
  BY <1>2, TriedCall
<1>3. CASE \E h \in Handlers : Continue(h)
  BY <1>3, TriedContinue
<1>4. ASSUME FreshIds, NEW a \in ApprovalIds, NEW context \in DirectContexts,
             CreateDirectly(a, context)
      PROVE  TriedInv'
  BY <1>4, OpensEffect, TriedOpens
<1>5. CASE \/ TimePasses \/ UNCHANGED gatewayVars
           \/ \E h \in Handlers : AppendRaises(h)
  BY <1>5, QuietSteps, TriedQuiet
<1> QED BY <1>1, <1>2, <1>3, <1>4, <1>5 DEF GatewayNext

\* The empty server has tried nothing.
LEMMA TriedInit == GatewayInit => TriedInv
BY IdleFields DEF GatewayInit, Init, TriedInv, TriedJob

\* The flags of an approval agree with what the queue and the executor will do.
LEMMA OffersFromInv ==
    ASSUME RefusalInv, TriedInv
    PROVE  OffersAreHonoured
<1> USE DEF CanBegin, CanReject
<1>0. None \notin {"chat_completion", "policy_evaluation"}
  BY SetsAssumption, GatewayAssumption
<1>1. ASSUME NEW a \in ApprovalIds, CanBegin(a), CanExecute(requests[a].context)
      PROVE  OffersResolve(a)
  BY <1>0, <1>1 DEF CanExecute, OffersResolve, ResolutionMode, ContextType, RefusedChats
<1>2. ASSUME NEW a \in ApprovalIds, OffersResolve(a)
      PROVE  CanBegin(a) /\ RecommendedAction(a) # "operator_review"
  BY <1>2 DEF RecommendedAction, OffersResolve, RefusalInv, FairRequest
<1>3. ASSUME NEW a \in ApprovalIds, OffersResolve(a), ~CanExecute(requests[a].context)
      PROVE  /\ requests[a].context \in RefusedChats
             /\ \A e \in AttemptIds :
                    (/\ attempts[e].approval = a
                     /\ attempts[e].context = requests[a].context) =>
                        attempts[e].outcome # "failed"
  <2>1. requests[a].status = "pending"
    BY <1>3 DEF OffersResolve
  <2>2. requests[a].context \in RefusedChats
    BY <1>0, <1>3, <2>1 DEF CanExecute, OffersResolve, ResolutionMode, ContextType
  <2>3. ASSUME NEW e \in AttemptIds, attempts[e].approval = a,
               attempts[e].context = requests[a].context
        PROVE  attempts[e].outcome # "failed"
    BY <1>3, <2>1, <2>3 DEF TriedInv, Closed
  <2> QED BY <2>2, <2>3
<1>4. ASSUME NEW a \in ApprovalIds, RecommendedAction(a) = "retry"
      PROVE  CanBegin(a)
  BY <1>4 DEF RecommendedAction, RefusalInv, FairRequest
<1> QED BY <1>1, <1>2, <1>3, <1>4 DEF OffersAreHonoured, OffersReject

----------------------------------------------------------------------------
(* What a reset handler has seen.                                          *)

\* The copy a reset handler holds is of an attempt that was begun, and as long
\* as the approval names that attempt its refusal is the one in the copy.
SeenFits(j) ==
    /\ requests[j.approval].status # "absent"
    /\ j.seen.attempt \in AttemptIds => attempts[j.seen.attempt].outcome # "unused"
    /\ j.seen.status = "pending" /\ j.seen.attempt = requests[j.approval].attempt =>
           /\ requests[j.approval].status \in {"pending", "rejected"}
           /\ requests[j.approval].error = j.seen.error
           /\ requests[j.approval].status = "pending"
                /\ requests[j.approval].retryable = "no" => j.seen.retryable = "no"

\* Every reset handler holds such a copy, and stored approvals name attempts
\* that were begun.
SeenInv ==
    /\ \A h \in Handlers : job[h].at = "reset" => SeenFits(job[h])
    /\ \A a \in ApprovalIds : requests[a].attempt \in AttemptIds =>
           attempts[requests[a].attempt].outcome # "unused"

\* An approval is stored, not executing before or after the step, and gains no
\* refusal; or another attempt is begun; or what was executing ends.
Ages(a) ==
    \/ SameVerdict(a)
    \/ /\ requests[a].status = "absent"
       /\ requests'[a].status # "absent"
       /\ requests'[a].attempt = None
    \/ /\ requests'[a].status \in {"pending", "rejected"}
       /\ requests[a].status \in {"pending", "invalid_context"}
       /\ requests'[a].attempt = requests[a].attempt
       /\ requests'[a].error = requests[a].error
       /\ requests'[a].retryable # "no"
    \/ /\ requests[a].status = "executing"
       /\ requests'[a].status # "absent"
       /\ requests'[a].attempt = requests[a].attempt
    \/ /\ requests[a].status # "absent"
       /\ requests'[a].status # "absent"
       /\ requests'[a].attempt \in AttemptIds
       /\ attempts[requests'[a].attempt].outcome = "unused"
       /\ attempts'[requests'[a].attempt].outcome # "unused"

\* A step in which every approval ages keeps the copies that fit, and may add
\* one.
LEMMA SeenFrame ==
    ASSUME GatewayInv, SeenInv,
           \A a \in ApprovalIds : Ages(a),
           \A e \in AttemptIds :
               attempts'[e].outcome = "unused" => attempts[e].outcome = "unused",
           \A h \in Handlers : \/ job'[h] = job[h]
                               \/ job'[h].at # "reset"
                               \/ SeenFits(job[h])'
    PROVE  SeenInv'
<1> USE DEF GatewayInv, GatewayTypeOK
<1>0. None \notin AttemptIds
  BY SetsAssumption
<1>1. ASSUME NEW h \in Handlers, job'[h].at = "reset"
      PROVE  SeenFits(job[h])'
  <2>1. CASE job'[h] = job[h]
    <3>1. SeenFits(job[h])
      BY <1>1, <2>1 DEF SeenInv
    <3> DEFINE a == job[h].approval
    <3>2. a \in ApprovalIds /\ job[h].seen.attempt \in AttemptIds \cup {None}
      BY <1>1, <2>1 DEF JobsReady, JobReady, Jobs
    <3>3. Ages(a)
      BY <3>2
    <3>4. requests'[a].status # "absent"
      BY <3>1, <3>3 DEF SeenFits, Ages, SameVerdict
    <3>5. job[h].seen.attempt \in AttemptIds =>
              attempts'[job[h].seen.attempt].outcome # "unused"
      BY <3>1 DEF SeenFits
    <3>6. ASSUME job[h].seen.status = "pending",
                 job[h].seen.attempt = requests'[a].attempt
          PROVE  /\ requests'[a].status \in {"pending", "rejected"}
                 /\ requests'[a].error = job[h].seen.error
                 /\ requests'[a].status = "pending" /\ requests'[a].retryable = "no"
                        => job[h].seen.retryable = "no"
      <4>1. job[h].seen.attempt = requests[a].attempt
        BY <1>0, <3>1, <3>3, <3>6 DEF SeenFits, Ages, SameVerdict
      <4>2. /\ requests[a].status \in {"pending", "rejected"}
            /\ requests[a].error = job[h].seen.error
            /\ requests[a].status = "pending" /\ requests[a].retryable = "no"
                   => job[h].seen.retryable = "no"
        BY <3>1, <3>6, <4>1 DEF SeenFits
      <4> QED BY <3>1, <3>3, <3>6, <4>1, <4>2 DEF SeenFits, Ages, SameVerdict
    <3> QED BY <2>1, <3>4, <3>5, <3>6 DEF SeenFits
  <2> QED BY <1>1, <2>1
<1>2. ASSUME NEW a \in ApprovalIds, requests'[a].attempt \in AttemptIds
      PROVE  attempts'[requests'[a].attempt].outcome # "unused"
  <2>1. Ages(a) /\ (requests[a].attempt \in AttemptIds =>
                        attempts[requests[a].attempt].outcome # "unused")
    BY DEF SeenInv
  <2> QED BY <1>0, <1>2, <2>1 DEF Ages, SameVerdict
<1> QED BY <1>1, <1>2 DEF SeenInv

\* Every step of the service does.
LEMMA SeenStep ==
    ASSUME GatewayInv, SeenInv,
           \/ [GatewayNext]_gatewayVars
           \/ Restart \/ \E h \in Handlers : AppendRaises(h)
    PROVE  SeenInv'
<1> USE DEF GatewayInv, GatewayTypeOK
<1>1. CASE Quiet
  <2>1. \A h \in Handlers : job'[h] = job[h] \/ job'[h].at # "reset"
    BY <1>1, IdleFields DEF Quiet
  <2> QED BY <1>1, <2>1, SeenFrame DEF Quiet, QueueKept, Ages
<1>2. CASE Restart
  <2>1. Restarted /\ None \notin AttemptIds
    BY <1>2, RestartEffect, SetsAssumption
  <2> QED BY <2>1, IdleFields DEF Restarted, NewRequest, SeenInv
<1>3. ASSUME NEW a \in ApprovalIds,
             \/ \E h \in Handlers : ChatRequest(h, a) \/ EvaluateRequest(h, a)
             \/ \E context \in DirectContexts : CreateDirectly(a, context)
      PROVE  SeenInv'
  <2>1. Opens(a)
    BY <1>3, OpensEffect
  <2>2. \A b \in ApprovalIds : Ages(b)
    BY <2>1 DEF Opens, Creates, OthersKept, Ages, SameVerdict
  <2>3. \A h \in Handlers : job'[h] = job[h] \/ job'[h].at # "reset"
    BY <2>1 DEF Opens, Only
  <2> QED BY <2>1, <2>2, <2>3, SeenFrame DEF Opens, Creates
<1>4. ASSUME NEW h \in Handlers, NEW a \in ApprovalIds, Reject(h, a)
      PROVE  SeenInv'
  <2>1. \A b \in ApprovalIds : Ages(b)
    BY <1>4, RejectEffect DEF OthersKept, Ages, SameVerdict
  <2> QED BY <1>4, <2>1, RejectEffect, SeenFrame DEF Only
<1>5. ASSUME NEW h \in Handlers, NEW a \in ApprovalIds, ResetRequest(h, a)
      PROVE  SeenInv'
  <2>1. /\ UNCHANGED <<requests, attempts>> /\ Only(h) /\ job'[h].approval = a
        /\ job'[h].seen = Seen(a) /\ requests[a].status # "absent"
    BY <1>5, ResetRequestEffect
  <2>2. SeenFits(job[h])'
    BY <2>1 DEF SeenFits, Seen, SeenInv
  <2> QED BY <2>1, <2>2, SeenFrame DEF Only, Ages, SameVerdict
<1>6. ASSUME NEW h \in Handlers, NEW a \in ApprovalIds, NEW e \in AttemptIds,
             Approve(h, a, e)
      PROVE  SeenInv'
  <2>1. \A b \in ApprovalIds : Ages(b)
    BY <1>6, ApproveEffect DEF OthersKept, Ages, SameVerdict
  <2>2. \A f \in AttemptIds : attempts'[f].outcome = "unused" => attempts[f].outcome = "unused"
    BY <1>6, ApproveEffect
  <2>3. \A g \in Handlers : job'[g] = job[g] \/ job'[g].at # "reset"
    BY <1>6, ApproveEffect DEF Only
  <2> QED BY <2>1, <2>2, <2>3, SeenFrame
<1>7. ASSUME NEW h \in Handlers, RecoverStale(h)
      PROVE  SeenInv'
  <2>1. PICK recovered : Recovers(h, recovered)
    BY <1>7, RecoverStaleEffect
  <2>2. \A b \in ApprovalIds : Ages(b)
    BY <2>1 DEF Recovers, Ages, SameVerdict
  <2>3. \A g \in Handlers : job'[g] = job[g] \/ job'[g].at # "reset"
    BY <2>1 DEF Recovers, Only
  <2> QED BY <2>1, <2>2, <2>3, SeenFrame DEF Recovers
<1>8. ASSUME NEW h \in Handlers,
             ExecuteStoredContext(h) \/ ProviderReturns(h) \/ CheckAttempt(h) \/ ReadConflict(h)
      PROVE  SeenInv'
  <2>1. UNCHANGED <<requests, attempts>>
    BY <1>8, ExecuteEffect, ReturnEffect, CheckEffect, ReadConflictEffect
  <2>2. Only(h) /\ job'[h].at # "reset"
    BY <1>8, ExecuteEffect, ReturnEffect, CheckEffect, ReadConflictEffect, IdleFields
       DEF Moves, Raises, RaisesProviderError, Frees
  <2> QED BY <2>1, <2>2, SeenFrame DEF Only, Ages, SameVerdict
<1>9. ASSUME NEW h \in Handlers, Finish(h) \/ Fail(h)
      PROVE  SeenInv'
  <2>1. \A b \in ApprovalIds : Ages(b)
    BY <1>9, FinishEffect, FailEffect DEF OthersKept, IsCurrentAttempt, Ages, SameVerdict
  <2>2. \A f \in AttemptIds : attempts'[f].outcome = "unused" => attempts[f].outcome = "unused"
    BY <1>9, FinishEffect, FailEffect
  <2>3. Only(h) /\ job'[h].at # "reset"
    BY <1>9, FinishEffect, FailEffect DEF Moves
  <2> QED BY <2>1, <2>2, <2>3, SeenFrame DEF Only
<1>10. ASSUME NEW h \in Handlers,
             \/ RecordFailure(h) \/ RecordConflict(h) \/ RecordResolution(h)
             \/ RecordExecution(h) \/ RecordRecovery(h) \/ RecordReset(h)
      PROVE  SeenInv'
  <2>1. Appended(h)
    BY <1>10, RecordEffect
  <2>2. UNCHANGED <<requests, attempts>> /\ Only(h) /\ job'[h].at # "reset"
    BY <2>1, IdleFields DEF Appended, Moves
  <2> QED BY <2>2, SeenFrame DEF Only, Ages, SameVerdict
<1>11. ASSUME NEW h \in Handlers, ResetError(h)
       PROVE  SeenInv'
  <2>1. \A b \in ApprovalIds : Ages(b)
    BY <1>11, ResetErrorEffect DEF OthersKept, CanReset, Ages, SameVerdict
  <2>2. Only(h) /\ job'[h].at # "reset" /\ attempts' = attempts
    BY <1>11, ResetErrorEffect, IdleFields DEF Frees, Moves
  <2> QED BY <2>1, <2>2, SeenFrame DEF Only
<1>12. ASSUME NEW h \in Handlers, Call(h)
       PROVE  SeenInv'
  BY <1>3, <1>4, <1>5, <1>6, <1>7, <1>12 DEF Call
<1>13. ASSUME NEW h \in Handlers, Continue(h)
       PROVE  SeenInv'
  BY <1>1, <1>8, <1>9, <1>10, <1>11, <1>13, QuietSteps DEF Continue
<1> QED BY <1>1, <1>2, <1>3, <1>12, <1>13, QuietSteps DEF GatewayNext

\* Nobody is in a reset at first.
LEMMA SeenInit == GatewayInit => SeenInv
BY IdleFields, SetsAssumption DEF GatewayInit, Init, NewRequest, SeenInv

----------------------------------------------------------------------------
(* The evidence log.                                                       *)

\* Events about the end of an attempt, or about who no longer holds it.
Ends == {"approval_execution_failed", "approval_execution_stale_recovered",
         "approval_executed", "approval_execution_attempt_conflict"}

\* What the events say of approvals and attempts, as far as it is used below.
Entries ==
    [type : {"approval_execution_failed"}, approval : ApprovalIds,
     attempt : AttemptIds, status : Statuses, error : Errors \cup {None},
     retryable : Verdicts, domain : {FailureDomain(error) : error \in Errors \cup {None}}]
    \cup [type : {"approval_execution_attempt_conflict"}, approval : ApprovalIds,
          attempt : AttemptIds, currentAttempt : AttemptIds \cup {None},
          currentStatus : Statuses]
    \cup [type : {"approval_resolved"}, approval : ApprovalIds,
          attempt : AttemptIds \cup {None}, status : Statuses]
    \cup [type : {"approval_executed"}, approval : ApprovalIds, attempt : AttemptIds]
    \cup [type : {"approval_execution_stale_recovered"}, approval : ApprovalIds,
          attempt : AttemptIds, error : Errors \cup {None}]
    \cup [type : {"approval_execution_error_reset"}, approval : ApprovalIds,
          previousError : Errors \cup {None}, previousRetryable : Verdicts]

\* An event of this type names the attempt.
Told(type, e) == \E i \in DOMAIN log : log[i].type = type /\ log[i].attempt = e

\* The resolution of the approval is in the log, ...
Resolved(a) == \E i \in DOMAIN log : log[i].type = "approval_resolved" /\ log[i].approval = a

\* ... or its approval by this attempt.
ResolvedBy(e) ==
    \E i \in DOMAIN log : /\ log[i].type = "approval_resolved"
                          /\ log[i].attempt = e
                          /\ log[i].status = "approved"

\* Two events that must not both be in the log.
SameSubject(r, s) ==
    /\ r.type = s.type
    /\ \/ r.type = "approval_resolved" /\ r.approval = s.approval
       \/ r.type \in Ends /\ r.attempt = s.attempt

\* An event says how an attempt or an approval ended.
TrueEntry(r) ==
    /\ r.type \in Ends => r.attempt \in AttemptIds
    /\ r.type = "approval_execution_failed" => attempts[r.attempt].outcome = "failed"
    /\ r.type = "approval_execution_stale_recovered"
           => attempts[r.attempt].outcome = "superseded"
    /\ r.type = "approval_executed"
           => attempts[r.attempt].outcome = "succeeded" /\ provider[r.attempt] = "ok"
    /\ r.type = "approval_execution_attempt_conflict"
           => attempts[r.attempt].outcome # "unused"
    /\ r.type = "approval_resolved" =>
           /\ r.approval \in ApprovalIds
           /\ origin[r.approval] # "none"
           /\ r.status \in {"approved", "rejected"}
           /\ requests[r.approval].status \in {r.status, "absent"}

\* The log is typed and true, and tells every end once.
LogInv ==
    /\ log \in Seq(Entries)
    /\ \A i \in DOMAIN log : TrueEntry(log[i])
    /\ \A i, j \in DOMAIN log : SameSubject(log[i], log[j]) => i = j
    /\ ExecutionFollowsResolution

\* An append leaves the events before it where they are.
LEMMA LogGrows ==
    ASSUME log \in Seq(Entries), NEW event \in Entries, Record(event)
    PROVE  /\ log' \in Seq(Entries)
           /\ DOMAIN log' = 1..(Len(log) + 1)
           /\ DOMAIN log = 1..Len(log)
           /\ Len(log) \in Nat
           /\ \A i \in 1..Len(log) : log'[i] = log[i]
           /\ log'[Len(log) + 1] = event
BY DEF Record

\* What is told after an append was told before or is what the event tells.
LEMMA Tells ==
    ASSUME log \in Seq(Entries), NEW event \in Entries, Record(event)
    PROVE  /\ \A type, e : Told(type, e)' =>
                  Told(type, e) \/ (event.type = type /\ event.attempt = e)
           /\ \A a : Resolved(a)' =>
                  Resolved(a) \/ (event.type = "approval_resolved" /\ event.approval = a)
           /\ \A e : ResolvedBy(e) => ResolvedBy(e)'
           /\ \A type, e : Told(type, e) => Told(type, e)'
           /\ \A a : Resolved(a) => Resolved(a)'
           /\ event.type = "approval_resolved" => Resolved(event.approval)'
           /\ (event.type = "approval_resolved" /\ event.status = "approved")
                  => ResolvedBy(event.attempt)'
           /\ Told(event.type, event.attempt)'
<1> DEFINE n == Len(log) + 1
<1>1. /\ DOMAIN log' = 1..n /\ DOMAIN log = 1..Len(log) /\ Len(log) \in Nat
      /\ \A i \in 1..Len(log) : log'[i] = log[i]
      /\ log'[n] = event
  BY LogGrows
<1>2. /\ n \in DOMAIN log'
      /\ \A i \in DOMAIN log' : i \in DOMAIN log \/ i = n
      /\ \A i \in DOMAIN log : i \in DOMAIN log' /\ log'[i] = log[i]
  BY <1>1
<1> HIDE DEF n
<1> QED BY <1>1, <1>2 DEF Told, Resolved, ResolvedBy

\* The step keeps what the log tells true: settled attempts and resolved
\* approvals stay as they are, unless a restart forgets the approvals.
Keeps ==
    /\ \A e \in AttemptIds :
           /\ attempts[e].outcome \in Settled => attempts'[e].outcome = attempts[e].outcome
           /\ attempts'[e].outcome = "unused" => attempts[e].outcome = "unused"
           /\ attempts[e].outcome = "succeeded" /\ provider[e] = "ok" => provider'[e] = "ok"
    /\ \A a \in ApprovalIds :
           /\ requests[a].status \in {"approved", "rejected"} =>
                  requests'[a].status \in {requests[a].status, "absent"}
           /\ requests[a].status = "absent" /\ origin[a] # "none" =>
                  requests'[a].status = "absent"
           /\ origin[a] # "none" => origin'[a] # "none"

\* What an event says stays true.
LEMMA TrueStays ==
    ASSUME NEW r, TrueEntry(r), Keeps
    PROVE  TrueEntry(r)'
BY DEF TrueEntry, Keeps, Settled, Ends

\* An append of a true event about something new keeps the log true.
LEMMA LogStep ==
    ASSUME LogInv, Keeps,
           \/ log' = log
           \/ \E event \in Entries :
                  /\ Record(event)
                  /\ TrueEntry(event)'
                  /\ event.type = "approval_resolved" => ~Resolved(event.approval)
                  /\ event.type \in Ends => ~Told(event.type, event.attempt)
                  /\ event.type = "approval_executed" => ResolvedBy(event.attempt)
    PROVE  LogInv'
<1>1. CASE log' = log
  BY <1>1, TrueStays DEF LogInv, ExecutionFollowsResolution, Events
<1>2. ASSUME NEW event \in Entries,
             Record(event), TrueEntry(event)',
             event.type = "approval_resolved" => ~Resolved(event.approval),
             event.type \in Ends => ~Told(event.type, event.attempt),
             event.type = "approval_executed" => ResolvedBy(event.attempt)
      PROVE  LogInv'
  <2> DEFINE n == Len(log) + 1
  <2>0. log \in Seq(Entries)
    BY DEF LogInv
  <2>1. /\ log' \in Seq(Entries)
        /\ DOMAIN log' = 1..n /\ DOMAIN log = 1..Len(log) /\ Len(log) \in Nat
        /\ \A i \in 1..Len(log) : log'[i] = log[i]
        /\ log'[n] = event
    BY <1>2, <2>0, LogGrows
  <2>2. /\ n \in DOMAIN log'
        /\ \A i \in DOMAIN log' : i \in DOMAIN log \/ i = n
        /\ \A i \in DOMAIN log : i \in DOMAIN log' /\ log'[i] = log[i] /\ i < n /\ i # n
    BY <2>1
  <2> HIDE DEF n
  <2>3. ASSUME NEW i \in DOMAIN log' PROVE TrueEntry(log[i])'
    <3>1. CASE i = n
      BY <1>2, <2>1, <3>1 DEF TrueEntry
    <3>2. CASE i \in DOMAIN log
      <4>1. TrueEntry(log[i]) /\ log'[i] = log[i]
        BY <2>2, <3>2 DEF LogInv
      <4> QED BY <4>1, TrueStays DEF TrueEntry
    <3> QED BY <2>2, <3>1, <3>2
  <2>4. ASSUME NEW i \in DOMAIN log PROVE ~SameSubject(log[i], event)
    BY <1>2 DEF SameSubject, Told, Resolved
  <2>5. \A r, s : SameSubject(r, s) => SameSubject(s, r)
    BY DEF SameSubject
  <2>6. \A i, j \in DOMAIN log' : SameSubject(log'[i], log'[j]) => i = j
    BY <2>1, <2>2, <2>4, <2>5 DEF LogInv
  <2>7. ASSUME NEW i \in DOMAIN log', log'[i].type = "approval_executed"
        PROVE  \E j \in DOMAIN log' : /\ log'[j].type = "approval_resolved"
                                      /\ j < i
                                      /\ log'[j].attempt = log'[i].attempt
                                      /\ log'[j].status = "approved"
    <3>1. CASE i = n
      BY <1>2, <2>1, <2>2, <2>7, <3>1 DEF ResolvedBy
    <3>2. CASE i \in DOMAIN log
      <4>1. PICK j \in DOMAIN log : /\ log[j].type = "approval_resolved"
                                    /\ j < i
                                    /\ log[j].attempt = log[i].attempt
                                    /\ log[j].status = "approved"
        BY <2>2, <2>7, <3>2 DEF LogInv, ExecutionFollowsResolution, Events
      <4> QED BY <2>2, <3>2, <4>1
    <3> QED BY <2>2, <3>1, <3>2
  <2>8. ExecutionFollowsResolution'
    BY <2>7 DEF ExecutionFollowsResolution, Events
  <2>9. (\A i, j \in DOMAIN log : SameSubject(log[i], log[j]) => i = j)'
    BY <2>6 DEF SameSubject
  <2> QED BY <2>1, <2>3, <2>8, <2>9 DEF LogInv
<1> QED BY <1>1, <1>2

\* No method gives an attempt id back.
LEMMA UsedStep ==
    ASSUME TypeOK, AttemptInv, [Next]_vars, NEW e \in AttemptIds,
           attempts'[e].outcome = "unused"
    PROVE  attempts[e].outcome = "unused"
<1> USE DEF TypeOK, AttemptInv
<1>1. CASE \E a \in ApprovalIds, f \in AttemptIds : BeginExecution(a, f)
  BY <1>1 DEF BeginExecution
<1>2. CASE \E a \in ApprovalIds, f \in AttemptIds, error \in Errors,
              retryable \in Verdicts,
              finalStatus \in {"pending", "invalid_context"} :
              FailExecution(a, f, error, retryable, finalStatus)
  BY <1>2 DEF FailExecution, Settle, Attempts
<1>3. CASE \E a \in ApprovalIds, f \in AttemptIds : FinishExecutionSuccess(a, f)
  BY <1>3 DEF FinishExecutionSuccess, Settle, Attempts
<1>4. CASE \E timeout \in Timeouts, limit \in Limits, now \in 0..clock,
              reason \in RecoveryReasons : Recover(timeout, limit, now, reason)
  BY <1>4 DEF Recover, RecoverStaleExecutions, Attempts
<1>5. CASE UNCHANGED attempts
  BY <1>5
<1> QED
  BY <1>1, <1>2, <1>3, <1>4, <1>5
     DEF Next, Create, AttachContext, ResetExecutionError, RejectPending, Tick, vars

\* Only the call of a running or superseded attempt changes, and an approval
\* id that was given out stays so.
LEMMA CallAndOriginStep ==
    ASSUME GatewayInv, CallsInv, [GatewayNext]_gatewayVars
    PROVE  /\ \A e \in AttemptIds : attempts[e].outcome = "succeeded" =>
                  provider'[e] = provider[e]
           /\ \A a \in ApprovalIds : origin[a] # "none" => origin'[a] # "none"
<1> DEFINE Goal == /\ \A e \in AttemptIds : attempts[e].outcome = "succeeded" =>
                          provider'[e] = provider[e]
                   /\ \A a \in ApprovalIds : origin[a] # "none" => origin'[a] # "none"
<1> USE DEF GatewayInv, GatewayTypeOK
<1>1. ASSUME NEW h \in Handlers, ExecuteStoredContext(h) \/ ProviderReturns(h)
      PROVE  Goal
  <2>1. /\ job[h].at \in Executing /\ origin' = origin
        /\ \A f \in AttemptIds \ {job[h].attempt} : provider'[f] = provider[f]
    BY <1>1, ExecuteEffect, ReturnEffect DEF Executing
  <2>2. attempts[job[h].attempt].outcome # "succeeded"
    BY <2>1 DEF CallsInv, CallingJob
  <2> QED BY <2>1, <2>2
<1>2. CASE UNCHANGED <<provider, origin>>
  BY <1>2
<1>3. ASSUME NEW a \in ApprovalIds,
             \/ \E h \in Handlers : ChatRequest(h, a) \/ EvaluateRequest(h, a)
             \/ \E context \in DirectContexts : CreateDirectly(a, context)
      PROVE  Goal
  BY <1>3, OpensEffect DEF Opens, Creates
<1>4. CASE \E h \in Handlers : Call(h)
  BY <1>2, <1>3, <1>4 DEF Call, Reject, ResetRequest, Approve, RecoverStale
<1>5. CASE \E h \in Handlers : Continue(h)
  BY <1>1, <1>2, <1>5
     DEF Continue, AttachChatContext, CheckAttempt, Finish, Fail, RecordFailure,
         ReadConflict, RecordConflict, RecordResolution, RecordExecution, RecordRecovery,
         ResetError, RecordReset
<1> QED BY <1>2, <1>3, <1>4, <1>5 DEF GatewayNext, TimePasses, handlerVars, gatewayVars

\* Every step of the service keeps what the log rests on.
LEMMA KeepsStep ==
    ASSUME GatewayInv, CallsInv,
           \/ [GatewayNext /\ FreshIds]_gatewayVars
           \/ Restart \/ \E h \in Handlers : AppendRaises(h)
    PROVE  Keeps
<1> USE DEF GatewayInv, GatewayTypeOK
<1>1. CASE [GatewayNext /\ FreshIds]_gatewayVars
  <2>1. TypeOK /\ AttemptInv /\ [Next]_vars
    BY <1>1, QueueStep
  <2>2. \A e \in AttemptIds :
            /\ attempts[e].outcome \in Settled => attempts'[e].outcome = attempts[e].outcome
            /\ attempts'[e].outcome = "unused" => attempts[e].outcome = "unused"
    BY <2>1, SettledStep, UsedStep
  <2>3. /\ \A e \in AttemptIds : attempts[e].outcome = "succeeded" =>
               provider'[e] = provider[e]
        /\ \A a \in ApprovalIds : origin[a] # "none" => origin'[a] # "none"
    BY <1>1, CallAndOriginStep
  <2>4. \A a \in ApprovalIds : requests[a].status \in {"approved", "rejected"} =>
            requests'[a].status = requests[a].status
    BY <2>1, TerminalStep
  <2>5. \A a \in ApprovalIds : requests[a].status = "absent" /\ origin[a] # "none" =>
            requests'[a].status = "absent"
    BY <1>1 DEF FreshIds, gatewayVars, vars
  <2> QED BY <2>2, <2>3, <2>4, <2>5 DEF Keeps
<1>2. CASE Restart
  <2>1. Restarted
    BY <1>2, RestartEffect
  <2> QED BY <2>1 DEF Restarted, NewRequest, Keeps, Settled
<1>3. CASE \E h \in Handlers : AppendRaises(h)
  BY <1>3, QuietSteps DEF Quiet, QueueKept, SameVerdict, Keeps
<1> QED BY <1>1, <1>2, <1>3

----------------------------------------------------------------------------
(* What each thread has yet to tell.                                       *)

\* What a thread is going to record is true and nobody has told it.
Promise(j) ==
    /\ j.at \in Executing \cup {"conflict", "conflicted"} =>
           /\ j.attempt \in AttemptIds
           /\ ~Told("approval_execution_attempt_conflict", j.attempt)
    /\ j.at = "failed" =>
           /\ j.attempt \in AttemptIds
           /\ attempts[j.attempt].outcome = "failed"
           /\ ~Told("approval_execution_failed", j.attempt)
    /\ j.at = "resolved" =>
           /\ j.status \in {"approved", "rejected"}
           /\ requests[j.approval].status = j.status
           /\ ~Resolved(j.approval)
    /\ (j.at = "resolved" /\ j.context = "chat_completion") \/ j.at = "executed" =>
           /\ j.attempt \in AttemptIds
           /\ attempts[j.attempt].outcome = "succeeded"
           /\ provider[j.attempt] = "ok"
           /\ ~Told("approval_executed", j.attempt)
           /\ j.at = "resolved" => j.status = "approved"
           /\ j.at = "executed" => ResolvedBy(j.attempt)
    /\ j.at = "recovered" =>
           /\ \A r \in j.todo :
                  /\ attempts[r.attempt].outcome = "superseded"
                  /\ ~Told("approval_execution_stale_recovered", r.attempt)
           /\ \A r, s \in j.todo : r.attempt = s.attempt => r = s

\* Every thread has such a promise, and no two have the same.
PromisesInv ==
    /\ \A h \in Handlers : Promise(job[h])
    /\ \A g, h \in Handlers :
           job[g].at = "resolved" /\ job[h].at = "resolved"
               /\ job[g].approval = job[h].approval => g = h
    /\ \A g, h \in Handlers : \A r \in job[g].todo, s \in job[h].todo :
           job[g].at = "recovered" /\ job[h].at = "recovered"
               /\ r.attempt = s.attempt => g = h

\* The step tells nothing that j promised to.
Untold(j) ==
    /\ j.at \in Executing \cup {"conflict", "conflicted"} =>
           (Told("approval_execution_attempt_conflict", j.attempt)'
                => Told("approval_execution_attempt_conflict", j.attempt))
    /\ j.at = "failed" => (Told("approval_execution_failed", j.attempt)'
                               => Told("approval_execution_failed", j.attempt))
    /\ j.at = "resolved" => (Resolved(j.approval)' => Resolved(j.approval))
    /\ (j.at = "resolved" /\ j.context = "chat_completion") \/ j.at = "executed" =>
           (Told("approval_executed", j.attempt)' => Told("approval_executed", j.attempt))
    /\ j.at = "executed" => (ResolvedBy(j.attempt) => ResolvedBy(j.attempt)')
    /\ j.at = "recovered" =>
           \A r \in j.todo : Told("approval_execution_stale_recovered", r.attempt)'
                                 => Told("approval_execution_stale_recovered", r.attempt)

\* A thread that does not move keeps its promise if the step keeps its approval
\* and tells nothing of it.
LEMMA PromiseKept ==
    ASSUME NEW j \in Jobs, JobReady(j), Promise(j), Keeps, Untold(j),
           j.at = "resolved" => requests'[j.approval].status = requests[j.approval].status
    PROVE  Promise(j)'
<1>1. j.at \in Executing \cup {"conflict", "conflicted"} =>
          /\ j.attempt \in AttemptIds
          /\ ~Told("approval_execution_attempt_conflict", j.attempt)'
  BY DEF Promise, Untold
<1>2. j.at = "failed" =>
          /\ j.attempt \in AttemptIds
          /\ attempts'[j.attempt].outcome = "failed"
          /\ ~Told("approval_execution_failed", j.attempt)'
  BY DEF Promise, Untold, Keeps, Settled
<1>3. j.at = "resolved" =>
          /\ j.status \in {"approved", "rejected"}
          /\ requests'[j.approval].status = j.status
          /\ ~Resolved(j.approval)'
  BY DEF Promise, Untold
<1>4. (j.at = "resolved" /\ j.context = "chat_completion") \/ j.at = "executed" =>
           /\ j.attempt \in AttemptIds
           /\ attempts'[j.attempt].outcome = "succeeded"
           /\ provider'[j.attempt] = "ok"
           /\ ~Told("approval_executed", j.attempt)'
           /\ j.at = "resolved" => j.status = "approved"
           /\ j.at = "executed" => ResolvedBy(j.attempt)'
  BY DEF Promise, Untold, Keeps, Settled
<1>5. ASSUME j.at = "recovered", NEW r \in j.todo
      PROVE  /\ attempts'[r.attempt].outcome = "superseded"
             /\ ~Told("approval_execution_stale_recovered", r.attempt)'
  <2>1. r.attempt \in AttemptIds
    BY <1>5 DEF Jobs
  <2> QED BY <1>5, <2>1 DEF Promise, Untold, Keeps, Settled
<1>6. j.at = "recovered" => \A r, s \in j.todo : r.attempt = s.attempt => r = s
  BY DEF Promise
<1> QED BY <1>1, <1>2, <1>3, <1>4, <1>5, <1>6 DEF Promise

\* If the log stays as it is nothing is told.
LEMMA QuietUntold ==
    ASSUME log' = log, NEW j
    PROVE  Untold(j)
BY DEF Untold, Told, Resolved, ResolvedBy

\* The log is true and what the threads are about to append will be.
EvidenceInv == LogInv /\ PromisesInv

\* Approvals that are resolved stay so: every step but a restart.
StaysResolved ==
    \A a \in ApprovalIds : requests[a].status \in {"approved", "rejected"} =>
        requests'[a].status = requests[a].status

\* A step of one thread that makes good what it promises and tells nothing that
\* another has promised to.
LEMMA PromisesFrame ==
    ASSUME GatewayInv, PromisesInv, Keeps, StaysResolved, NEW h \in Handlers, Only(h),
           Promise(job[h])',
           \A g \in Handlers \ {h} : Untold(job[g]),
           job'[h].at = "resolved" => \A g \in Handlers \ {h} :
               ~(job[g].at = "resolved" /\ job[g].approval = job'[h].approval),
           job'[h].at = "recovered" => \A g \in Handlers \ {h} :
               \A r \in job'[h].todo, s \in job[g].todo :
                   ~(job[g].at = "recovered" /\ r.attempt = s.attempt)
    PROVE  PromisesInv'
<1> USE DEF GatewayInv, GatewayTypeOK
<1>1. ASSUME NEW g \in Handlers \ {h} PROVE Promise(job[g])'
  <2>1. PICK j : j = job[g]
    OBVIOUS
  <2>2. /\ j \in Jobs /\ JobReady(j) /\ Promise(j) /\ Untold(j)
        /\ j.at = "resolved" => requests'[j.approval].status = requests[j.approval].status
    BY <2>1 DEF JobsReady, JobReady, PromisesInv, Promise, StaysResolved
  <2>3. Promise(j)'
    BY <2>2, PromiseKept
  <2>4. job'[g] = j
    BY <2>1 DEF Only
  <2> QED BY <2>3, <2>4 DEF Promise
<1>2. \A g \in Handlers : Promise(job[g])'
  BY <1>1
<1>3. (\A g, k \in Handlers :
          job[g].at = "resolved" /\ job[k].at = "resolved"
              /\ job[g].approval = job[k].approval => g = k)'
  BY DEF Only, PromisesInv
<1>4. (\A g, k \in Handlers : \A r \in job[g].todo, s \in job[k].todo :
          job[g].at = "recovered" /\ job[k].at = "recovered"
              /\ r.attempt = s.attempt => g = k)'
  BY DEF Only, PromisesInv
<1> QED BY <1>2, <1>3, <1>4 DEF PromisesInv

\* Steps that let no thread go on, or only to its end, and tell nothing.
LEMMA PromisesQuiet ==
    ASSUME GatewayInv, PromisesInv, Keeps, log' = log, Quiet \/ Restarted
    PROVE  PromisesInv'
<1> USE DEF GatewayInv, GatewayTypeOK
<1>0. \A h \in Handlers : job'[h] = IdleJob => Promise(job[h])'
  BY IdleFields DEF Promise, Executing
<1>1. CASE Quiet
  <2>1. ASSUME NEW h \in Handlers, job'[h] = job[h] PROVE Promise(job[h])'
    <3>1. PICK j : j = job[h]
      OBVIOUS
    <3>2. /\ j \in Jobs /\ JobReady(j) /\ Promise(j) /\ Untold(j)
          /\ j.at = "resolved" => requests'[j.approval].status = requests[j.approval].status
      BY <1>1, <3>1, QuietUntold
         DEF JobsReady, JobReady, PromisesInv, Quiet, QueueKept, SameVerdict
    <3>3. Promise(j)'
      BY <3>2, PromiseKept
    <3> QED BY <2>1, <3>1, <3>3 DEF Promise
  <2>2. \A h \in Handlers : job'[h] = job[h] \/ job'[h] = IdleJob
    BY <1>1 DEF Quiet
  <2> QED BY <1>0, <2>1, <2>2, IdleFields DEF PromisesInv
<1>2. CASE Restarted
  BY <1>0, <1>2, IdleFields DEF Restarted, PromisesInv
<1> QED BY <1>1, <1>2

\* The frame for steps that append nothing.
LEMMA SilentFrame ==
    ASSUME GatewayInv, EvidenceInv, Keeps, StaysResolved, log' = log, NEW h \in Handlers,
           Only(h), Promise(job[h])',
           job'[h].at = "resolved" => \A g \in Handlers \ {h} :
               ~(job[g].at = "resolved" /\ job[g].approval = job'[h].approval),
           job'[h].at = "recovered" => \A g \in Handlers \ {h} :
               \A r \in job'[h].todo, s \in job[g].todo :
                   ~(job[g].at = "recovered" /\ r.attempt = s.attempt)
    PROVE  EvidenceInv'
<1>1. LogInv'
  BY LogStep DEF EvidenceInv
<1>2. PromisesInv'
  BY PromisesFrame, QuietUntold DEF EvidenceInv
<1> QED BY <1>1, <1>2 DEF EvidenceInv

\* Nothing is told yet of an attempt that was never begun, or that runs, or of
\* an approval that is open.
LEMMA NotYetTold ==
    ASSUME LogInv
    PROVE  /\ \A e : attempts[e].outcome \in {"unused", "running"} =>
                  /\ ~Told("approval_execution_failed", e)
                  /\ ~Told("approval_executed", e)
                  /\ ~Told("approval_execution_stale_recovered", e)
           /\ \A e : attempts[e].outcome = "unused" =>
                  ~Told("approval_execution_attempt_conflict", e)
           /\ \A a : requests[a].status \notin {"approved", "rejected", "absent"} =>
                  ~Resolved(a)
BY DEF LogInv, TrueEntry, Told, Resolved

\* A new API call appends nothing and promises what is true.
LEMMA EvidenceCall ==
    ASSUME GatewayInv, OwnerInv, CallsInv, EvidenceInv, Keeps, StaysResolved,
           NEW h \in Handlers, Call(h)
    PROVE  EvidenceInv'
<1> USE DEF GatewayInv, GatewayTypeOK
<1>n. LogInv /\ PromisesInv
  BY DEF EvidenceInv
<1>0. ASSUME Only(h), job'[h].at \in {"attach", "reset"}, log' = log
      PROVE  EvidenceInv'
  <2>1. Promise(job[h])'
    BY <1>0 DEF Promise, Executing
  <2> QED BY <1>0, <2>1, SilentFrame
<1>1. ASSUME NEW a \in ApprovalIds, ChatRequest(h, a)
      PROVE  EvidenceInv'
  BY <1>0, <1>1, ChatRequestEffect DEF Creates
<1>2. ASSUME NEW a \in ApprovalIds, EvaluateRequest(h, a)
      PROVE  EvidenceInv'
  <2>1. job' = job /\ log' = log
    BY <1>2, OpenEffect DEF Creates
  <2>2. Promise(job[h])'
    <3>1. PICK j : j = job[h]
      OBVIOUS
    <3>2. /\ j \in Jobs /\ JobReady(j) /\ Promise(j) /\ Untold(j)
          /\ j.at = "resolved" => requests'[j.approval].status = requests[j.approval].status
      BY <1>n, <2>1, <3>1, QuietUntold
         DEF JobsReady, JobReady, PromisesInv, StaysResolved, Promise
    <3>3. Promise(j)'
      BY <3>2, PromiseKept
    <3> QED BY <2>1, <3>1, <3>3 DEF Promise
  <2>3. Only(h) /\ job'[h].at = "idle"
    BY <1>2, <2>1 DEF Only, EvaluateRequest, Accept
  <2> QED BY <2>1, <2>2, <2>3, SilentFrame
<1>3. ASSUME NEW a \in ApprovalIds, ResetRequest(h, a)
      PROVE  EvidenceInv'
  BY <1>0, <1>3, ResetRequestEffect
<1>4. ASSUME NEW a \in ApprovalIds, Reject(h, a)
      PROVE  EvidenceInv'
  <2>1. /\ requests[a].status \in {"pending", "invalid_context"}
        /\ requests'[a].status = "rejected"
        /\ Only(h) /\ log' = log
        /\ job'[h].at = "resolved" /\ job'[h].approval = a
        /\ job'[h].context = None /\ job'[h].status = "rejected"
    BY <1>4, RejectEffect
  <2>2. None # "chat_completion"
    BY SetsAssumption, GatewayAssumption
  <2>3. ~Resolved(a)'
    BY <1>n, <2>1, NotYetTold DEF Resolved
  <2>4. Promise(job[h])'
    BY <2>1, <2>2, <2>3 DEF Promise, Executing, Resolved
  <2>5. \A g \in Handlers \ {h} : ~(job[g].at = "resolved" /\ job[g].approval = a)
    BY <1>n, <2>1 DEF PromisesInv, Promise
  <2> QED BY <2>1, <2>4, <2>5, SilentFrame
<1>5. ASSUME NEW a \in ApprovalIds, NEW e \in AttemptIds, Approve(h, a, e)
      PROVE  EvidenceInv'
  <2>1. /\ attempts[e].outcome = "unused" /\ log' = log /\ Only(h)
        /\ job'[h].at = "execute" /\ job'[h].attempt = e
    BY <1>5, ApproveEffect
  <2>2. ~Told("approval_execution_attempt_conflict", e)'
    BY <1>n, <2>1, NotYetTold DEF Told
  <2>3. Promise(job[h])'
    BY <2>1, <2>2 DEF Promise, Executing, Told
  <2> QED BY <2>1, <2>3, SilentFrame
<1>6. CASE RecoverStale(h)
  <2>1. PICK recovered : Recovers(h, recovered)
    BY <1>6, RecoverStaleEffect
  <2>2. /\ Only(h) /\ job'[h].at = "recovered" /\ log' = log
        /\ job'[h].todo = {[approval |-> a, attempt |-> requests[a].attempt] : a \in recovered}
        /\ \A a \in recovered : a \in ApprovalIds /\ requests[a].status = "executing"
    BY <2>1 DEF Recovers
  <2>3. \A a \in recovered : /\ requests[a].attempt \in AttemptIds
                             /\ attempts[requests[a].attempt].outcome = "running"
                             /\ attempts[requests[a].attempt].approval = a
    BY <2>2 DEF AttemptInv, RunningIsCurrent
  <2>4. \A r \in job'[h].todo : \E a \in recovered :
            r = [approval |-> a, attempt |-> requests[a].attempt]
    BY <2>2
  <2>5. ASSUME NEW r \in job'[h].todo
        PROVE  /\ r.attempt \in AttemptIds
               /\ attempts[r.attempt].outcome = "running"
               /\ attempts'[r.attempt].outcome = "superseded"
               /\ ~Told("approval_execution_stale_recovered", r.attempt)'
    <3>1. PICK a \in recovered : r = [approval |-> a, attempt |-> requests[a].attempt]
      BY <2>4
    <3>2. r.attempt = requests[a].attempt
      BY <3>1
    <3>3. /\ r.attempt \in AttemptIds
          /\ attempts[r.attempt].outcome = "running"
      BY <2>3, <3>2
    <3>4. attempts'[r.attempt].outcome = "superseded"
      BY <2>1, <3>1, <3>2, <3>3 DEF Recovers
    <3>5. ~Told("approval_execution_stale_recovered", r.attempt)
      BY <1>n, <3>3, NotYetTold
    <3> QED BY <2>2, <3>3, <3>4, <3>5 DEF Told
  <2>6. ASSUME NEW r \in job'[h].todo, NEW s \in job'[h].todo, r.attempt = s.attempt
        PROVE  r = s
    <3>1. PICK a \in recovered : r = [approval |-> a, attempt |-> requests[a].attempt]
      BY <2>4
    <3>2. PICK b \in recovered : s = [approval |-> b, attempt |-> requests[b].attempt]
      BY <2>4
    <3>3. requests[a].attempt = requests[b].attempt
      BY <2>6, <3>1, <3>2
    <3>4. a = b
      BY <2>3, <3>3
    <3> QED BY <3>1, <3>2, <3>4
  <2>7. Promise(job[h])'
    BY <2>2, <2>5, <2>6 DEF Promise, Executing, Told
  <2>8. \A g \in Handlers \ {h} : \A r \in job'[h].todo, s \in job[g].todo :
            ~(job[g].at = "recovered" /\ r.attempt = s.attempt)
    BY <1>n, <2>5 DEF PromisesInv, Promise
  <2> QED BY <2>2, <2>7, <2>8, SilentFrame
<1> QED BY <1>1, <1>2, <1>3, <1>4, <1>5, <1>6 DEF Call

\* The frame for steps that append an event.
LEMMA AppendFrame ==
    ASSUME GatewayInv, EvidenceInv, Keeps, NEW h \in Handlers, Only(h),
           UNCHANGED <<requests, attempts, provider, origin>>,
           NEW event \in Entries, Record(event), TrueEntry(event),
           event.type = "approval_resolved" => ~Resolved(event.approval),
           event.type \in Ends => ~Told(event.type, event.attempt),
           event.type = "approval_executed" => ResolvedBy(event.attempt),
           Promise(job[h])',
           \A g \in Handlers \ {h} : Untold(job[g]),
           job'[h].at # "resolved",
           job'[h].at = "recovered" => /\ job[h].at = "recovered"
                                       /\ job'[h].todo \subseteq job[h].todo
    PROVE  EvidenceInv'
<1>1. LogInv'
  BY LogStep, TrueStays DEF EvidenceInv
<1>2. StaysResolved
  BY DEF StaysResolved
<1>3. job'[h].at = "recovered" => \A g \in Handlers \ {h} :
          \A r \in job'[h].todo, s \in job[g].todo :
              ~(job[g].at = "recovered" /\ r.attempt = s.attempt)
  BY DEF EvidenceInv, PromisesInv
<1>4. PromisesInv'
  BY <1>2, <1>3, PromisesFrame DEF EvidenceInv
<1> QED BY <1>1, <1>4 DEF EvidenceInv

\* A thread that holds another attempt, or owes another kind of event, hears
\* nothing of its own subject.
LEMMA UntoldByOther ==
    ASSUME log \in Seq(Entries), NEW event \in Entries, Record(event), NEW j,
           (/\ event.type = "approval_execution_attempt_conflict"
            /\ j.at \in Executing \cup {"conflict", "conflicted"})
               => j.attempt # event.attempt,
           event.type = "approval_execution_failed" /\ j.at = "failed"
               => j.attempt # event.attempt,
           event.type = "approval_resolved" /\ j.at = "resolved"
               => j.approval # event.approval,
           event.type = "approval_executed" /\ j.at \in {"resolved", "executed"}
               => j.attempt # event.attempt,
           event.type = "approval_execution_stale_recovered" /\ j.at = "recovered"
               => \A r \in j.todo : r.attempt # event.attempt
    PROVE  Untold(j)
BY Tells DEF Untold

\* The steps that append an event.
LEMMA EvidenceRecord ==
    ASSUME GatewayInv, OwnerInv, LivesInv, EvidenceInv, Keeps, NEW h \in Handlers,
           \/ RecordFailure(h) \/ RecordConflict(h) \/ RecordResolution(h)
           \/ RecordExecution(h) \/ RecordRecovery(h) \/ RecordReset(h)
    PROVE  EvidenceInv'
<1> USE DEF GatewayInv, GatewayTypeOK
<1>0. /\ LogInv /\ PromisesInv /\ log \in Seq(Entries)
      /\ Promise(job[h]) /\ job[h] \in Jobs /\ JobReady(job[h])
      /\ Appended(h)
  BY RecordEffect DEF EvidenceInv, LogInv, PromisesInv, JobsReady
<1>a. /\ UNCHANGED <<requests, attempts, provider, origin>>
      /\ Only(h)
  BY <1>0 DEF Appended
<1>i. job'[h] = IdleJob => /\ Promise(job[h])'
                           /\ job'[h].at \notin {"resolved", "recovered"}
  BY IdleFields DEF Promise, Executing
\* Nobody else holds the attempt.
<1>b. ASSUME NEW g \in Handlers \ {h}, job[h].attempt \in AttemptIds
      PROVE  job[g].attempt # job[h].attempt
  BY <1>b, SetsAssumption DEF OwnerInv
<1>1. CASE RecordFailure(h)
  <2>1. PICK event : event = [type |-> "approval_execution_failed",
               approval |-> job[h].approval,
               attempt |-> job[h].attempt, status |-> job[h].status,
               error |-> job[h].error, retryable |-> job[h].retryable,
               domain |-> FailureDomain(job[h].error)]
    OBVIOUS
  <2>2. /\ job[h].at = "failed" /\ Record(event) /\ Done(h)
    BY <1>1, <2>1 DEF RecordFailure
  <2>3. /\ job[h].attempt \in AttemptIds /\ job[h].approval \in ApprovalIds
        /\ attempts[job[h].attempt].outcome = "failed"
        /\ ~Told("approval_execution_failed", job[h].attempt)
    BY <1>0, <2>2 DEF Promise, JobReady
  <2>4. event \in Entries
    BY <1>0, <2>1, <2>3 DEF Jobs, Entries
  <2>5. TrueEntry(event) /\ event.type = "approval_execution_failed"
          /\ event.attempt = job[h].attempt
    BY <2>1, <2>3 DEF TrueEntry, Ends
  <2>6. \A g \in Handlers \ {h} : Untold(job[g])
    BY <1>0, <1>b, <2>2, <2>3, <2>4, <2>5, UntoldByOther
  <2>7. job'[h] = IdleJob
    BY <2>2 DEF Done
  <2> QED BY <1>a, <1>i, <2>2, <2>3, <2>4, <2>5, <2>6, <2>7, AppendFrame DEF Ends
<1>2. CASE RecordConflict(h)
  <2>1. PICK event : event = [type |-> "approval_execution_attempt_conflict",
               approval |-> job[h].approval, attempt |-> job[h].attempt,
               currentAttempt |-> job[h].seen.attempt,
               currentStatus |-> job[h].seen.status]
    OBVIOUS
  <2>2. /\ job[h].at = "conflicted" /\ Record(event) /\ Done(h)
    BY <1>2, <2>1 DEF RecordConflict
  <2>3. /\ job[h].attempt \in AttemptIds /\ job[h].approval \in ApprovalIds
        /\ attempts[job[h].attempt].outcome # "unused"
        /\ ~Told("approval_execution_attempt_conflict", job[h].attempt)
    BY <1>0, <2>2, SetsAssumption DEF Promise, JobReady, OwnerInv, OwnedJob
  <2>4. event \in Entries
    BY <1>0, <2>1, <2>3 DEF Jobs, Entries
  <2>5. TrueEntry(event) /\ event.type = "approval_execution_attempt_conflict"
          /\ event.attempt = job[h].attempt
    BY <2>1, <2>3 DEF TrueEntry, Ends
  <2>6. \A g \in Handlers \ {h} : Untold(job[g])
    BY <1>0, <1>b, <2>2, <2>3, <2>4, <2>5, UntoldByOther
  <2>7. job'[h] = IdleJob
    BY <2>2 DEF Done
  <2> QED BY <1>a, <1>i, <2>2, <2>3, <2>4, <2>5, <2>6, <2>7, AppendFrame DEF Ends
<1>3. CASE RecordExecution(h)
  <2>1. PICK event : event = [type |-> "approval_executed", approval |-> job[h].approval,
               attempt |-> job[h].attempt]
    OBVIOUS
  <2>2. /\ job[h].at = "executed" /\ Record(event) /\ Done(h)
    BY <1>3, <2>1 DEF RecordExecution
  <2>3. /\ job[h].attempt \in AttemptIds /\ job[h].approval \in ApprovalIds
        /\ attempts[job[h].attempt].outcome = "succeeded"
        /\ provider[job[h].attempt] = "ok"
        /\ ResolvedBy(job[h].attempt)
        /\ ~Told("approval_executed", job[h].attempt)
    BY <1>0, <2>2 DEF Promise, JobReady
  <2>4. event \in Entries
    BY <1>0, <2>1, <2>3 DEF Jobs, Entries
  <2>5. TrueEntry(event) /\ event.type = "approval_executed"
          /\ event.attempt = job[h].attempt
    BY <2>1, <2>3 DEF TrueEntry, Ends
  <2>6. \A g \in Handlers \ {h} : Untold(job[g])
    BY <1>0, <1>b, <2>2, <2>3, <2>4, <2>5, UntoldByOther
  <2>7. job'[h] = IdleJob
    BY <2>2 DEF Done
  <2> QED BY <1>a, <1>i, <2>2, <2>3, <2>4, <2>5, <2>6, <2>7, AppendFrame DEF Ends
<1>4. CASE RecordReset(h)
  <2>1. PICK event : event = [type |-> "approval_execution_error_reset",
               approval |-> job[h].approval,
               previousError |-> job[h].seen.error,
               previousRetryable |-> job[h].seen.retryable]
    OBVIOUS
  <2>2. /\ job[h].at = "reset_done" /\ Record(event) /\ Done(h)
    BY <1>4, <2>1 DEF RecordReset
  <2>3. job[h].approval \in ApprovalIds
    BY <1>0, <2>2 DEF JobReady
  <2>4. event \in Entries
    BY <1>0, <2>1, <2>3 DEF Jobs, Entries
  <2>5. TrueEntry(event) /\ event.type = "approval_execution_error_reset"
    BY <2>1 DEF TrueEntry, Ends
  <2>6. \A g \in Handlers \ {h} : Untold(job[g])
    BY <1>0, <2>2, <2>4, <2>5, UntoldByOther
  <2>7. job'[h] = IdleJob
    BY <2>2 DEF Done
  <2> QED BY <1>a, <1>i, <2>2, <2>4, <2>5, <2>6, <2>7, AppendFrame DEF Ends
<1>5. CASE RecordResolution(h)
  <2>1. PICK event : event = [type |-> "approval_resolved", approval |-> job[h].approval,
               attempt |-> job[h].attempt, status |-> job[h].status]
    OBVIOUS
  <2>2. /\ job[h].at = "resolved" /\ Record(event)
        /\ IF job[h].context = "chat_completion" THEN GoTo(h, "executed") ELSE Done(h)
    BY <1>5, <2>1 DEF RecordResolution
  <2>3. /\ job[h].approval \in ApprovalIds
        /\ job[h].status \in {"approved", "rejected"}
        /\ requests[job[h].approval].status = job[h].status
        /\ ~Resolved(job[h].approval)
    BY <1>0, <2>2 DEF Promise, JobReady
  <2>4. event \in Entries
    BY <1>0, <2>1, <2>3 DEF Jobs, Entries
  <2>5. /\ event.type = "approval_resolved" /\ event.approval = job[h].approval
        /\ event.attempt = job[h].attempt /\ event.status = job[h].status
    BY <2>1
  <2>6. \A g \in Handlers \ {h} : Untold(job[g])
    <3>1. ASSUME NEW g \in Handlers \ {h}
          PROVE  job[g].at = "resolved" => job[g].approval # event.approval
      BY <1>0, <2>2, <2>5 DEF PromisesInv
    <3> QED BY <1>0, <2>2, <2>4, <2>5, <3>1, UntoldByOther
  <2>7. TrueEntry(event)
    BY <2>3, <2>5 DEF TrueEntry, Ends, LivesInv
  <2>8. CASE job[h].context # "chat_completion"
    <3>1. job'[h] = IdleJob
      BY <2>2, <2>8 DEF Done
    <3> QED BY <1>a, <1>i, <2>2, <2>3, <2>4, <2>5, <2>6, <2>7, <3>1, AppendFrame DEF Ends
  <2>9. CASE job[h].context = "chat_completion"
    <3>1. /\ job[h].attempt \in AttemptIds
          /\ attempts[job[h].attempt].outcome = "succeeded"
          /\ provider[job[h].attempt] = "ok"
          /\ ~Told("approval_executed", job[h].attempt)
          /\ job[h].status = "approved"
      BY <1>0, <2>2, <2>9 DEF Promise
    <3>2. Moves(h, "executed")
      BY <2>2, <2>9, GoToMoves DEF Steps
    <3>3. PICK e : e = job[h].attempt
      OBVIOUS
    <3>4. ~Told("approval_executed", e)' /\ ResolvedBy(e)'
      BY <1>0, <2>2, <2>4, <2>5, <3>1, <3>3, Tells
    <3>5. job'[h].at = "executed" /\ job'[h].attempt = e
      BY <3>2, <3>3 DEF Moves
    <3>6. Promise(job[h])'
      BY <1>a, <3>1, <3>3, <3>4, <3>5 DEF Promise, Executing, Told, ResolvedBy
    <3> QED BY <1>a, <2>2, <2>3, <2>4, <2>5, <2>6, <2>7, <3>5, <3>6, AppendFrame DEF Ends
  <2> QED BY <2>8, <2>9
<1>6. CASE RecordRecovery(h)
  <2>1. job[h].at = "recovered"
    BY <1>6 DEF RecordRecovery
  <2>2. PICK r \in job[h].todo :
          /\ Record([type |-> "approval_execution_stale_recovered",
                     approval |-> r.approval, attempt |-> r.attempt,
                     error |-> job[h].error])
          /\ IF job[h].todo = {r}
               THEN Done(h)
               ELSE job' = [job EXCEPT ![h].todo = @ \ {r}]
    BY <1>6 DEF RecordRecovery
  <2>3. PICK event : event = [type |-> "approval_execution_stale_recovered",
                     approval |-> r.approval, attempt |-> r.attempt,
                     error |-> job[h].error]
    OBVIOUS
  <2>4. Record(event)
    BY <2>2, <2>3
  <2>5. /\ r.approval \in ApprovalIds /\ r.attempt \in AttemptIds
        /\ attempts[r.attempt].outcome = "superseded"
        /\ ~Told("approval_execution_stale_recovered", r.attempt)
    BY <1>0, <2>1 DEF Promise, Jobs
  <2>6. event \in Entries
    BY <1>0, <2>3, <2>5 DEF Jobs, Entries
  <2>7. TrueEntry(event) /\ event.type = "approval_execution_stale_recovered"
          /\ event.attempt = r.attempt
    BY <2>3, <2>5 DEF TrueEntry, Ends
  <2>8. \A g \in Handlers \ {h} : Untold(job[g])
    <3>1. ASSUME NEW g \in Handlers \ {h}, job[g].at = "recovered"
          PROVE  \A s \in job[g].todo : s.attempt # event.attempt
      BY <1>0, <2>1, <2>7, <3>1 DEF PromisesInv
    <3> QED BY <1>0, <2>4, <2>6, <2>7, <3>1, UntoldByOther
  <2>9. CASE job[h].todo = {r}
    <3>1. job'[h] = IdleJob
      BY <2>2, <2>9 DEF Done
    <3> QED BY <1>a, <1>i, <2>4, <2>5, <2>6, <2>7, <2>8, <3>1, AppendFrame DEF Ends
  <2>10. CASE job[h].todo # {r}
    <3>1. job' = [job EXCEPT ![h].todo = @ \ {r}]
      BY <2>2, <2>10
    <3>2. job'[h].at = "recovered" /\ job'[h].todo = job[h].todo \ {r}
      BY <1>0, <2>1, <3>1 DEF Jobs
    <3>3. ASSUME NEW s \in job[h].todo \ {r}
          PROVE  /\ attempts[s.attempt].outcome = "superseded"
                 /\ ~Told("approval_execution_stale_recovered", s.attempt)'
      <4>1. s.attempt # r.attempt
        BY <1>0, <2>1 DEF Promise
      <4>2. /\ attempts[s.attempt].outcome = "superseded"
            /\ ~Told("approval_execution_stale_recovered", s.attempt)
        BY <1>0, <2>1 DEF Promise
      <4>3. PICK e : e = s.attempt
        OBVIOUS
      <4>4. ~Told("approval_execution_stale_recovered", e)'
        BY <1>0, <2>4, <2>6, <2>7, <4>1, <4>2, <4>3, Tells
      <4> QED BY <4>2, <4>3, <4>4 DEF Told
    <3>4. \A s, t \in job[h].todo : s.attempt = t.attempt => s = t
      BY <1>0, <2>1 DEF Promise
    <3>5. Promise(job[h])'
      BY <1>a, <3>2, <3>3, <3>4 DEF Promise, Executing, Told
    <3> QED BY <1>a, <2>1, <2>4, <2>5, <2>6, <2>7, <2>8, <3>2, <3>5, AppendFrame DEF Ends
  <2> QED BY <2>9, <2>10
<1> QED BY <1>1, <1>2, <1>3, <1>4, <1>5, <1>6

\* So does every later step of a handler, ...
LEMMA EvidenceContinue ==
    ASSUME GatewayInv, OwnerInv, CallsInv, LivesInv, EvidenceInv, Keeps, StaysResolved,
           NEW h \in Handlers, Continue(h)
    PROVE  EvidenceInv'
<1> USE DEF GatewayInv, GatewayTypeOK
<1>0. /\ LogInv /\ PromisesInv /\ Promise(job[h]) /\ CallingJob(job[h])
      /\ JobReady(job[h])
  BY DEF EvidenceInv, PromisesInv, CallsInv, JobsReady
<1>i. job'[h] = IdleJob => /\ Promise(job[h])'
                           /\ job'[h].at \notin {"resolved", "recovered"}
  BY IdleFields DEF Promise, Executing
\* A thread that goes on with its attempt, or for a conflict, still owes the same.
<1>g. ASSUME log' = log, Only(h), job[h].at \in Executing \cup {"conflict", "conflicted"},
             job'[h].attempt = job[h].attempt,
             job'[h].at \in Executing \cup {"conflict", "conflicted"}
      PROVE  EvidenceInv'
  <2>1. /\ job[h].attempt \in AttemptIds
        /\ ~Told("approval_execution_attempt_conflict", job[h].attempt)
    BY <1>0, <1>g DEF Promise
  <2>2. ~Told("approval_execution_attempt_conflict", job[h].attempt)'
    BY <1>g, <2>1 DEF Told
  <2>3. job'[h].at \notin {"failed", "resolved", "executed", "recovered"}
    BY <1>g DEF Executing
  <2>4. Promise(job[h])'
    BY <1>g, <2>1, <2>2, <2>3 DEF Promise
  <2>5. job'[h].at # "resolved" /\ job'[h].at # "recovered" /\ log' = log /\ Only(h)
    BY <1>g, <2>3
  <2> QED BY <2>4, <2>5, SilentFrame
<1>f. ASSUME log' = log, Frees(h)
      PROVE  EvidenceInv'
  <2>1. Only(h) /\ job'[h] = IdleJob
    BY <1>f DEF Frees
  <2>2. Promise(job[h])' /\ job'[h].at # "resolved" /\ job'[h].at # "recovered"
    BY <1>i, <2>1
  <2> QED BY <1>f, <2>1, <2>2, SilentFrame
<1>1. CASE AttachChatContext(h)
  BY <1>1, <1>f, AttachEffect
<1>2. CASE ExecuteStoredContext(h) \/ ProviderReturns(h) \/ CheckAttempt(h)
  <2>1. /\ log' = log /\ job[h].at \in Executing
        /\ \/ Moves(h, "finish") \/ Moves(h, "provider") \/ Moves(h, "returned")
           \/ Moves(h, "conflict") \/ RaisesProviderError(h) \/ Frees(h)
           \/ Raises(h, "stored_approval_context_error", "no", "invalid_context")
    BY <1>2, ExecuteEffect, ReturnEffect, CheckEffect DEF Executing
  <2>2. \/ Frees(h)
        \/ /\ Only(h) /\ job'[h].attempt = job[h].attempt
           /\ job'[h].at \in Executing \cup {"conflict"}
    BY <2>1 DEF Moves, Raises, RaisesProviderError, Executing
  <2> QED BY <1>f, <1>g, <2>1, <2>2
<1>3. CASE Finish(h)
  <2>1. CASE Moves(h, "conflict")
    BY <1>3, <1>g, <2>1, FinishEffect DEF Moves, Executing
  <2>2. CASE ~Moves(h, "conflict")
    <3> DEFINE a == job[h].approval
               e == job[h].attempt
    <3>1. /\ job[h].at = "finish" /\ log' = log /\ provider' = provider
          /\ requests[a].status = "executing"
          /\ requests'[a].status = "approved"
          /\ attempts[e].outcome = "running"
          /\ attempts'[e].outcome = "succeeded"
          /\ Only(h)
          /\ job'[h].at = "resolved" /\ job'[h].approval = a /\ job'[h].attempt = e
          /\ job'[h].context = job[h].context /\ job'[h].status = "approved"
      BY <1>3, <2>2, FinishEffect DEF IsCurrentAttempt
    <3>2. a \in ApprovalIds /\ e \in AttemptIds
      BY <1>0, <3>1 DEF JobReady, Executing
    <3>3. ~Resolved(a) /\ ~Told("approval_executed", e)
      BY <1>0, <3>1, NotYetTold
    <3>4. job[h].context = "chat_completion" => provider[e] = "ok"
      BY <3>1 DEF OwnerInv, OwnedJob
    <3>5. Promise(job[h])'
      BY <3>1, <3>2, <3>3, <3>4 DEF Promise, Executing, Told, Resolved
    <3>6. \A g \in Handlers \ {h} : ~(job[g].at = "resolved" /\ job[g].approval = a)
      BY <1>0, <3>1 DEF PromisesInv, Promise
    <3> QED BY <3>1, <3>5, <3>6, SilentFrame
  <2> QED BY <2>1, <2>2
<1>4. CASE Fail(h)
  <2>1. CASE Moves(h, "conflict")
    BY <1>4, <1>g, <2>1, FailEffect DEF Moves, Executing
  <2>2. CASE ~Moves(h, "conflict")
    <3> DEFINE e == job[h].attempt
    <3>1. /\ job[h].at = "fail" /\ log' = log
          /\ attempts[e].outcome = "running"
          /\ attempts'[e].outcome = "failed"
          /\ Moves(h, "failed")
      BY <1>4, <2>2, FailEffect
    <3>2. e \in AttemptIds
      BY <1>0, <3>1 DEF JobReady, Executing
    <3>3. ~Told("approval_execution_failed", e)
      BY <1>0, <3>1, NotYetTold
    <3>4. Only(h) /\ job'[h].at = "failed" /\ job'[h].attempt = e
      BY <3>1 DEF Moves
    <3>5. Promise(job[h])'
      BY <3>1, <3>2, <3>3, <3>4 DEF Promise, Executing, Told
    <3> QED BY <3>1, <3>4, <3>5, SilentFrame
  <2> QED BY <2>1, <2>2
<1>5. CASE ReadConflict(h)
  BY <1>5, <1>g, ReadConflictEffect
<1>6. CASE \/ RecordFailure(h) \/ RecordConflict(h) \/ RecordResolution(h)
           \/ RecordExecution(h) \/ RecordRecovery(h) \/ RecordReset(h)
  BY <1>6, EvidenceRecord
<1>7. CASE ResetError(h)
  <2>1. CASE Frees(h)
    BY <1>7, <1>f, <2>1, ResetErrorEffect
  <2>2. CASE Moves(h, "reset_done")
    <3>1. Only(h) /\ job'[h].at = "reset_done" /\ log' = log
      BY <1>7, <2>2, ResetErrorEffect DEF Moves
    <3>2. Promise(job[h])'
      BY <3>1 DEF Promise, Executing
    <3> QED BY <3>1, <3>2, SilentFrame
  <2> QED BY <1>7, <2>1, <2>2, ResetErrorEffect
<1> QED BY <1>1, <1>2, <1>3, <1>4, <1>5, <1>6, <1>7, Zenon DEF Continue

\* ... and every step of the service.
LEMMA EvidenceStep ==
    ASSUME GatewayInv, OwnerInv, CallsInv, LivesInv, EvidenceInv,
           \/ [GatewayNext /\ FreshIds]_gatewayVars
           \/ Restart \/ \E h \in Handlers : AppendRaises(h)
    PROVE  EvidenceInv'
<1> USE DEF GatewayInv, GatewayTypeOK
<1>k. Keeps
  BY KeepsStep
<1>q. ASSUME log' = log, Quiet \/ Restarted
      PROVE  EvidenceInv'
  BY <1>k, <1>q, PromisesQuiet, LogStep DEF EvidenceInv
<1>1. CASE [GatewayNext /\ FreshIds]_gatewayVars
  <2>1. StaysResolved
    BY <1>1, QueueStep, TerminalStep DEF StaysResolved
  <2>2. CASE \E h \in Handlers : Call(h)
    BY <1>k, <2>1, <2>2, EvidenceCall
  <2>3. CASE \E h \in Handlers : Continue(h)
    BY <1>k, <2>1, <2>3, EvidenceContinue
  <2>4. ASSUME NEW a \in ApprovalIds, NEW context \in DirectContexts,
               CreateDirectly(a, context)
        PROVE  EvidenceInv'
    <3>1. job' = job /\ log' = log
      BY <2>4, OpenEffect DEF Creates
    <3>2. ASSUME NEW h \in Handlers PROVE Promise(job[h])'
      <4>1. PICK j : j = job[h]
        OBVIOUS
      <4>2. /\ j \in Jobs /\ JobReady(j) /\ Promise(j) /\ Untold(j)
            /\ j.at = "resolved" =>
                   requests'[j.approval].status = requests[j.approval].status
        BY <2>1, <3>1, <4>1, QuietUntold
           DEF EvidenceInv, JobsReady, JobReady, PromisesInv, StaysResolved, Promise
      <4>3. Promise(j)'
        BY <1>k, <4>2, PromiseKept
      <4> QED BY <3>1, <4>1, <4>3 DEF Promise
    <3>3. PromisesInv'
      BY <3>1, <3>2 DEF EvidenceInv, PromisesInv
    <3> QED BY <1>k, <3>1, <3>3, LogStep DEF EvidenceInv
  <2>5. CASE TimePasses \/ UNCHANGED gatewayVars
    BY <1>q, <2>5, QuietSteps DEF TimePasses, handlerVars, gatewayVars
  <2> QED BY <1>1, <2>2, <2>3, <2>4, <2>5 DEF GatewayNext
<1>2. CASE Restart
  BY <1>2, <1>q, RestartEffect DEF Restarted
<1>3. CASE \E h \in Handlers : AppendRaises(h)
  BY <1>3, <1>q, QuietSteps DEF AppendRaises
<1> QED BY <1>1, <1>2, <1>3

\* The empty log is true.
LEMMA EvidenceInit == GatewayInit => EvidenceInv
<1> SUFFICES ASSUME GatewayInit PROVE EvidenceInv
  OBVIOUS
<1>1. log = <<>> /\ \A h \in Handlers : job[h] = IdleJob
  BY DEF GatewayInit
<1>2. LogInv
  BY <1>1 DEF LogInv, ExecutionFollowsResolution, Events
<1>3. PromisesInv
  BY <1>1, IdleFields DEF PromisesInv, Promise, Executing
<1> QED BY <1>2, <1>3 DEF EvidenceInv

\* The invariant says no less than the property.
LEMMA TruthFromInv ==
    ASSUME EvidenceInv
    PROVE  EvidenceIsTrue
<1>1. LogInv
  BY DEF EvidenceInv
<1>2. OutcomesAreTrue
  BY <1>1 DEF OutcomesAreTrue, Events, LogInv, TrueEntry
<1>3. EndsAreRecordedOnce
  <2>1. \A i \in DOMAIN log : log[i] \in Entries
    BY <1>1 DEF LogInv
  <2>2. \A i \in DOMAIN log : log[i].type \in Ends \cup {"approval_resolved",
                                                    "approval_execution_error_reset"}
    BY <2>1 DEF Entries, Ends
  <2>3. ASSUME NEW i \in DOMAIN log, NEW j \in DOMAIN log,
               log[i].type = log[j].type,
               log[i].approval = log[j].approval,
               \/ log[i].type = "approval_resolved"
               \/ /\ log[i].type # "approval_execution_error_reset"
                  /\ log[i].attempt = log[j].attempt
        PROVE  SameSubject(log[i], log[j])
    BY <2>2, <2>3 DEF SameSubject
  <2> QED BY <1>1, <2>3 DEF EndsAreRecordedOnce, LogInv
<1> QED BY <1>1, <1>2, <1>3 DEF EvidenceIsTrue, LogInv

----------------------------------------------------------------------------
(* No event is missing without a fault.                                    *)

\* The event about the end of an attempt, or of an approval, is in the log, or
\* a thread is about to append it, or a fault lost it: Accounted, with the kind
\* of event each thread owes.
FailureKnown(e) ==
    \/ Told("approval_execution_failed", e)
    \/ \E h \in Handlers : job[h].at = "failed" /\ job[h].attempt = e
    \/ e \in unrecorded

\* The same for a recovery: several may be owed by one thread.
RecoveryKnown(e) ==
    \/ Told("approval_execution_stale_recovered", e)
    \/ \E h \in Handlers : job[h].at = "recovered" /\ \E r \in job[h].todo : r.attempt = e
    \/ e \in unrecorded

\* A thread that is to record the execution of an attempt.
Executes(j) == j.at = "executed" \/ (j.at = "resolved" /\ j.context = "chat_completion")

\* The same for an execution, ...
ExecutionKnown(e) ==
    \/ Told("approval_executed", e)
    \/ \E h \in Handlers : Executes(job[h]) /\ job[h].attempt = e
    \/ e \in unrecorded

\* ... and for a resolution.
ResolutionKnown(a) ==
    \/ Resolved(a)
    \/ \E h \in Handlers : job[h].at = "resolved" /\ job[h].approval = a
    \/ a \in unrecorded

\* The strengthening of MissingEvidenceIsAFault: the fault or the thread is one
\* that owes this very event.
AccountInv ==
    /\ \A e \in AttemptIds :
           /\ attempts[e].outcome = "failed" => FailureKnown(e)
           /\ attempts[e].outcome = "superseded" => RecoveryKnown(e)
           /\ attempts[e].outcome = "succeeded" /\ provider[e] = "ok" => ExecutionKnown(e)
    /\ \A a \in ApprovalIds :
           requests[a].status \in {"approved", "rejected"} => ResolutionKnown(a)

\* Whatever thread h owed is recorded, or lost, or still owed after the step.
Delivers(h) ==
    /\ \A e : job[h].at = "failed" /\ job[h].attempt = e => FailureKnown(e)'
    /\ \A e : job[h].at = "recovered" /\ (\E r \in job[h].todo : r.attempt = e)
                  => RecoveryKnown(e)'
    /\ \A e : Executes(job[h]) /\ job[h].attempt = e => ExecutionKnown(e)'
    /\ \A a : job[h].at = "resolved" /\ job[h].approval = a => ResolutionKnown(a)'

\* Nothing that was told or lost is forgotten.
Remembers ==
    /\ \A type, e : Told(type, e) => Told(type, e)'
    /\ \A a : Resolved(a) => Resolved(a)'
    /\ unrecorded \subseteq unrecorded'

\* A step in which every thread delivers, and that accounts for the ends it
\* causes, keeps the invariant.
LEMMA AccountFrame ==
    ASSUME AccountInv, Remembers,
           \A h \in Handlers : job'[h] = job[h] \/ Delivers(h),
           \A e \in AttemptIds :
               /\ attempts'[e].outcome = "failed" =>
                      attempts[e].outcome = "failed" \/ FailureKnown(e)'
               /\ attempts'[e].outcome = "superseded" =>
                      attempts[e].outcome = "superseded" \/ RecoveryKnown(e)'
               /\ attempts'[e].outcome = "succeeded" /\ provider'[e] = "ok" =>
                      \/ attempts[e].outcome = "succeeded" /\ provider[e] = "ok"
                      \/ ExecutionKnown(e)',
           \A a \in ApprovalIds :
               requests'[a].status \in {"approved", "rejected"} =>
                   \/ requests[a].status \in {"approved", "rejected"}
                   \/ ResolutionKnown(a)'
    PROVE  AccountInv'
<1>1. ASSUME NEW e, FailureKnown(e) PROVE FailureKnown(e)'
  BY <1>1 DEF FailureKnown, Delivers, Remembers
<1>2. ASSUME NEW e, RecoveryKnown(e) PROVE RecoveryKnown(e)'
  <2>1. ASSUME NEW h \in Handlers, job[h].at = "recovered",
               \E r \in job[h].todo : r.attempt = e
        PROVE  RecoveryKnown(e)'
    BY <2>1 DEF RecoveryKnown, Delivers
  <2> QED BY <1>2, <2>1 DEF RecoveryKnown, Remembers
<1>3. ASSUME NEW e, ExecutionKnown(e) PROVE ExecutionKnown(e)'
  <2>1. ASSUME NEW h \in Handlers, Executes(job[h]), job[h].attempt = e
        PROVE  ExecutionKnown(e)'
    BY <2>1 DEF ExecutionKnown, Executes, Delivers
  <2> QED BY <1>3, <2>1 DEF ExecutionKnown, Remembers
<1>4. ASSUME NEW a, ResolutionKnown(a) PROVE ResolutionKnown(a)'
  BY <1>4 DEF ResolutionKnown, Delivers, Remembers
<1> QED BY <1>1, <1>2, <1>3, <1>4 DEF AccountInv

\* A thread that owes nothing delivers.
LEMMA NothingOwed ==
    ASSUME NEW h \in Handlers, job[h].at \notin {"failed", "recovered", "executed", "resolved"}
    PROVE  Delivers(h)
BY DEF Delivers, Executes

\* The log only grows.
LEMMA RemembersStep ==
    ASSUME log \in Seq(Entries),
           unrecorded \subseteq unrecorded',
           log' = log \/ \E event \in Entries : Record(event)
    PROVE  Remembers
<1>1. CASE log' = log
  BY <1>1 DEF Remembers, Told, Resolved
<1>2. ASSUME NEW event \in Entries, Record(event) PROVE Remembers
  BY <1>2, Tells DEF Remembers
<1> QED BY <1>1, <1>2

\* A step of thread h alone that appends nothing, ends no attempt and closes no
\* approval, taken when h owes nothing.
LEMMA AccountIdle ==
    ASSUME GatewayInv, EvidenceInv, AccountInv, log' = log, unrecorded' = unrecorded,
           NEW h \in Handlers, Only(h),
           job[h].at \notin {"failed", "recovered", "executed", "resolved"},
           \A e \in AttemptIds :
               attempts'[e].outcome \in Settled =>
                   /\ attempts[e].outcome = attempts'[e].outcome
                   /\ attempts'[e].outcome = "succeeded" => provider'[e] = provider[e],
           \A a \in ApprovalIds :
               requests'[a].status \in {"approved", "rejected"} =>
                   requests[a].status \in {"approved", "rejected"}
    PROVE  AccountInv'
<1>1. Remembers
  BY RemembersStep DEF EvidenceInv, LogInv
<1>2. \A g \in Handlers : job'[g] = job[g] \/ Delivers(g)
  BY NothingOwed DEF Only
<1> QED BY <1>1, <1>2, AccountFrame DEF Settled

\* Steps that append an event.
LEMMA AccountRecord ==
    ASSUME GatewayInv, EvidenceInv, AccountInv, unrecorded' = unrecorded,
           NEW h \in Handlers,
           \/ RecordFailure(h) \/ RecordConflict(h) \/ RecordResolution(h)
           \/ RecordExecution(h) \/ RecordRecovery(h) \/ RecordReset(h)
    PROVE  AccountInv'
<1> USE DEF GatewayInv, GatewayTypeOK
<1>0. /\ log \in Seq(Entries) /\ job[h] \in Jobs /\ JobReady(job[h]) /\ Promise(job[h])
      /\ UNCHANGED <<requests, attempts, provider>> /\ Only(h)
  BY RecordEffect DEF EvidenceInv, LogInv, PromisesInv, JobsReady, Appended
<1>f. ASSUME NEW event \in Entries, Record(event), Delivers(h)
      PROVE  AccountInv'
  <2>1. Remembers
    BY <1>0, <1>f, RemembersStep
  <2>2. \A g \in Handlers : job'[g] = job[g] \/ Delivers(g)
    BY <1>0, <1>f DEF Only
  <2> QED BY <1>0, <2>1, <2>2, AccountFrame
<1>1. CASE RecordFailure(h)
  <2>1. PICK event : event = [type |-> "approval_execution_failed",
               approval |-> job[h].approval,
               attempt |-> job[h].attempt, status |-> job[h].status,
               error |-> job[h].error, retryable |-> job[h].retryable,
               domain |-> FailureDomain(job[h].error)]
    OBVIOUS
  <2>2. job[h].at = "failed" /\ Record(event)
    BY <1>1, <2>1 DEF RecordFailure
  <2>3. job[h].attempt \in AttemptIds /\ job[h].approval \in ApprovalIds
    BY <1>0, <2>2 DEF Promise, JobReady
  <2>4. event \in Entries
    BY <1>0, <2>1, <2>3 DEF Jobs, Entries
  <2>5. event.type = "approval_execution_failed" /\ event.attempt = job[h].attempt
    BY <2>1
  <2>6. \A e : job[h].attempt = e => Told("approval_execution_failed", e)'
    BY <1>0, <2>2, <2>4, <2>5, Tells
  <2>7. Delivers(h)
    BY <2>2, <2>6 DEF Delivers, Executes, FailureKnown
  <2> QED BY <1>f, <2>2, <2>4, <2>7
<1>2. CASE RecordConflict(h)
  <2>1. PICK event : event = [type |-> "approval_execution_attempt_conflict",
               approval |-> job[h].approval, attempt |-> job[h].attempt,
               currentAttempt |-> job[h].seen.attempt,
               currentStatus |-> job[h].seen.status]
    OBVIOUS
  <2>2. job[h].at = "conflicted" /\ Record(event)
    BY <1>2, <2>1 DEF RecordConflict
  <2>3. job[h].attempt \in AttemptIds /\ job[h].approval \in ApprovalIds
    BY <1>0, <2>2 DEF Promise, JobReady
  <2>4. event \in Entries
    BY <1>0, <2>1, <2>3 DEF Jobs, Entries
  <2> QED BY <1>f, <2>2, <2>4, NothingOwed
<1>3. CASE RecordExecution(h)
  <2>1. PICK event : event = [type |-> "approval_executed", approval |-> job[h].approval,
               attempt |-> job[h].attempt]
    OBVIOUS
  <2>2. job[h].at = "executed" /\ Record(event)
    BY <1>3, <2>1 DEF RecordExecution
  <2>3. job[h].attempt \in AttemptIds /\ job[h].approval \in ApprovalIds
    BY <1>0, <2>2 DEF Promise, JobReady
  <2>4. event \in Entries
    BY <1>0, <2>1, <2>3 DEF Jobs, Entries
  <2>5. event.type = "approval_executed" /\ event.attempt = job[h].attempt
    BY <2>1
  <2>6. \A e : job[h].attempt = e => Told("approval_executed", e)'
    BY <1>0, <2>2, <2>4, <2>5, Tells
  <2>7. Delivers(h)
    BY <2>2, <2>6 DEF Delivers, ExecutionKnown
  <2> QED BY <1>f, <2>2, <2>4, <2>7
<1>4. CASE RecordReset(h)
  <2>1. PICK event : event = [type |-> "approval_execution_error_reset",
               approval |-> job[h].approval,
               previousError |-> job[h].seen.error,
               previousRetryable |-> job[h].seen.retryable]
    OBVIOUS
  <2>2. job[h].at = "reset_done" /\ Record(event)
    BY <1>4, <2>1 DEF RecordReset
  <2>3. job[h].approval \in ApprovalIds
    BY <1>0, <2>2 DEF JobReady
  <2>4. event \in Entries
    BY <1>0, <2>1, <2>3 DEF Jobs, Entries
  <2> QED BY <1>f, <2>2, <2>4, NothingOwed
<1>5. CASE RecordResolution(h)
  <2>1. PICK event : event = [type |-> "approval_resolved", approval |-> job[h].approval,
               attempt |-> job[h].attempt, status |-> job[h].status]
    OBVIOUS
  <2>2. /\ job[h].at = "resolved" /\ Record(event)
        /\ IF job[h].context = "chat_completion" THEN GoTo(h, "executed") ELSE Done(h)
    BY <1>5, <2>1 DEF RecordResolution
  <2>3. job[h].approval \in ApprovalIds
    BY <1>0, <2>2 DEF JobReady
  <2>4. event \in Entries
    BY <1>0, <2>1, <2>3 DEF Jobs, Entries
  <2>5. event.type = "approval_resolved" /\ event.approval = job[h].approval
    BY <2>1
  <2>6. \A a : job[h].approval = a => ResolutionKnown(a)'
    BY <1>0, <2>2, <2>4, <2>5, Tells DEF ResolutionKnown
  <2>7. ASSUME Executes(job[h])
        PROVE  \A e : job[h].attempt = e => ExecutionKnown(e)'
    <3>1. Moves(h, "executed")
      BY <2>2, <2>7, GoToMoves DEF Executes, Steps
    <3> QED BY <3>1 DEF Moves, ExecutionKnown, Executes
  <2>8. Delivers(h)
    BY <2>2, <2>6, <2>7 DEF Delivers
  <2> QED BY <1>f, <2>2, <2>4, <2>8
<1>6. CASE RecordRecovery(h)
  <2>1. job[h].at = "recovered"
    BY <1>6 DEF RecordRecovery
  <2>2. PICK r \in job[h].todo :
          /\ Record([type |-> "approval_execution_stale_recovered",
                     approval |-> r.approval, attempt |-> r.attempt,
                     error |-> job[h].error])
          /\ IF job[h].todo = {r}
               THEN Done(h)
               ELSE job' = [job EXCEPT ![h].todo = @ \ {r}]
    BY <1>6 DEF RecordRecovery
  <2>3. PICK event : event = [type |-> "approval_execution_stale_recovered",
                     approval |-> r.approval, attempt |-> r.attempt,
                     error |-> job[h].error]
    OBVIOUS
  <2>4. Record(event)
    BY <2>2, <2>3
  <2>5. r.approval \in ApprovalIds /\ r.attempt \in AttemptIds
    BY <1>0, <2>1 DEF Jobs
  <2>6. event \in Entries
    BY <1>0, <2>3, <2>5 DEF Jobs, Entries
  <2>7. event.type = "approval_execution_stale_recovered" /\ event.attempt = r.attempt
    BY <2>3
  <2>8. \A e : r.attempt = e => Told("approval_execution_stale_recovered", e)'
    BY <1>0, <2>4, <2>6, <2>7, Tells
  <2>9. ASSUME NEW s \in job[h].todo \ {r}
        PROVE  job'[h].at = "recovered" /\ s \in job'[h].todo
    <3>1. job' = [job EXCEPT ![h].todo = @ \ {r}]
      BY <2>2, <2>9
    <3> QED BY <1>0, <2>1, <2>9, <3>1 DEF Jobs
  <2>10. ASSUME NEW s \in job[h].todo
         PROVE  \A e : s.attempt = e => RecoveryKnown(e)'
    BY <2>8, <2>9 DEF RecoveryKnown
  <2>11. Delivers(h)
    BY <2>1, <2>10 DEF Delivers, Executes
  <2> QED BY <1>f, <2>4, <2>6, <2>11
<1> QED BY <1>1, <1>2, <1>3, <1>4, <1>5, <1>6

\* A new API call: whoever takes it owed nothing.
LEMMA AccountCall ==
    ASSUME GatewayInv, EvidenceInv, AccountInv, unrecorded' = unrecorded,
           NEW h \in Handlers, Call(h)
    PROVE  AccountInv'
<1> USE DEF GatewayInv, GatewayTypeOK
<1>0. /\ job[h].at = "idle" /\ log' = log
      /\ Remembers
  <2>1. log' = log /\ job[h].at = "idle"
    BY DEF Call, ChatRequest, EvaluateRequest, Reject, ResetRequest, Approve, RecoverStale,
           Accept
  <2> QED BY <2>1, RemembersStep DEF EvidenceInv, LogInv
<1>d. ASSUME Only(h) PROVE \A g \in Handlers : job'[g] = job[g] \/ Delivers(g)
  BY <1>0, <1>d, NothingOwed DEF Only
<1>1. ASSUME NEW a \in ApprovalIds, ChatRequest(h, a) \/ EvaluateRequest(h, a)
      PROVE  AccountInv'
  <2>1. Creates(a) /\ Only(h)
    BY <1>1, ChatRequestEffect, OpenEffect DEF Only
  <2> QED BY <1>0, <2>1, AccountIdle DEF Creates, OthersKept
<1>2. ASSUME NEW a \in ApprovalIds, ResetRequest(h, a)
      PROVE  AccountInv'
  BY <1>0, <1>2, ResetRequestEffect, AccountIdle
<1>3. ASSUME NEW a \in ApprovalIds, NEW e \in AttemptIds, Approve(h, a, e)
      PROVE  AccountInv'
  <2>1. /\ Only(h) /\ provider' = provider
        /\ requests'[a].status = "executing" /\ OthersKept(a)
        /\ attempts'[e].outcome = "running"
        /\ \A f \in AttemptIds \ {e} : attempts'[f] = attempts[f]
    BY <1>3, ApproveEffect
  <2>2. \A b \in ApprovalIds : requests'[b].status \in {"approved", "rejected"} =>
            requests[b].status \in {"approved", "rejected"}
    BY <2>1 DEF OthersKept
  <2>3. \A f \in AttemptIds : attempts'[f].outcome \in Settled =>
            attempts[f].outcome = attempts'[f].outcome
    BY <2>1 DEF Settled
  <2> QED BY <1>0, <2>1, <2>2, <2>3, AccountIdle
<1>4. ASSUME NEW a \in ApprovalIds, Reject(h, a)
      PROVE  AccountInv'
  <2>1. /\ Only(h) /\ UNCHANGED <<attempts, provider>> /\ OthersKept(a)
        /\ job'[h].at = "resolved" /\ job'[h].approval = a
    BY <1>4, RejectEffect
  <2>2. ResolutionKnown(a)'
    BY <2>1 DEF ResolutionKnown
  <2>3. \A b \in ApprovalIds : requests'[b].status \in {"approved", "rejected"} =>
            requests[b].status \in {"approved", "rejected"} \/ ResolutionKnown(b)'
    BY <2>1, <2>2 DEF OthersKept
  <2> QED BY <1>0, <1>d, <2>1, <2>3, AccountFrame
<1>5. CASE RecoverStale(h)
  <2>1. PICK recovered : Recovers(h, recovered)
    BY <1>5, RecoverStaleEffect
  <2>2. /\ Only(h) /\ provider' = provider /\ job'[h].at = "recovered"
        /\ job'[h].todo = {[approval |-> a, attempt |-> requests[a].attempt] : a \in recovered}
        /\ \A b \in ApprovalIds : requests'[b].status \in {"approved", "rejected"} =>
               requests[b].status \in {"approved", "rejected"}
    BY <2>1 DEF Recovers
  <2>3. ASSUME NEW e \in AttemptIds
        PROVE  \/ attempts'[e] = attempts[e]
               \/ attempts'[e].outcome = "superseded" /\ RecoveryKnown(e)'
    <3>1. CASE \A a \in recovered : requests[a].attempt # e
      BY <2>1, <3>1 DEF Recovers
    <3>2. ASSUME NEW a \in recovered, requests[a].attempt = e
          PROVE  attempts'[e].outcome = "superseded" /\ RecoveryKnown(e)'
      <4>1. PICK r : r = [approval |-> a, attempt |-> requests[a].attempt]
        OBVIOUS
      <4>2. r \in job'[h].todo /\ r.attempt = e
        BY <2>2, <3>2, <4>1
      <4> QED BY <2>1, <2>2, <3>2, <4>2 DEF Recovers, RecoveryKnown
    <3> QED BY <3>1, <3>2
  <2> QED BY <1>0, <1>d, <2>2, <2>3, AccountFrame
<1> QED BY <1>1, <1>2, <1>3, <1>4, <1>5 DEF Call

\* An accepted call goes on.
LEMMA AccountContinue ==
    ASSUME GatewayInv, OwnerInv, CallsInv, EvidenceInv, AccountInv,
           unrecorded' = unrecorded, NEW h \in Handlers, Continue(h)
    PROVE  AccountInv'
<1> USE DEF GatewayInv, GatewayTypeOK
<1>1. CASE AttachChatContext(h)
  <2>1. /\ QueueKept /\ Frees(h) /\ job[h].at = "attach" /\ UNCHANGED <<provider, log>>
    BY <1>1, AttachEffect
  <2>2. /\ Only(h) /\ attempts' = attempts
        /\ \A a \in ApprovalIds : requests'[a].status = requests[a].status
    BY <2>1 DEF QueueKept, SameVerdict, Frees
  <2> QED BY <2>1, <2>2, AccountIdle
<1>2. CASE \/ ExecuteStoredContext(h) \/ ProviderReturns(h) \/ CheckAttempt(h)
           \/ ReadConflict(h)
  <2>1. /\ UNCHANGED <<requests, attempts, log>> /\ Only(h)
        /\ job[h].at \in Executing \cup {"conflict"}
    BY <1>2, ExecuteEffect, ReturnEffect, CheckEffect, ReadConflictEffect
       DEF Moves, Raises, RaisesProviderError, Frees, Executing
  <2>2. \A e \in AttemptIds : attempts[e].outcome = "succeeded" => provider'[e] = provider[e]
    BY CallAndOriginStep DEF GatewayNext
  <2> QED BY <2>1, <2>2, AccountIdle DEF Executing
<1>3. CASE Finish(h)
  <2>1. CASE UNCHANGED <<requests, attempts>>
    <3>1. Moves(h, "conflict") /\ job[h].at = "finish" /\ UNCHANGED <<provider, log>>
      BY <1>3, <2>1, FinishEffect DEF IsCurrentAttempt
    <3> QED BY <2>1, <3>1, AccountIdle DEF Moves
  <2>2. CASE ~UNCHANGED <<requests, attempts>>
    <3>1. PICK a, e : a = job[h].approval /\ e = job[h].attempt
      OBVIOUS
    <3>2. /\ job[h].at = "finish" /\ a \in ApprovalIds /\ e \in AttemptIds
          /\ CallingJob(job[h])
      BY <1>3, <3>1, FinishEffect DEF JobsReady, JobReady, Executing, CallsInv
    <3>3. /\ provider' = provider /\ log' = log
          /\ OthersKept(a)
          /\ attempts'[e].outcome = "succeeded"
          /\ \A f \in AttemptIds \ {e} : attempts'[f] = attempts[f]
          /\ Only(h)
          /\ job'[h].at = "resolved" /\ job'[h].approval = a /\ job'[h].attempt = e
          /\ job'[h].context = job[h].context
      BY <1>3, <2>2, <3>1, FinishEffect
    <3>4. ResolutionKnown(a)'
      BY <3>3 DEF ResolutionKnown
    <3>5. provider'[e] = "ok" => ExecutionKnown(e)'
      <4>1. provider[e] = "ok" => job[h].context = "chat_completion"
        BY <3>1, <3>2 DEF CallingJob, Executing
      <4> QED BY <3>3, <4>1 DEF ExecutionKnown, Executes
    <3>6. \A g \in Handlers : job'[g] = job[g] \/ Delivers(g)
      BY <3>2, <3>3, NothingOwed DEF Only
    <3>7. Remembers
      BY <3>3, RemembersStep DEF EvidenceInv, LogInv
    <3>8. \A b \in ApprovalIds : requests'[b].status \in {"approved", "rejected"} =>
              requests[b].status \in {"approved", "rejected"} \/ ResolutionKnown(b)'
      BY <3>3, <3>4 DEF OthersKept
    <3>9. \A f \in AttemptIds :
              \/ attempts'[f] = attempts[f] /\ provider'[f] = provider[f]
              \/ /\ attempts'[f].outcome = "succeeded"
                 /\ provider'[f] = "ok" => ExecutionKnown(f)'
      BY <3>3, <3>5
    <3> QED BY <3>6, <3>7, <3>8, <3>9, AccountFrame
  <2> QED BY <2>1, <2>2
<1>4. CASE Fail(h)
  <2>1. CASE UNCHANGED <<requests, attempts>>
    <3>1. Only(h) /\ job[h].at = "fail" /\ UNCHANGED <<provider, log>>
      BY <1>4, <2>1, FailEffect DEF Moves
    <3> QED BY <2>1, <3>1, AccountIdle
  <2>2. CASE ~UNCHANGED <<requests, attempts>>
    <3>1. PICK a, e : a = job[h].approval /\ e = job[h].attempt
      OBVIOUS
    <3>2. /\ job[h].at = "fail" /\ a \in ApprovalIds /\ e \in AttemptIds
      BY <1>4, <3>1, FailEffect DEF JobsReady, JobReady, Executing
    <3>3. /\ provider' = provider /\ log' = log
          /\ OthersKept(a)
          /\ requests'[a].status \in {"pending", "invalid_context"}
          /\ attempts'[e].outcome = "failed"
          /\ \A f \in AttemptIds \ {e} : attempts'[f] = attempts[f]
          /\ Only(h)
          /\ job'[h].at = "failed" /\ job'[h].attempt = e
      BY <1>4, <2>2, <3>1, FailEffect DEF Moves
    <3>4. FailureKnown(e)'
      BY <3>3 DEF FailureKnown
    <3>6. \A g \in Handlers : job'[g] = job[g] \/ Delivers(g)
      BY <3>2, <3>3, NothingOwed DEF Only
    <3>7. Remembers
      BY <3>3, RemembersStep DEF EvidenceInv, LogInv
    <3>8. \A b \in ApprovalIds : requests'[b].status \in {"approved", "rejected"} =>
              requests[b].status \in {"approved", "rejected"}
      BY <3>3 DEF OthersKept
    <3>9. \A f \in AttemptIds :
              \/ attempts'[f] = attempts[f] /\ provider'[f] = provider[f]
              \/ attempts'[f].outcome = "failed" /\ FailureKnown(f)'
      BY <3>3, <3>4
    <3> QED BY <3>6, <3>7, <3>8, <3>9, AccountFrame
  <2> QED BY <2>1, <2>2
<1>5. CASE \/ RecordFailure(h) \/ RecordConflict(h) \/ RecordResolution(h)
           \/ RecordExecution(h) \/ RecordRecovery(h) \/ RecordReset(h)
  BY <1>5, AccountRecord
<1>6. CASE ResetError(h)
  <2>1. /\ Only(h) /\ job[h].at = "reset" /\ UNCHANGED <<attempts, provider, log>>
        /\ \A a \in ApprovalIds : requests'[a].status \in {"approved", "rejected"} =>
               requests[a].status \in {"approved", "rejected"}
    BY <1>6, ResetErrorEffect DEF Frees, Moves, OthersKept
  <2> QED BY <2>1, AccountIdle
<1> QED BY <1>1, <1>2, <1>3, <1>4, <1>5, <1>6, Zenon DEF Continue

\* The fields a thread frees are lost with it.
LEMMA FaultDelivers ==
    ASSUME GatewayInv, EvidenceInv, NEW h \in Handlers, Owed(h) \subseteq unrecorded'
    PROVE  Delivers(h)
<1> USE DEF GatewayInv, GatewayTypeOK
<1>0. job[h] \in Jobs /\ JobReady(job[h]) /\ Promise(job[h])
  BY DEF EvidenceInv, PromisesInv, JobsReady
<1>1. ASSUME NEW e, job[h].at = "failed" /\ job[h].attempt = e
      PROVE  e \in unrecorded'
  BY <1>0, <1>1 DEF Owed, Promise
<1>2. ASSUME NEW e, job[h].at = "recovered" /\ (\E r \in job[h].todo : r.attempt = e)
      PROVE  e \in unrecorded'
  <2>1. e \in AttemptIds
    BY <1>0, <1>2 DEF Jobs
  <2> QED BY <1>2, <2>1 DEF Owed
<1>3. ASSUME NEW e, Executes(job[h]) /\ job[h].attempt = e
      PROVE  e \in unrecorded'
  BY <1>0, <1>3 DEF Owed, Executes, Promise
<1>4. ASSUME NEW a, job[h].at = "resolved" /\ job[h].approval = a
      PROVE  a \in unrecorded'
  BY <1>0, <1>4 DEF Owed, JobReady
<1> QED BY <1>1, <1>2, <1>3, <1>4
        DEF Delivers, FailureKnown, RecoveryKnown, ExecutionKnown, ResolutionKnown

\* The faults account for what they lose.
LEMMA AccountFault ==
    ASSUME GatewayInv, EvidenceInv, AccountInv,
           Restart \/ \E h \in Handlers : AppendRaises(h)
    PROVE  AccountInv'
<1> USE DEF GatewayInv, GatewayTypeOK
<1>0. log \in Seq(Entries)
  BY DEF EvidenceInv, LogInv
<1>1. ASSUME NEW h \in Handlers, AppendRaises(h)
      PROVE  AccountInv'
  <2>1. /\ Frees(h) /\ unrecorded' = unrecorded \cup Owed(h)
        /\ UNCHANGED <<requests, attempts, provider, log>>
    BY <1>1, DoneFrees DEF AppendRaises, vars
  <2>2. \A g \in Handlers : job'[g] = job[g] \/ Delivers(g)
    BY <2>1, FaultDelivers DEF Frees, Only
  <2>3. Remembers
    BY <1>0, <2>1, RemembersStep
  <2> QED BY <2>1, <2>2, <2>3, AccountFrame
<1>2. CASE Restart
  <2>1. /\ Restarted /\ log' = log /\ provider' = provider
        /\ unrecorded' = unrecorded
               \cup {e \in AttemptIds : attempts[e].outcome = "running"}
               \cup UNION {Owed(h) : h \in Handlers}
    BY <1>2, RestartEffect DEF Restart, Restarted
  <2>2. \A h \in Handlers : Delivers(h)
    BY <2>1, FaultDelivers
  <2>3. Remembers
    BY <1>0, <2>1, RemembersStep
  <2>4. ASSUME NEW e \in AttemptIds
        PROVE  \/ attempts'[e].outcome = attempts[e].outcome
               \/ attempts'[e].outcome = "superseded" /\ RecoveryKnown(e)'
    BY <2>1 DEF Restarted, RecoveryKnown
  <2>5. \A a \in ApprovalIds : requests'[a].status \notin {"approved", "rejected"}
    BY <2>1 DEF Restarted, NewRequest
  <2> QED BY <2>1, <2>2, <2>3, <2>4, <2>5, AccountFrame
<1> QED BY <1>1, <1>2

\* Every step of the service accounts for the events it owes.
LEMMA AccountStep ==
    ASSUME GatewayInv, OwnerInv, CallsInv, LivesInv, EvidenceInv, AccountInv,
           [ServiceNext]_serviceVars
    PROVE  AccountInv'
<1> USE DEF GatewayInv, GatewayTypeOK
<1>1. ASSUME GatewayNext /\ FreshIds /\ UNCHANGED faultVars
      PROVE  AccountInv'
  <2>1. unrecorded' = unrecorded
    BY <1>1 DEF faultVars
  <2>2. ASSUME NEW a \in ApprovalIds, NEW context \in DirectContexts,
               CreateDirectly(a, context)
        PROVE  AccountInv'
    <3>1. Creates(a) /\ job' = job
      BY <2>2, OpenEffect
    <3>2. Remembers
      BY <2>1, <3>1, RemembersStep DEF Creates, EvidenceInv, LogInv
    <3> QED BY <3>1, <3>2, AccountFrame DEF Creates, OthersKept
  <2>3. CASE TimePasses
    <3>1. UNCHANGED <<requests, attempts, job, provider, log>>
      BY <2>3 DEF TimePasses, Tick, handlerVars
    <3>2. Remembers
      BY <2>1, <3>1, RemembersStep DEF EvidenceInv, LogInv
    <3> QED BY <3>1, <3>2, AccountFrame
  <2> QED BY <1>1, <2>1, <2>2, <2>3, AccountCall, AccountContinue DEF GatewayNext
<1>2. CASE UNCHANGED serviceVars
  <2>1. UNCHANGED <<requests, attempts, job, provider, log, unrecorded>>
    BY <1>2 DEF serviceVars, gatewayVars, handlerVars, faultVars, vars
  <2>2. Remembers
    BY <2>1, RemembersStep DEF EvidenceInv, LogInv
  <2> QED BY <2>1, <2>2, AccountFrame
<1> QED BY <1>1, <1>2, AccountFault DEF ServiceNext

\* The invariant says no less than the property.
LEMMA AccountedFromInv ==
    ASSUME GatewayInv, AccountInv
    PROVE  MissingEvidenceIsAFault
<1> USE DEF GatewayInv, GatewayTypeOK
<1>1. ASSUME NEW e \in AttemptIds, FailureKnown(e)
      PROVE  Accounted(e, "approval_execution_failed", LAMBDA r : r.attempt)
  BY <1>1 DEF FailureKnown, Told, Accounted, Events, Owed
<1>2. ASSUME NEW e \in AttemptIds, RecoveryKnown(e)
      PROVE  Accounted(e, "approval_execution_stale_recovered", LAMBDA r : r.attempt)
  BY <1>2 DEF RecoveryKnown, Told, Accounted, Events, Owed
<1>3. ASSUME NEW e \in AttemptIds, ExecutionKnown(e)
      PROVE  Accounted(e, "approval_executed", LAMBDA r : r.attempt)
  BY <1>3 DEF ExecutionKnown, Executes, Told, Accounted, Events, Owed
<1>4. ASSUME NEW a \in ApprovalIds, ResolutionKnown(a)
      PROVE  Accounted(a, "approval_resolved", LAMBDA r : r.approval)
  BY <1>4 DEF ResolutionKnown, Resolved, Accounted, Events, Owed
<1> QED BY <1>1, <1>2, <1>3, <1>4 DEF AccountInv, MissingEvidenceIsAFault

----------------------------------------------------------------------------
(* Conflicts.                                                              *)

\* An attempt that was begun and is not current never becomes so again.
CurrentStays ==
    \A a \in ApprovalIds, e \in AttemptIds :
        attempts[e].outcome # "unused" /\ IsCurrentAttempt(a, e)' => IsCurrentAttempt(a, e)

\* No method of the queue makes an old attempt current.
LEMMA CurrentStep ==
    ASSUME TypeOK, AttemptInv, [Next]_vars
    PROVE  CurrentStays
<1> USE DEF TypeOK
<1> SUFFICES ASSUME NEW a \in ApprovalIds, NEW e \in AttemptIds,
                    attempts[e].outcome # "unused", IsCurrentAttempt(a, e)'
             PROVE  IsCurrentAttempt(a, e)
  BY DEF CurrentStays
<1> USE DEF IsCurrentAttempt
<1>1. ASSUME NEW b \in ApprovalIds, NEW context, Create(b, context)
      PROVE  IsCurrentAttempt(a, e)
  BY <1>1 DEF Create, NewRequest
<1>2. ASSUME NEW b \in ApprovalIds, NEW context, AttachContext(b, context)
      PROVE  IsCurrentAttempt(a, e)
  BY <1>2 DEF AttachContext, Requests
<1>3. ASSUME NEW b \in ApprovalIds, NEW f \in AttemptIds, BeginExecution(b, f)
      PROVE  IsCurrentAttempt(a, e)
  BY <1>3 DEF BeginExecution, StartedRequest
<1>4. ASSUME NEW b \in ApprovalIds, NEW f \in AttemptIds, NEW error, NEW retryable,
             NEW finalStatus, FailExecution(b, f, error, retryable, finalStatus)
      PROVE  IsCurrentAttempt(a, e)
  BY <1>4 DEF FailExecution, FailedRequest, Requests
<1>5. ASSUME NEW b \in ApprovalIds, NEW f \in AttemptIds, FinishExecutionSuccess(b, f)
      PROVE  IsCurrentAttempt(a, e)
  BY <1>5 DEF FinishExecutionSuccess, ApprovedRequest, Requests
<1>6. ASSUME NEW b \in ApprovalIds, ResetExecutionError(b) \/ RejectPending(b)
      PROVE  IsCurrentAttempt(a, e)
  <2>1. CASE ResetExecutionError(b)
    BY <2>1 DEF ResetExecutionError, Requests
  <2>2. CASE RejectPending(b)
    BY <2>2 DEF RejectPending, RejectedRequest, Requests
  <2> QED BY <1>6, <2>1, <2>2
<1>7. ASSUME NEW timeout \in Timeouts, NEW limit \in Limits, NEW now \in 0..clock,
             NEW reason \in RecoveryReasons, Recover(timeout, limit, now, reason)
      PROVE  IsCurrentAttempt(a, e)
  <2>1. PICK recovered \in Batches(StaleAt(now, timeout), limit) :
            RecoverStaleExecutions(recovered, now, reason)
    BY <1>7 DEF Recover
  <2>2. /\ \A b \in recovered : requests'[b].status = "pending"
        /\ \A b \in ApprovalIds \ recovered : requests'[b] = requests[b]
    BY <2>1, RecoveryEffect
  <2> QED BY <2>2
<1>8. CASE UNCHANGED requests
  BY <1>8
<1>9. CASE Next
  BY <1>1, <1>2, <1>3, <1>4, <1>5, <1>6, <1>7, <1>8, <1>9, Zenon DEF Next, Tick
<1> QED BY <1>8, <1>9 DEF vars

\* A thread reports a conflict only about an attempt that is not current, and
\* what it reads of the approval afterwards shows that.
ConflictJob(j) ==
    /\ j.at = "conflict" => ~IsCurrentAttempt(j.approval, j.attempt)
    /\ j.at = "conflicted" => ~(j.seen.status = "executing" /\ j.seen.attempt = j.attempt)

\* The strengthening of ConflictMeansMoved.
ConflictInv == ConflictMeansMoved /\ \A h \in Handlers : ConflictJob(job[h])

\* The event shows that the approval had moved on.
ShowsMove(event) ==
    event.type = "approval_execution_attempt_conflict" =>
        event.currentStatus # "executing" \/ event.currentAttempt # event.attempt

\* A step that makes no old attempt current, after which every thread that moved
\* to a conflict has one to report, and that records none that is not.
LEMMA ConflictFrame ==
    ASSUME GatewayInv, OwnerInv, EvidenceInv, ConflictInv, CurrentStays,
           \A h \in Handlers : \/ job'[h] = job[h]
                               \/ job'[h].at \notin {"conflict", "conflicted"}
                               \/ ConflictJob(job[h])',
           log' = log \/ \E event \in Entries : Record(event) /\ ShowsMove(event)
    PROVE  ConflictInv'
<1> USE DEF GatewayInv, GatewayTypeOK
<1>1. ASSUME NEW h \in Handlers PROVE ConflictJob(job[h])'
  <2>1. CASE job'[h] = job[h]
    <3>1. PICK j : j = job[h] /\ j = job'[h]
      BY <2>1
    <3>2. ConflictJob(j) /\ Promise(j) /\ JobReady(j) /\ OwnedJob(j)
      BY <3>1 DEF ConflictInv, EvidenceInv, PromisesInv, JobsReady, OwnerInv
    <3>3. j.at = "conflict" => /\ j.attempt \in AttemptIds /\ j.approval \in ApprovalIds
                              /\ attempts[j.attempt].outcome # "unused"
      BY <3>2, SetsAssumption DEF Promise, JobReady, OwnedJob
    <3>4. j.at = "conflict" => ~IsCurrentAttempt(j.approval, j.attempt)'
      BY <3>2, <3>3 DEF ConflictJob, CurrentStays
    <3>5. ConflictJob(j)'
      BY <3>2, <3>4 DEF ConflictJob
    <3> QED BY <3>1, <3>5 DEF ConflictJob
  <2>2. CASE job'[h].at \notin {"conflict", "conflicted"}
    BY <2>2 DEF ConflictJob
  <2> QED BY <2>1, <2>2
<1>2. CASE log' = log
  BY <1>1, <1>2 DEF ConflictInv, ConflictMeansMoved, Events
<1>3. ASSUME NEW event \in Entries, Record(event), ShowsMove(event)
      PROVE  ConflictMeansMoved'
  <2>1. /\ DOMAIN log' = 1..(Len(log) + 1) /\ DOMAIN log = 1..Len(log) /\ Len(log) \in Nat
        /\ \A i \in 1..Len(log) : log'[i] = log[i]
        /\ log'[Len(log) + 1] = event
    BY <1>3, LogGrows DEF EvidenceInv, LogInv
  <2>2. \A i \in DOMAIN log' : (i \in DOMAIN log /\ log'[i] = log[i]) \/ log'[i] = event
    BY <2>1
  <2> QED BY <1>3, <2>2 DEF ConflictInv, ConflictMeansMoved, Events, ShowsMove
<1> QED BY <1>1, <1>2, <1>3 DEF ConflictInv

\* The other events are of other types.
LEMMA OtherRecords ==
    ASSUME NEW h \in Handlers,
           \/ RecordFailure(h) \/ RecordResolution(h) \/ RecordExecution(h)
           \/ RecordRecovery(h) \/ RecordReset(h)
    PROVE  \E event : Record(event) /\ event.type # "approval_execution_attempt_conflict"
<1>1. CASE RecordFailure(h)
  BY <1>1 DEF RecordFailure
<1>2. CASE RecordResolution(h)
  BY <1>2 DEF RecordResolution
<1>3. CASE RecordExecution(h)
  BY <1>3 DEF RecordExecution
<1>4. CASE RecordRecovery(h)
  BY <1>4 DEF RecordRecovery
<1>5. CASE RecordReset(h)
  BY <1>5 DEF RecordReset
<1> QED BY <1>1, <1>2, <1>3, <1>4, <1>5

\* Every step keeps the conflict invariant if no exception of a provider call is
\* a ValueError, which the handler takes for a conflict.
LEMMA ConflictStep ==
    ASSUME GatewayInv, OwnerInv, EvidenceInv, EvidenceInv', ConflictInv,
           "value_error" \notin ProviderResults,
           \/ [GatewayNext /\ FreshIds]_gatewayVars
           \/ Restart \/ \E h \in Handlers : AppendRaises(h)
    PROVE  ConflictInv'
<1> USE DEF GatewayInv, GatewayTypeOK
<1>i. IdleJob.at \notin {"conflict", "conflicted"}
  BY IdleFields
<1>1. CASE Restart
  <2>1. Restarted /\ log' = log
    BY <1>1, RestartEffect DEF Restarted
  <2>2. CurrentStays
    BY <2>1 DEF Restarted, NewRequest, CurrentStays, IsCurrentAttempt
  <2> QED BY <1>i, <2>1, <2>2, ConflictFrame DEF Restarted
<1>2. ASSUME Quiet, log' = log
      PROVE  ConflictInv'
  <2>1. CurrentStays
    BY <1>2 DEF Quiet, QueueKept, SameVerdict, CurrentStays, IsCurrentAttempt
  <2> QED BY <1>2, <1>i, <2>1, ConflictFrame DEF Quiet
<1>3. ASSUME NEW h \in Handlers, AppendRaises(h)
      PROVE  ConflictInv'
  BY <1>2, <1>3, QuietSteps DEF AppendRaises
<1>4. ASSUME [GatewayNext]_gatewayVars
      PROVE  CurrentStays
  BY <1>4, QueueStep, CurrentStep
\* A step of one thread that does not report a conflict.
<1>5. ASSUME CurrentStays, log' = log, NEW h \in Handlers, Only(h),
             job'[h].at \notin {"conflict", "conflicted"}
      PROVE  ConflictInv'
  BY <1>5, ConflictFrame DEF Only
<1>6. ASSUME CurrentStays, log' = log, job' = job
      PROVE  ConflictInv'
  BY <1>6, ConflictFrame
<1>7. ASSUME CurrentStays, NEW h \in Handlers, Call(h)
      PROVE  ConflictInv'
  <2>1. ASSUME NEW a \in ApprovalIds,
               ChatRequest(h, a) \/ EvaluateRequest(h, a) \/ Reject(h, a) \/ ResetRequest(h, a)
        PROVE  ConflictInv'
    BY <1>5, <1>6, <1>7, <2>1, ChatRequestEffect, OpenEffect, RejectEffect,
       ResetRequestEffect DEF Creates
  <2>2. ASSUME NEW a \in ApprovalIds, NEW e \in AttemptIds, Approve(h, a, e)
        PROVE  ConflictInv'
    BY <1>5, <1>7, <2>2, ApproveEffect
  <2>3. CASE RecoverStale(h)
    BY <1>5, <1>7, <2>3, RecoverStaleEffect DEF Recovers
  <2> QED BY <1>7, <2>1, <2>2, <2>3 DEF Call
\* The queue has just refused the attempt of the thread.
<1>8. ASSUME CurrentStays, NEW h \in Handlers, Moves(h, "conflict"), log' = log,
             ~IsCurrentAttempt(job[h].approval, job[h].attempt), requests' = requests
      PROVE  ConflictInv'
  <2>1. ConflictJob(job[h])'
    BY <1>8 DEF Moves, ConflictJob, IsCurrentAttempt
  <2> QED BY <1>8, <2>1, ConflictFrame DEF Moves, Only
<1>9. ASSUME CurrentStays, NEW h \in Handlers, Continue(h)
      PROVE  ConflictInv'
  <2>1. CASE AttachChatContext(h) \/ ExecuteStoredContext(h) \/ ResetError(h)
    BY <1>5, <1>9, <2>1, AttachEffect, ExecuteEffect, ResetErrorEffect, IdleFields
       DEF Moves, Raises, Frees
  <2>2. CASE ProviderReturns(h)
    BY <1>5, <1>9, <2>2, ReturnEffect, IdleFields DEF Moves, Raises, RaisesProviderError, Frees
  <2>3. CASE CheckAttempt(h)
    BY <1>5, <1>8, <1>9, <2>3, CheckEffect DEF Moves, Raises, RaisesProviderError
  <2>4. CASE Finish(h)
    BY <1>5, <1>8, <1>9, <2>4, FinishEffect
  <2>5. CASE Fail(h)
    BY <1>5, <1>8, <1>9, <2>5, FailEffect DEF Moves
  <2>6. CASE ReadConflict(h)
    <3>1. /\ Only(h) /\ job'[h].at = "conflicted" /\ job'[h].attempt = job[h].attempt
          /\ job'[h].seen = Seen(job[h].approval) /\ log' = log
          /\ job[h].at = "conflict"
      BY <2>6, ReadConflictEffect
    <3>2. ~IsCurrentAttempt(job[h].approval, job[h].attempt)
      BY <3>1 DEF ConflictInv, ConflictJob
    <3>3. ConflictJob(job[h])'
      BY <3>1, <3>2 DEF ConflictJob, Seen, IsCurrentAttempt
    <3> QED BY <1>9, <3>1, <3>3, ConflictFrame DEF Only
  <2>7. CASE RecordConflict(h)
    <3>1. PICK event : event = [type |-> "approval_execution_attempt_conflict",
               approval |-> job[h].approval, attempt |-> job[h].attempt,
               currentAttempt |-> job[h].seen.attempt,
               currentStatus |-> job[h].seen.status]
      OBVIOUS
    <3>2. /\ job[h].at = "conflicted" /\ Record(event) /\ Done(h)
          /\ job[h] \in Jobs /\ JobReady(job[h]) /\ Promise(job[h])
          /\ ConflictJob(job[h])
      BY <2>7, <3>1 DEF RecordConflict, JobsReady, EvidenceInv, PromisesInv, ConflictInv
    <3>3. job[h].attempt \in AttemptIds /\ job[h].approval \in ApprovalIds
      BY <3>2 DEF Promise, JobReady
    <3>4. event \in Entries
      BY <3>1, <3>2, <3>3 DEF Jobs, Entries
    <3>5. ShowsMove(event)
      BY <3>1, <3>2 DEF ConflictJob, ShowsMove
    <3>6. Only(h) /\ job'[h] = IdleJob
      BY <3>2, DoneFrees DEF Frees
    <3> QED BY <1>9, <1>i, <3>2, <3>4, <3>5, <3>6, ConflictFrame DEF Only
  <2>8. CASE \/ RecordFailure(h) \/ RecordResolution(h) \/ RecordExecution(h)
             \/ RecordRecovery(h) \/ RecordReset(h)
    <3>1. Appended(h)
      BY <2>8, RecordEffect
    <3>2. Only(h) /\ job'[h].at \notin {"conflict", "conflicted"}
      BY <1>i, <3>1 DEF Appended, Moves
    <3>3. \E event \in Entries : Record(event) /\ ShowsMove(event)
      <4>1. PICK event : Record(event) /\ event.type # "approval_execution_attempt_conflict"
        BY <2>8, OtherRecords
      <4>2. event \in Entries
        BY <4>1 DEF EvidenceInv, LogInv, Record
      <4> QED BY <4>1, <4>2 DEF ShowsMove
    <3> QED BY <1>9, <3>2, <3>3, ConflictFrame DEF Only
  <2> QED BY <1>9, <2>1, <2>2, <2>3, <2>4, <2>5, <2>6, <2>7, <2>8, Zenon DEF Continue
<1>10. ASSUME NEW a \in ApprovalIds, NEW context \in DirectContexts,
              CreateDirectly(a, context), CurrentStays
       PROVE  ConflictInv'
  BY <1>6, <1>10, OpenEffect DEF Creates
<1>11. CASE TimePasses \/ UNCHANGED gatewayVars
  BY <1>2, <1>11, QuietSteps DEF TimePasses, handlerVars, gatewayVars
<1> QED BY <1>1, <1>3, <1>4, <1>7, <1>9, <1>10, <1>11 DEF GatewayNext

----------------------------------------------------------------------------
(* Theorems about the service: any number of threads, approvals, attempts, *)
(* failing appends, restarts, contexts, errors and provider results.       *)

\* The invariant of the service, by what its parts are about.
ServiceInv ==
    /\ GatewayInv      \* types, and what the queue promises
    /\ OwnerInv        \* who holds which attempt
    /\ CallsInv        \* which attempts reached a provider
    /\ RefusalInv      \* why approvals are refused
    /\ LivesInv        \* the attempts of one approval
    /\ TriedInv        \* which contexts were tried and refused
    /\ SeenInv         \* what a reset has read
    /\ EvidenceInv     \* what is in the log, and who is about to append what
    /\ AccountInv      \* what is missing from it

\* Every step of the service, faults included, keeps the invariant.
LEMMA ServiceInvCorrect == ServiceSpec => []ServiceInv
<1>1. ServiceInit => ServiceInv
  <2>1. GatewayInit => AccountInv
    BY DEF GatewayInit, Init, NewRequest, AccountInv
  <2> QED BY <2>1, GatewayInvInit, OwnerInit, CallsInit, RefusalInit, LivesInit, TriedInit,
             SeenInit, EvidenceInit
          DEF ServiceInit, ServiceInv
<1>2. ServiceInv /\ [ServiceNext]_serviceVars => ServiceInv'
  BY ServiceStep, FaultStep, GatewayInvStep, OwnerStep, CallsStep, RefusalStep, LivesStep,
     TriedStep, SeenStep, EvidenceStep, AccountStep
     DEF ServiceInv
<1> QED BY <1>1, <1>2, PTL DEF ServiceSpec

\* Failing appends and restarts leave the state of the service well typed.
THEOREM ServiceTypeCorrect == ServiceSpec => []GatewayTypeOK
<1>1. ServiceInv => GatewayTypeOK
  BY DEF ServiceInv, GatewayInv
<1> QED BY <1>1, ServiceInvCorrect, PTL

\* What GET /v1/approvals/pending offers the operator is what the queue will
\* accept and, but for a refused chat that was not tried yet, what the executor
\* will execute.
THEOREM OffersCorrect == ServiceSpec => []OffersAreHonoured
<1>1. ServiceInv => OffersAreHonoured
  BY OffersFromInv DEF ServiceInv
<1> QED BY <1>1, ServiceInvCorrect, PTL

\* No failure a handler records wedges a pending approval: it can be executed
\* again, or reset.
THEOREM RefusedCorrect == ServiceSpec => []RefusedCanBeReset
<1>1. ServiceInv => RefusedCanBeReset
  BY RefusalsLiftable DEF ServiceInv
<1> QED BY <1>1, ServiceInvCorrect, PTL

\* An approval whose stored context is invalid never reached a provider.
THEOREM InvalidCorrect == ServiceSpec => []InvalidNeverCalled
<1>1. ServiceInv => InvalidNeverCalled
  BY InvalidUncalled DEF ServiceInv
<1> QED BY <1>1, ServiceInvCorrect, PTL

\* An approved chat completion rests on a valid response to the attempt the
\* approval names, failing appends and restarts included.
THEOREM ServiceExecutedCorrect == ServiceSpec => []ApprovedWasExecuted
<1>1. ServiceInv => ApprovedWasExecuted
  BY DEF ServiceInv, GatewayInv, AttemptInv, ApprovedNamesAttempt, OwnerInv,
         ApprovedWasExecuted
<1> QED BY <1>1, ServiceInvCorrect, PTL

\* Of the attempts of one approval that reached a provider at most one may still
\* be acted upon: resolve_approval never has two live calls, with two
\* idempotency keys, for one approval.
THEOREM OneLiveCallCorrect == ServiceSpec => []OneLiveCall
<1>1. ServiceInv => OneLiveCall
  BY DEF ServiceInv, CallsInv, LivesInv, Dead, OneLiveCall
<1> QED BY <1>1, ServiceInvCorrect, PTL

\* The event about a reset describes the refusal that is lifted, although the
\* handler read it before the reset, unless an execution came in between.
THEOREM ResetEventCorrect == ServiceSpec => []ResetDescribesRefusal
<1>1. ServiceInv => ResetDescribesRefusal
  BY DEF ServiceInv, SeenInv, SeenFits, CanReset, ResetDescribesRefusal
<1> QED BY <1>1, ServiceInvCorrect, PTL

\* The approval events tell how attempts and approvals ended, each end once and
\* an execution after its resolution, across failing appends and restarts.
THEOREM EvidenceTrueCorrect == ServiceSpec => []EvidenceIsTrue
<1>1. ServiceInv => EvidenceIsTrue
  BY TruthFromInv DEF ServiceInv
<1> QED BY <1>1, ServiceInvCorrect, PTL

\* An event about an end is missing only because an append raised or the process
\* died before the handler had appended it.
THEOREM MissingEvidenceCorrect == ServiceSpec => []MissingEvidenceIsAFault
<1>1. ServiceInv => MissingEvidenceIsAFault
  BY AccountedFromInv DEF ServiceInv
<1> QED BY <1>1, ServiceInvCorrect, PTL

\* If no exception of a provider call is a ValueError, the evidence of a conflict
\* always shows that the approval had left the attempt.
THEOREM ConflictMeansMovedCorrect ==
    ASSUME "value_error" \notin ProviderResults
    PROVE  ServiceSpec => []ConflictMeansMoved
<1>1. ServiceInit => ConflictInv
  BY IdleFields
     DEF ServiceInit, GatewayInit, ConflictInv, ConflictJob, ConflictMeansMoved, Events
<1>2. ServiceInv /\ ServiceInv' /\ ConflictInv /\ [ServiceNext]_serviceVars => ConflictInv'
  BY ServiceStep, ConflictStep DEF ServiceInv
<1>3. ConflictInv => ConflictMeansMoved
  BY DEF ConflictInv
<1> QED BY <1>1, <1>2, <1>3, ServiceInvCorrect, PTL DEF ServiceSpec
============================================================================
