-------------------------- MODULE ApprovalGateway --------------------------
(***************************************************************************)
(* The request handlers of apps/gateway_api/main.py that use the approval  *)
(* queue, run concurrently by the threads of the web server's pool.  A     *)
(* handler is a sequence of steps: each step is one locked queue method,   *)
(* one provider call or return, or one append to the evidence store; other *)
(* handlers run between any two of them.                                   *)
(*                                                                         *)
(* Only requests whose policy decision is require_approval are modelled:   *)
(* the others never touch the queue.  The evidence log holds the events    *)
(* about resolving and executing approvals; the per-request events written *)
(* by GatewayService.evaluate and response_analyzed are left out.          *)
(* Authentication and payload checks that answer 400/403/404/422 before    *)
(* any state changes are left out.                                         *)
(*                                                                         *)
(* A stored context is named for what _execute_approved_context makes of   *)
(* it: "policy_evaluation" and "chat_completion" are executed, a context   *)
(* of type chat_completion with a field it refuses is named for the first  *)
(* such field (RefusedChats), and any other name is an unsupported type.   *)
(***************************************************************************)
EXTENDS ApprovalQueue, ProviderAdapters, Sequences

CONSTANTS
    Handlers,           \* threads of the server's pool
    ProviderResults,    \* what a provider call may come back with
    DirectContexts,     \* contexts of approvals not made by the handlers
    MaxCalls            \* bound on the number of API calls

VARIABLES
    job,        \* handler -> where it is and its local variables
    provider,   \* attempt -> "none", "inflight" or the result of its call
    origin,     \* approval -> which code created it (history)
    log,        \* evidence_store: the approval events, in append order
    calls       \* API calls made so far (bound)

handlerVars == <<job, provider, origin, log, calls>>

gatewayVars == <<vars, handlerVars>>

----------------------------------------------------------------------------
(* Local state of a handler.                                               *)

Steps == {"idle", "attach", "execute", "provider", "returned", "finish", "fail",
          "resolved", "executed", "failed", "conflict", "conflicted",
          "recovered", "reset", "reset_done"}

\* The fields of an ApprovalRequest copy that a handler uses later.
NothingSeen == [status |-> "absent", attempt |-> None, error |-> None,
                retryable |-> "unset"]

Seen(a) == [status |-> requests[a].status, attempt |-> requests[a].attempt,
            error |-> requests[a].error, retryable |-> requests[a].retryable]

IdleJob == [at |-> "idle", approval |-> None, attempt |-> None, context |-> None,
            error |-> None, retryable |-> "unset", status |-> "absent",
            seen |-> NothingSeen, todo |-> {}]

\* Contexts of type chat_completion that are refused before the provider call.
RefusedChats == {"invalid_route", "invalid_messages", "invalid_provider_options",
                 "invalid_gateway_metadata", "invalid_prompt"}

\* context["type"].
ContextType(context) == IF context \in RefusedChats THEN "chat_completion" ELSE context

CanExecute(context) == context \in {"policy_evaluation", "chat_completion"}

\* What the chat handler may store.  The route keeps the client's model for the
\* external zone, and a route without a model is refused when it is read back;
\* every other field is of the type the executor asks for.
ChatContexts == {"chat_completion", "invalid_route"}

ASSUME GatewayAssumption ==
    /\ {"policy_evaluation", "chat_completion", "invalid_route"} \subseteq Contexts
    /\ DirectContexts \subseteq Contexts \cup {None}
    /\ {"provider_http_error", "provider_timeout", "provider_network_error",
        "provider_invalid_response", "stored_approval_context_error"} \subseteq Errors
    /\ {"provider_http_error", "provider_invalid_response"} \subseteq ResettableErrors
    /\ "stored_approval_context_error" \notin RecoveryReasons
    /\ ProviderResults \subseteq Results
    /\ MaxCalls \in Nat

----------------------------------------------------------------------------
(* Steps.                                                                  *)

GoTo(h, at) == job' = [job EXCEPT ![h].at = at]

Done(h) == job' = [job EXCEPT ![h] = IdleJob]

\* The except RuntimeError branch of resolve: fail_execution comes next.
Raise(h, error, retryable, status) ==
    job' = [job EXCEPT ![h] = [@ EXCEPT !.at = "fail", !.error = error,
                                        !.retryable = retryable, !.status = status]]

Record(event) == log' = Append(log, event)

\* A handler picks up a new API call.
Accept(h) ==
    /\ job[h].at = "idle"
    /\ calls < MaxCalls
    /\ calls' = calls + 1

GatewayInit ==
    /\ Init
    /\ job = [h \in Handlers |-> IdleJob]
    /\ provider = [e \in AttemptIds |-> "none"]
    /\ origin = [a \in ApprovalIds |-> "none"]
    /\ log = <<>>
    /\ calls = 0

(* POST /v1/chat/completions, decision require_approval.                   *)

ChatRequest(h, a) ==
    /\ Accept(h)
    /\ Create(a, "policy_evaluation")
    /\ job' = [job EXCEPT ![h] = [IdleJob EXCEPT !.at = "attach", !.approval = a]]
    /\ origin' = [origin EXCEPT ![a] = "chat"]
    /\ UNCHANGED <<provider, log>>

AttachChatContext(h) ==
    /\ job[h].at = "attach"
    /\ \/ \E context \in ChatContexts : AttachContext(job[h].approval, context)
       \/ /\ requests[job[h].approval].status # "pending"
          /\ UNCHANGED vars
    /\ Done(h)
    /\ UNCHANGED <<provider, origin, log, calls>>

(* POST /v1/security/evaluate, and approvals put in the queue directly by  *)
(* the program that embeds the gateway.                                    *)

EvaluateRequest(h, a) ==
    /\ Accept(h)
    /\ Create(a, "policy_evaluation")
    /\ origin' = [origin EXCEPT ![a] = "evaluate"]
    /\ UNCHANGED <<job, provider, log>>

CreateDirectly(a, context) ==
    /\ calls < MaxCalls
    /\ calls' = calls + 1
    /\ Create(a, context)
    /\ origin' = [origin EXCEPT ![a] = "direct"]
    /\ UNCHANGED <<job, provider, log>>

(* POST /v1/approvals/{id}/resolve with approved = true.                   *)

Approve(h, a, e) ==
    /\ Accept(h)
    /\ BeginExecution(a, e)
    /\ job' = [job EXCEPT ![h] =
           [IdleJob EXCEPT !.at = "execute", !.approval = a, !.attempt = e,
                           !.context = requests[a].context]]
    /\ UNCHANGED <<provider, origin, log>>

\* Mutants: the provider is called before the context is checked, or a context
\* error returns the approval to pending like any other failure.
ExecuteStoredContextUnchecked(h) ==
    /\ job[h].at = "execute"
    /\ \/ /\ job[h].context = "policy_evaluation"
          /\ GoTo(h, "finish")
          /\ UNCHANGED provider
       \/ /\ job[h].context = "chat_completion"
          /\ GoTo(h, "provider")
          /\ provider' = [provider EXCEPT ![job[h].attempt] = "inflight"]
       \/ /\ job[h].context \notin {"policy_evaluation", "chat_completion"}
          /\ Raise(h, "stored_approval_context_error", "no", "invalid_context")
          /\ provider' = [provider EXCEPT ![job[h].attempt] = "ok"]
    /\ UNCHANGED <<vars, origin, log, calls>>

ExecuteStoredContextPending(h) ==
    /\ job[h].at = "execute"
    /\ \/ /\ job[h].context \in {"policy_evaluation", "chat_completion"}
          /\ GoTo(h, "finish")
          /\ UNCHANGED provider
       \/ /\ job[h].context \notin {"policy_evaluation", "chat_completion"}
          /\ Raise(h, "stored_approval_context_error", "no", "pending")
          /\ UNCHANGED provider
    /\ UNCHANGED <<vars, origin, log, calls>>

\* _execute_approved_context up to the provider call.  A context that is missing,
\* of another type, or a chat with a refused field is a stored-context error.
ExecuteStoredContext(h) ==
    /\ job[h].at = "execute"
    /\ \/ /\ job[h].context = "policy_evaluation"
          /\ GoTo(h, "finish")
          /\ UNCHANGED provider
       \/ /\ job[h].context = "chat_completion"
          /\ GoTo(h, "provider")
          /\ provider' = [provider EXCEPT ![job[h].attempt] = "inflight"]
       \/ /\ ~CanExecute(job[h].context)
          /\ Raise(h, "stored_approval_context_error", "no", "invalid_context")
          /\ UNCHANGED provider
    /\ UNCHANGED <<vars, origin, log, calls>>

\* A ValueError is taken for an attempt conflict; an exception that is neither a
\* ValueError nor a RuntimeError ends the handler.
ProviderReturns(h) ==
    /\ job[h].at = "provider"
    /\ \E result \in ProviderResults :
          /\ provider' = [provider EXCEPT ![job[h].attempt] = result]
          /\ \/ /\ result \in ReturnedResults
                /\ GoTo(h, "returned")
             \/ /\ result \in ProviderErrorResults
                /\ Raise(h, ProviderError(result).error,
                            ProviderError(result).retryable, "pending")
             \/ /\ result = "value_error"
                /\ GoTo(h, "conflict")
             \/ /\ result = "crash"
                /\ Done(h)
    /\ UNCHANGED <<vars, origin, log, calls>>

\* Mutants: the response is not validated, a malformed response raises an
\* exception nobody catches, or raises a ValueError.
CheckAttemptOnly(h) ==
    /\ job[h].at = "returned"
    /\ GoTo(h, IF IsCurrentAttempt(job[h].approval, job[h].attempt)
                 THEN "finish" ELSE "conflict")
    /\ UNCHANGED <<vars, provider, origin, log, calls>>

CheckAttemptUncaught(h) ==
    /\ job[h].at = "returned"
    /\ \/ /\ provider[job[h].attempt] = "ok"
          /\ GoTo(h, IF IsCurrentAttempt(job[h].approval, job[h].attempt)
                       THEN "finish" ELSE "conflict")
       \/ /\ provider[job[h].attempt] = "bad_shape"
          /\ Done(h)
    /\ UNCHANGED <<vars, provider, origin, log, calls>>

CheckAttemptValueError(h) ==
    /\ job[h].at = "returned"
    /\ GoTo(h, IF /\ IsCurrentAttempt(job[h].approval, job[h].attempt)
                  /\ provider[job[h].attempt] = "ok"
                 THEN "finish" ELSE "conflict")
    /\ UNCHANGED <<vars, provider, origin, log, calls>>

\* assert_execution_attempt and _validate_chat_completion_response.
CheckAttempt(h) ==
    /\ job[h].at = "returned"
    /\ \/ /\ ~IsCurrentAttempt(job[h].approval, job[h].attempt)
          /\ GoTo(h, "conflict")
       \/ /\ IsCurrentAttempt(job[h].approval, job[h].attempt)
          /\ provider[job[h].attempt] = "ok"
          /\ GoTo(h, "finish")
       \/ /\ IsCurrentAttempt(job[h].approval, job[h].attempt)
          /\ provider[job[h].attempt] = "bad_shape"
          /\ Raise(h, ProviderError("bad_shape").error,
                      ProviderError("bad_shape").retryable, "pending")
    /\ UNCHANGED <<vars, provider, origin, log, calls>>

\* The queue refuses an attempt that is not current: ValueError.
Refused(h) ==
    /\ ~IsCurrentAttempt(job[h].approval, job[h].attempt)
    /\ GoTo(h, "conflict")
    /\ UNCHANGED vars

\* Mutant: success is stored whatever became of the attempt.
FinishUnguarded(h) ==
    /\ job[h].at = "finish"
    /\ requests' = [requests EXCEPT ![job[h].approval] = ApprovedRequest(@)]
    /\ Settle(job[h].attempt, "succeeded")
    /\ job' = [job EXCEPT ![h].at = "resolved", ![h].status = "approved"]
    /\ UNCHANGED <<clock, provider, origin, log, calls>>

Finish(h) ==
    /\ job[h].at = "finish"
    /\ \/ /\ FinishExecutionSuccess(job[h].approval, job[h].attempt)
          /\ job' = [job EXCEPT ![h].at = "resolved", ![h].status = "approved"]
       \/ Refused(h)
    /\ UNCHANGED <<provider, origin, log, calls>>

\* Mutants: a refused failure is recorded all the same, or a context error is
\* answered before it is recorded.
FailRecordedAnyway(h) ==
    /\ job[h].at = "fail"
    /\ \/ FailExecution(job[h].approval, job[h].attempt, job[h].error,
                        job[h].retryable, job[h].status)
       \/ /\ ~IsCurrentAttempt(job[h].approval, job[h].attempt)
          /\ UNCHANGED vars
    /\ GoTo(h, "failed")
    /\ UNCHANGED <<provider, origin, log, calls>>

FailAnsweredFirst(h) ==
    /\ job[h].at = "fail"
    /\ \/ /\ FailExecution(job[h].approval, job[h].attempt, job[h].error,
                           job[h].retryable, job[h].status)
          /\ IF job[h].status = "invalid_context" THEN Done(h) ELSE GoTo(h, "failed")
       \/ Refused(h)
    /\ UNCHANGED <<provider, origin, log, calls>>

Fail(h) ==
    /\ job[h].at = "fail"
    /\ \/ /\ FailExecution(job[h].approval, job[h].attempt, job[h].error,
                           job[h].retryable, job[h].status)
          /\ GoTo(h, "failed")
       \/ Refused(h)
    /\ UNCHANGED <<provider, origin, log, calls>>

RecordFailure(h) ==
    /\ job[h].at = "failed"
    /\ Record([type |-> "approval_execution_failed", approval |-> job[h].approval,
               attempt |-> job[h].attempt, status |-> job[h].status,
               error |-> job[h].error, retryable |-> job[h].retryable,
               domain |-> FailureDomain(job[h].error)])
    /\ Done(h)
    /\ UNCHANGED <<vars, provider, origin, calls>>

\* _approval_attempt_conflict_exception reads the current approval, ...
ReadConflict(h) ==
    /\ job[h].at = "conflict"
    /\ job' = [job EXCEPT ![h].at = "conflicted", ![h].seen = Seen(job[h].approval)]
    /\ UNCHANGED <<vars, provider, origin, log, calls>>

\* ... and appends the event about what it read.
RecordConflict(h) ==
    /\ job[h].at = "conflicted"
    /\ Record([type |-> "approval_execution_attempt_conflict",
               approval |-> job[h].approval, attempt |-> job[h].attempt,
               currentAttempt |-> job[h].seen.attempt,
               currentStatus |-> job[h].seen.status])
    /\ Done(h)
    /\ UNCHANGED <<vars, provider, origin, calls>>

(* POST /v1/approvals/{id}/resolve with approved = false.                  *)

Reject(h, a) ==
    /\ Accept(h)
    /\ RejectPending(a)
    /\ job' = [job EXCEPT ![h] =
           [IdleJob EXCEPT !.at = "resolved", !.approval = a, !.status = "rejected"]]
    /\ UNCHANGED <<provider, origin, log>>

RecordResolution(h) ==
    /\ job[h].at = "resolved"
    /\ Record([type |-> "approval_resolved", approval |-> job[h].approval,
               attempt |-> job[h].attempt, status |-> job[h].status])
    /\ IF job[h].context = "chat_completion" THEN GoTo(h, "executed") ELSE Done(h)
    /\ UNCHANGED <<vars, provider, origin, calls>>

RecordExecution(h) ==
    /\ job[h].at = "executed"
    /\ Record([type |-> "approval_executed", approval |-> job[h].approval,
               attempt |-> job[h].attempt])
    /\ Done(h)
    /\ UNCHANGED <<vars, provider, origin, calls>>

(* POST /v1/approvals/recover-stale.                                       *)

RecoverStale(h) ==
    /\ Accept(h)
    /\ \E timeout \in Timeouts, limit \in Limits, now \in 0..clock,
          reason \in RecoveryReasons :
       \E recovered \in Batches(StaleAt(now, timeout), limit) \ {{}} :
          /\ RecoverStaleExecutions(recovered, now, reason)
          /\ job' = [job EXCEPT ![h] =
                 [IdleJob EXCEPT !.at = "recovered", !.error = reason,
                     !.todo = {[approval |-> a, attempt |-> requests[a].attempt] :
                               a \in recovered}]]
    /\ UNCHANGED <<provider, origin, log>>

RecordRecovery(h) ==
    /\ job[h].at = "recovered"
    /\ \E r \in job[h].todo :
          /\ Record([type |-> "approval_execution_stale_recovered",
                     approval |-> r.approval, attempt |-> r.attempt,
                     error |-> job[h].error])
          /\ IF job[h].todo = {r}
               THEN Done(h)
               ELSE job' = [job EXCEPT ![h].todo = @ \ {r}]
    /\ UNCHANGED <<vars, provider, origin, calls>>

(* POST /v1/approvals/{id}/reset-execution-error.                          *)

\* The handler reads the approval for the audit event, ...
ResetRequest(h, a) ==
    /\ Accept(h)
    /\ requests[a].status # "absent"
    /\ job' = [job EXCEPT ![h] =
           [IdleJob EXCEPT !.at = "reset", !.approval = a, !.seen = Seen(a)]]
    /\ UNCHANGED <<vars, provider, origin, log>>

\* ... resets whatever the approval has become since, or answers 409, ...
ResetError(h) ==
    /\ job[h].at = "reset"
    /\ \/ /\ ResetExecutionError(job[h].approval)
          /\ GoTo(h, "reset_done")
       \/ /\ ~CanReset(job[h].approval)
          /\ Done(h)
          /\ UNCHANGED vars
    /\ UNCHANGED <<provider, origin, log, calls>>

\* ... and records the error it read first.
RecordReset(h) ==
    /\ job[h].at = "reset_done"
    /\ Record([type |-> "approval_execution_error_reset",
               approval |-> job[h].approval,
               previousError |-> job[h].seen.error,
               previousRetryable |-> job[h].seen.retryable])
    /\ Done(h)
    /\ UNCHANGED <<vars, provider, origin, calls>>

----------------------------------------------------------------------------

\* A new API call arrives.
Call(h) ==
    \/ \E a \in ApprovalIds :
          \/ ChatRequest(h, a)
          \/ EvaluateRequest(h, a)
          \/ Reject(h, a)
          \/ ResetRequest(h, a)
    \/ \E a \in ApprovalIds, e \in AttemptIds : Approve(h, a, e)
    \/ RecoverStale(h)

\* A call that was accepted goes on.
Continue(h) ==
    \/ AttachChatContext(h)
    \/ ExecuteStoredContext(h)
    \/ ProviderReturns(h)
    \/ CheckAttempt(h)
    \/ Finish(h)
    \/ Fail(h)
    \/ RecordFailure(h)
    \/ ReadConflict(h)
    \/ RecordConflict(h)
    \/ RecordResolution(h)
    \/ RecordExecution(h)
    \/ RecordRecovery(h)
    \/ ResetError(h)
    \/ RecordReset(h)

TimePasses == Tick /\ UNCHANGED handlerVars

GatewayNext ==
    \/ \E h \in Handlers : Call(h) \/ Continue(h)
    \/ \E a \in ApprovalIds, context \in DirectContexts : CreateDirectly(a, context)
    \/ TimePasses

GatewaySpec == GatewayInit /\ [][GatewayNext]_gatewayVars

\* A thread that is in a call is scheduled again and again, and a provider call
\* returns (adapters pass a timeout to urlopen).  Nobody has to make a call.
FairGatewaySpec == GatewaySpec /\ \A h \in Handlers : WF_gatewayVars(Continue(h))

----------------------------------------------------------------------------
(* What GET /v1/approvals/pending tells the operator (_approval_payload).  *)

\* _approval_resolution_mode: of the context only the type is looked at.
ResolutionMode(a) ==
    LET type == ContextType(requests[a].context)
    IN  CASE requests[a].status = "invalid_context" -> "invalid_context"
          [] type = "chat_completion"               -> "provider_execution"
          [] type = "policy_evaluation"             -> "policy_evaluation"
          [] type = None                            -> "missing_context"
          [] OTHER                                  -> "unsupported_context"

\* Mutant: the refused verdict is not looked at.
OffersResolveRefused(a) ==
    /\ requests[a].status = "pending"
    /\ ResolutionMode(a) \in {"provider_execution", "policy_evaluation"}

OffersResolve(a) ==
    /\ requests[a].status = "pending"
    /\ requests[a].retryable # "no"
    /\ ResolutionMode(a) \in {"provider_execution", "policy_evaluation"}

OffersReject(a) == requests[a].status \in {"pending", "invalid_context"}

\* _approval_error_action_required.
RecommendedAction(a) ==
    CASE \/ requests[a].error = "stored_approval_context_error"
         \/ requests[a].retryable = "no"                  -> "operator_review"
      [] /\ requests[a].error # "stored_approval_context_error"
         /\ requests[a].retryable = "yes"                 -> "retry"
      [] OTHER                                            -> "none"

----------------------------------------------------------------------------
(* Properties.                                                             *)

Jobs ==
    [at        : Steps,
     approval  : ApprovalIds \cup {None},
     attempt   : AttemptIds \cup {None},
     context   : Contexts \cup {None},
     error     : Errors \cup {None},
     retryable : Verdicts,
     status    : Statuses,
     seen      : [status : Statuses, attempt : AttemptIds \cup {None},
                  error : Errors \cup {None}, retryable : Verdicts],
     todo      : SUBSET [approval : ApprovalIds, attempt : AttemptIds]]

GatewayTypeOK ==
    /\ TypeOK
    /\ job \in [Handlers -> Jobs]
    /\ provider \in [AttemptIds -> {"none", "inflight"} \cup ProviderResults]
    /\ origin \in [ApprovalIds -> {"none", "chat", "evaluate", "direct"}]
    /\ calls \in 0..MaxCalls

\* Everything the handlers do to the queue is what a user of the queue may do:
\* each handler step is a queue method or invisible to the queue, so every
\* theorem about ApprovalQueue holds of the gateway.
ImplementsQueue == Spec

Events(type) == {i \in DOMAIN log : log[i].type = type}

\* An approval whose executed context was a chat completion is approved only if
\* the provider call of that very attempt came back with a valid response.
ApprovedWasExecuted ==
    \A a \in ApprovalIds : requests[a].status = "approved" =>
        (attempts[requests[a].attempt].context = "chat_completion" =>
            provider[requests[a].attempt] = "ok")

\* A stored context that failed validation, be it for its type or for a field of
\* a chat, never reached the provider on the attempt that found it out.
InvalidNeverCalled ==
    \A a \in ApprovalIds : requests[a].status = "invalid_context" =>
        /\ requests[a].error = "stored_approval_context_error"
        /\ provider[requests[a].attempt] = "none"

\* An approval that refuses to be retried can always be reset, unless it left
\* the pending state: no failure a handler records wedges a pending approval.
RefusedCanBeReset ==
    \A a \in ApprovalIds :
        requests[a].status = "pending" => CanBegin(a) \/ CanReset(a)

\* The flags shown to the operator agree with what the queue and the executor
\* will do.  can_resolve is offered only when begin_execution accepts, and always
\* when moreover the context can be executed.  It looks at the type of the
\* context alone, so a chat that the executor refuses is offered too, but only
\* until that is found out: no attempt made with that context has failed.
\* can_reject is offered exactly when reject_pending accepts; an approval that is
\* to be reviewed is never offered for execution, and one to be retried can be.
OffersAreHonoured ==
    \A a \in ApprovalIds :
        /\ OffersResolve(a) => CanBegin(a)
        /\ CanBegin(a) /\ CanExecute(requests[a].context) => OffersResolve(a)
        /\ OffersResolve(a) /\ ~CanExecute(requests[a].context) =>
               /\ requests[a].context \in RefusedChats
               /\ \A e \in AttemptIds :
                      (/\ attempts[e].approval = a
                       /\ attempts[e].context = requests[a].context) =>
                          attempts[e].outcome # "failed"
        /\ OffersReject(a) <=> CanReject(a)
        /\ RecommendedAction(a) = "operator_review" => ~OffersResolve(a)
        /\ RecommendedAction(a) = "retry" => CanBegin(a)

\* Every execution has its handler: while an approval is executing, one thread
\* still holds its attempt id and is on the way to finish or fail it, so no
\* approval is orphaned in executing (unless that thread died of an exception
\* resolve_approval does not catch).
ExecutionHasHandler ==
    \A a \in ApprovalIds : requests[a].status = "executing" =>
        \E h \in Handlers :
            /\ job[h].approval = a
            /\ job[h].attempt = requests[a].attempt
            /\ job[h].at \in {"execute", "provider", "returned", "finish", "fail"}

\* An approval whose provider call failed is not left executing once the thread
\* that made the call is done with it: a failed execution returns to pending
\* (README.md, "If approved provider execution fails").
FailedExecutionReturns ==
    \A a \in ApprovalIds :
        (requests[a].status = "executing"
           /\ provider[requests[a].attempt] \in ProviderResults \ ReturnedResults) =>
               \E h \in Handlers : job[h].attempt = requests[a].attempt

\* The event about a reset describes the refusal that is lifted, although the
\* handler read it before the reset, unless the approval was executed again, or
\* was still executing, in between (docs/event-schema.md, previous_* fields of
\* approval_execution_error_reset).
ResetDescribesRefusal ==
    \A h \in Handlers :
        (/\ job[h].at = "reset"
         /\ CanReset(job[h].approval)
         /\ job[h].seen.status = "pending"
         /\ job[h].seen.attempt = requests[job[h].approval].attempt) =>
            /\ job[h].seen.error = requests[job[h].approval].error
            /\ job[h].seen.retryable = "no"

\* A conflict event is only written about an attempt that is over: the approval
\* has moved to a newer attempt, to pending or to a terminal state
\* (docs/event-schema.md, approval_execution_attempt_conflict).
ConflictMeansMoved ==
    \A i \in Events("approval_execution_attempt_conflict") :
        \/ log[i].currentStatus # "executing"
        \/ log[i].currentAttempt # log[i].attempt

\* An approval requested by a chat completion is approved only after the
\* provider executed the stored request (docs/threat-model.md, MVP Security
\* Invariants).
ApprovedChatWasExecuted ==
    \A a \in ApprovalIds :
        (origin[a] = "chat" /\ requests[a].status = "approved") =>
            provider[requests[a].attempt] = "ok"

\* Every execution ends without help from an operator.
ExecutionsEnd ==
    \A a \in ApprovalIds :
        requests[a].status = "executing" ~> requests[a].status # "executing"
============================================================================
