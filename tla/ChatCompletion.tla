---------------------------- MODULE ChatCompletion ----------------------------
(***************************************************************************)
(* The life of a client's request in the gateway: POST /v1/security/       *)
(* evaluate, /v1/policies/simulate and /v1/chat/completions of             *)
(* apps/gateway_api/main.py with GatewayService.evaluate and simulate.     *)
(* Every request is a thread of its own; a step is one append to the       *)
(* evidence store, one method of the approval queue, or the call or the    *)
(* return of the provider.  An append may raise (a locked or full SQLite   *)
(* file), an approver may resolve an approval as soon as it is in the      *)
(* queue, and the process may die and start again with another policy      *)
(* file: the evidence is in SQLite and stays, the approval queue is in     *)
(* memory and is lost.                                                     *)
(*                                                                         *)
(* What resolving does is ApprovalGateway's subject, and the hash chain of *)
(* the evidence is SQLiteEvidence's; here the evidence is what             *)
(* list_events(request_id) returns.  Payloads refused with 403 or 422      *)
(* before anything is evaluated are left out.                              *)
(***************************************************************************)
EXTENDS PolicyEngine, ProviderAdapters

CONSTANTS
    Requests,       \* request ids
    Submissions,    \* what clients send
    Documents,      \* contents the policy file may have when the process starts
    Endpoints,      \* zones whose provider has an endpoint configured
    Replies,        \* valid provider responses: the texts of their choices
    Failures,       \* how a provider call may fail
    MaxRestarts,    \* bound on the number of restarts
    MaxFailures     \* bound on the number of appends that raise

VARIABLES
    service,    \* the gateway process: its state, policy file and policy set
    job,        \* request -> its thread and local variables
    events,     \* request -> its events, in append order
    approval,   \* request -> the approval created for it
    call,       \* request -> what a provider was sent for it
    restarts,
    failures

vars == <<service, job, events, approval, call, restarts, failures>>

----------------------------------------------------------------------------
Endpoint == {"evaluate", "simulate", "chat"}

EventTypes == {"request_received", "request_analyzed", "policy_decided", "model_routed",
               "approval_requested", "request_finalized", "response_analyzed"}

Steps == {"new", "create", "attach", "send", "provider", "guard", "answered", "failed",
          "lost"}
             \cup EventTypes

ASSUME ChatAssumption ==
    /\ \A s \in Submissions :
           s \in [kind : Endpoint, text : Text, grade : DataGrades, zone : ModelZones]
    /\ \A d \in Documents :
           /\ d.kind \in {"missing", "malformed", "rules"}
           /\ d.rules \in Seq({d.rules[i] : i \in DOMAIN d.rules})
           /\ \A i \in DOMAIN d.rules : d.rules[i].priority \in Int
    /\ Endpoints \subseteq ModelZones
    /\ \A reply \in Replies : reply \in Seq(Text) /\ reply # <<>>
    /\ Failures \subseteq Results \ {"ok"}
    /\ MaxRestarts \in Nat
    /\ MaxFailures \in Nat

NoCall == [zone |-> NoZone, model |-> "none", prompt |-> SafeBlockedResponse]

NoApproval == [status |-> "none", context |-> "none", zone |-> NoZone,
               prompt |-> SafeBlockedResponse]

NewJob == [at |-> "new", kind |-> "none", text |-> SafeBlockedResponse, grade |-> "none",
           zone |-> NoZone, document |-> MissingDocument, decision |-> DefaultAllow,
           prompt |-> SafeBlockedResponse, status |-> 0, reply |-> <<>>, choices |-> <<>>,
           aggregate |-> "allow"]

Event(type, action, policy, route, changed) ==
    [type |-> type, action |-> action, policy |-> policy, route |-> route,
     changed |-> changed]

\* The event GatewayService.evaluate appends at a step, from its local variables.
EvaluationEvent(j, type) ==
    Event(type,
          IF type \in {"policy_decided", "model_routed", "approval_requested",
                       "request_finalized"} THEN j.decision.action ELSE "none",
          IF type \in {"policy_decided", "model_routed"} THEN j.decision.policy ELSE "none",
          IF type = "model_routed" THEN ChooseRoute(j.decision) ELSE NoRoute,
          type \in {"policy_decided", "model_routed", "request_finalized"}
              /\ j.prompt # j.text)

\* The event of _guard_chat_completion_response.
ResponseEvent(j) ==
    Event("response_analyzed", j.aggregate, "none", NoRoute,
          \E i \in DOMAIN j.reply : GuardResponseText(j.reply[i]).action # "allow")

Init ==
    /\ \E d \in Documents : service = [state |-> "starting", document |-> d,
                                       policies |-> <<>>]
    /\ job = [r \in Requests |-> NewJob]
    /\ events = [r \in Requests |-> <<>>]
    /\ approval = [r \in Requests |-> NoApproval]
    /\ call = [r \in Requests |-> NoCall]
    /\ restarts = 0
    /\ failures = 0

----------------------------------------------------------------------------
(* The process.                                                            *)

\* create_gateway_service: an invalid policy file ends the start.
Start ==
    /\ service.state = "starting"
    /\ service' = IF Loadable(service.document)
                  THEN [service EXCEPT !.state = "serving",
                                       !.policies = LoadPolicySet(service.document)]
                  ELSE [service EXCEPT !.state = "failed"]
    /\ UNCHANGED <<job, events, approval, call, restarts, failures>>

\* The process dies; its threads and the approval queue go with it.
Restart ==
    /\ restarts < MaxRestarts
    /\ restarts' = restarts + 1
    /\ \E d \in Documents : service' = [state |-> "starting", document |-> d,
                                        policies |-> <<>>]
    /\ job' = [r \in Requests |->
                   IF job[r].at \in {"new", "answered", "failed"} THEN job[r]
                   ELSE [job[r] EXCEPT !.at = "lost"]]
    /\ approval' = [r \in Requests |-> NoApproval]
    /\ UNCHANGED <<events, call, failures>>

----------------------------------------------------------------------------
(* The handlers.                                                           *)

GoTo(r, at) == job' = [job EXCEPT ![r].at = at]

Fail(r, status) == job' = [job EXCEPT ![r] = [@ EXCEPT !.at = "failed", !.status = status]]

Answer(r) == job' = [job EXCEPT ![r] = [@ EXCEPT !.at = "answered", !.status = 200]]

\* Detection, decision and effective prompt come before the first event;
\* a simulation ends there.
Submit(r, s) ==
    /\ service.state = "serving"
    /\ job[r].at = "new"
    /\ LET decision == DecidePolicy(service.policies, s.grade, s.zone, s.text)
       IN job' = [job EXCEPT ![r] =
              [@ EXCEPT !.kind = s.kind, !.text = s.text, !.grade = s.grade,
                        !.zone = s.zone, !.document = service.document,
                        !.decision = decision,
                        !.prompt = EffectivePrompt(s.text, decision.action),
                        !.at = IF s.kind = "simulate" THEN "answered"
                               ELSE "request_received",
                        !.status = IF s.kind = "simulate" THEN 200 ELSE 0]]
    /\ UNCHANGED <<service, events, approval, call, restarts, failures>>

\* Mutant: only block keeps the handler from the provider.
AfterEventUnheld(j, type) ==
    CASE type = "request_received"   -> "request_analyzed"
      [] type = "request_analyzed"   -> "policy_decided"
      [] type = "policy_decided"     -> "model_routed"
      [] type = "model_routed"       ->
             IF j.decision.action = "require_approval" THEN "create" ELSE "request_finalized"
      [] type = "approval_requested" -> "request_finalized"
      [] type = "request_finalized"  ->
             IF j.kind = "evaluate" \/ j.decision.action = "block" THEN "answered" ELSE "send"

\* Where evaluate goes after each of its events.
AfterEvent(j, type) ==
    CASE type = "request_received"   -> "request_analyzed"
      [] type = "request_analyzed"   -> "policy_decided"
      [] type = "policy_decided"     -> "model_routed"
      [] type = "model_routed"       ->
             IF j.decision.action = "require_approval" THEN "create" ELSE "request_finalized"
      [] type = "approval_requested" -> "request_finalized"
      [] type = "request_finalized"  ->
             IF j.kind = "evaluate" \/ j.decision.action = "block" THEN "answered"
             ELSE IF j.decision.action = "require_approval" THEN "attach"
             ELSE "send"

EvaluationSteps == EventTypes \ {"response_analyzed"}

RecordEvaluation(r) ==
    /\ job[r].at \in EvaluationSteps
    /\ events' = [events EXCEPT ![r] = Append(@, EvaluationEvent(job[r], job[r].at))]
    /\ LET next == AfterEvent(job[r], job[r].at)
       IN IF next = "answered" THEN Answer(r) ELSE GoTo(r, next)
    /\ UNCHANGED <<service, approval, call, restarts, failures>>

\* No handler catches the store's errors: the client gets 500.
AppendRaises(r) ==
    /\ job[r].at \in EventTypes
    /\ failures < MaxFailures
    /\ failures' = failures + 1
    /\ Fail(r, 500)
    /\ UNCHANGED <<service, events, approval, call, restarts>>

\* Mutant: the approval is created without its event.
CreateUnrecorded(r) ==
    /\ job[r].at = "create"
    /\ approval' = [approval EXCEPT ![r] =
                        [NoApproval EXCEPT !.status = "pending",
                                           !.context = "policy_evaluation"]]
    /\ GoTo(r, "request_finalized")
    /\ UNCHANGED <<service, events, call, restarts, failures>>

CreateApproval(r) ==
    /\ job[r].at = "create"
    /\ approval' = [approval EXCEPT ![r] =
                        [NoApproval EXCEPT !.status = "pending",
                                           !.context = "policy_evaluation"]]
    /\ GoTo(r, "approval_requested")
    /\ UNCHANGED <<service, events, call, restarts, failures>>

\* What an approver may do at any time; see ApprovalGateway.
Resolve(r) ==
    /\ approval[r].status = "pending"
    /\ approval' = [approval EXCEPT ![r].status = "resolved"]
    /\ UNCHANGED <<service, job, events, call, restarts, failures>>

\* Mutant: the context is stored with the zone the policy names.
AttachPolicyZone(r) ==
    /\ job[r].at = "attach"
    /\ approval' = [approval EXCEPT ![r] = [@ EXCEPT !.context = "chat_completion",
                        !.zone = job[r].decision.zone, !.prompt = job[r].prompt]]
    /\ Answer(r)
    /\ UNCHANGED <<service, events, call, restarts, failures>>

\* attach_context refuses an approval that is resolved by now: 422.
AttachContext(r) ==
    /\ job[r].at = "attach"
    /\ IF approval[r].status = "pending"
       THEN /\ approval' = [approval EXCEPT ![r] =
                   [@ EXCEPT !.context = "chat_completion",
                             !.zone = ChooseApprovedRoute(job[r].zone).zone,
                             !.prompt = job[r].prompt]]
            /\ Answer(r)
       ELSE /\ Fail(r, 422)
            /\ UNCHANGED approval
    /\ UNCHANGED <<service, events, call, restarts, failures>>

\* The provider without an endpoint is the echo adapter: it answers at once.
SendToProvider(r) ==
    LET route == ChooseRoute(job[r].decision)
    IN /\ job[r].at = "send"
       /\ call' = [call EXCEPT ![r] = [zone |-> route.zone, model |-> route.model,
                                       prompt |-> job[r].prompt]]
       /\ job' = [job EXCEPT ![r] =
              IF UsesEndpoint(route.zone, Endpoints) THEN [@ EXCEPT !.at = "provider"]
              ELSE [@ EXCEPT !.at = "guard", !.reply = <<job[r].prompt>>]]
       /\ UNCHANGED <<service, events, approval, restarts, failures>>

ProviderReturns(r, reply) ==
    /\ job[r].at = "provider"
    /\ job' = [job EXCEPT ![r] = [@ EXCEPT !.at = "guard", !.reply = reply]]
    /\ UNCHANGED <<service, events, approval, call, restarts, failures>>

ProviderFails(r, failure) ==
    /\ job[r].at = "provider"
    /\ Fail(r, ClientStatus(failure))
    /\ UNCHANGED <<service, events, approval, call, restarts, failures>>

\* One choice of the response: the text of its message is guarded, its other
\* fields are passed on as they came and are left out here.
GuardChoice(r) ==
    LET j == job[r]
        n == Len(j.choices) + 1
        guarded == GuardResponseText(j.reply[n])
    IN /\ j.at = "guard"
       /\ job' = [job EXCEPT ![r] =
              [j EXCEPT !.choices = Append(j.choices, guarded.content),
                        !.aggregate = Aggregate(j.aggregate, guarded.action),
                        !.at = IF n < Len(j.reply) THEN j.at ELSE "response_analyzed"]]
       /\ UNCHANGED <<service, events, approval, call, restarts, failures>>

RecordResponse(r) ==
    /\ job[r].at = "response_analyzed"
    /\ events' = [events EXCEPT ![r] = Append(@, ResponseEvent(job[r]))]
    /\ Answer(r)
    /\ UNCHANGED <<service, approval, call, restarts, failures>>

Next ==
    \/ Start
    \/ Restart
    \/ \E r \in Requests :
          \/ \E s \in Submissions : Submit(r, s)
          \/ RecordEvaluation(r)
          \/ AppendRaises(r)
          \/ CreateApproval(r)
          \/ Resolve(r)
          \/ AttachContext(r)
          \/ SendToProvider(r)
          \/ \E reply \in Replies : ProviderReturns(r, reply)
          \/ \E failure \in Failures : ProviderFails(r, failure)
          \/ GuardChoice(r)
          \/ RecordResponse(r)

Spec == Init /\ [][Next]_vars

----------------------------------------------------------------------------
(* Properties.                                                             *)

RuleIds(d) == {RulesOf(d)[i].id : i \in DOMAIN RulesOf(d)}

\* The rules of the policy files and of the built-in set.
PolicyIds == {DefaultAllow.policy} \cup UNION {RuleIds(d) : d \in Documents}

Decisions == [action : PolicyActions, policy : PolicyIds, zone : ModelZones \cup {NoZone}]

Actions == PolicyActions \cup {"none"}

Events == [type : EventTypes, action : Actions, policy : PolicyIds \cup {"none"},
           route : Routes \cup {NoRoute}, changed : BOOLEAN]

Statuses == {0, 200, 422, 500, 502}

Jobs == [at : Steps, kind : Endpoint \cup {"none"}, text : Text,
         grade : DataGrades \cup {"none"}, zone : ModelZones \cup {NoZone},
         document : Documents \cup {MissingDocument}, decision : Decisions,
         prompt : Text, status : Statuses, reply : Seq(Text),
         choices : Seq(Text), aggregate : {"allow", "mask", "block"}]

Approvals == [status : {"none", "pending", "resolved"},
              context : {"none", "policy_evaluation", "chat_completion"},
              zone : ModelZones \cup {NoZone}, prompt : Text]

Calls == [zone : ModelZones \cup {NoZone},
          model : {"requested", "zone_default", "none"}, prompt : Text]

\* Every variable is well typed (GatewayRequest, PolicyDecision, AuditEvent,
\* the approval's context and the arguments of complete).
TypeOK ==
    /\ service \in [state : {"starting", "serving", "failed"}, document : Documents,
                    policies : {<<>>} \cup {LoadPolicySet(d) : d \in Documents}]
    /\ job \in [Requests -> Jobs]
    /\ events \in [Requests -> Seq(Events)]
    /\ approval \in [Requests -> Approvals]
    /\ call \in [Requests -> Calls]
    /\ restarts \in 0..MaxRestarts
    /\ failures \in 0..MaxFailures

\* A provider is only ever sent a request whose evidence is complete up to
\* request_finalized, whatever append raised or process died on the way; the
\* evidence names the route that was taken, says whether the prompt sent is not
\* the client's, and its decision is not one that holds the request
\* (evaluate_chat_completion_payload decides the route again, main.py:157).
CallIsRecorded ==
    \A r \in Requests : call[r] # NoCall =>
        /\ Len(events[r]) >= 5
        /\ events[r][1].type = "request_received"
        /\ events[r][2].type = "request_analyzed"
        /\ events[r][3].type = "policy_decided"
        /\ events[r][4].type = "model_routed"
        /\ events[r][5].type = "request_finalized"
        /\ events[r][3].action \notin HoldingActions
        /\ events[r][4].route = [zone |-> call[r].zone, model |-> call[r].model]
        /\ events[r][4].changed <=> call[r].prompt # job[r].text

\* Every decision, as used and as recorded, is that of the rule of the policy
\* file, or of the built-in rules if there is no file, that matches with the
\* least priority and, among those, comes first in the file; a request is only
\* served under a file that could be loaded (dsl.py:133-180, engine.py:55-86).
DecisionsFollowDocument ==
    \A r \in Requests : job[r].at # "new" =>
        LET j == job[r]
            rules == RulesOf(j.document)
            matching == MatchingRules(rules, j.grade, j.zone, j.text)
        IN /\ Loadable(j.document)
           /\ \/ matching = {} /\ j.decision = DefaultAllow
              \/ \E i \in matching :
                     /\ j.decision = DecisionOf(rules[i])
                     /\ \A k \in matching \ {i} : Before(rules, i, k)
           /\ \A n \in DOMAIN events[r] :
                  events[r][n].type \in {"policy_decided", "model_routed"} =>
                      /\ events[r][n].action = j.decision.action
                      /\ events[r][n].policy = j.decision.policy

\* Under the built-in rules, what an external provider is sent for a request
\* that names the external zone is masked if the request has Korean PII, and the
\* request is neither restricted nor confidential and has no injection, no
\* exfiltration and no high document risk: the priorities resolve the overlaps
\* of the rules the right way (dsl.py:39-130).
ExternalIsProtected ==
    \A r \in Requests :
        call[r].zone = "external" /\ job[r].zone = "external"
                                  /\ job[r].document = MissingDocument =>
            /\ job[r].grade \in {"public", "internal"}
            /\ FindingKinds(job[r].text) \subseteq {"korean_pii", "document_risk"}
            /\ "document_risk" \in FindingKinds(job[r].text) => RiskScore(job[r].text) < 14
            /\ "korean_pii" \in FindingKinds(job[r].text) =>
                   call[r].prompt = Masked[job[r].text]

\* The message text a client receives of a provider is, choice by choice, what the
\* provider gave, except that of a choice the guard blocks nothing is left, not even masked,
\* and that no text with Korean PII is passed on as it came; the last event of the
\* request is its response_analyzed (_guard_chat_completion_response, main.py:361-428).
DeliveredIsGuarded ==
    \A r \in Requests : job[r].at = "answered" /\ call[r] # NoCall =>
        /\ Len(job[r].choices) = Len(job[r].reply)
        /\ \A i \in DOMAIN job[r].choices :
               /\ RequiresBlock(job[r].reply[i]) => job[r].choices[i] = SafeBlockedResponse
               /\ Detected[job[r].reply[i]].pii > 0 => job[r].choices[i] # job[r].reply[i]
        /\ events[r][Len(events[r])].type = "response_analyzed"

\* The action recorded for a response is the strictest that any of its choices
\* calls for, in whatever order they come (main.py:393-396).
StrictestActionIsRecorded ==
    \A r \in Requests : \A n \in DOMAIN events[r] :
        events[r][n].type = "response_analyzed" =>
            LET actions == {GuardResponseText(job[r].reply[i]).action :
                                i \in DOMAIN job[r].reply}
            IN events[r][n].action = IF "block" \in actions THEN "block"
                                     ELSE IF "mask" \in actions THEN "mask" ELSE "allow"

ExpectedTypes(j) ==
    IF j.decision.action = "require_approval"
    THEN <<"request_received", "request_analyzed", "policy_decided", "model_routed",
           "approval_requested", "request_finalized">>
    ELSE IF j.kind = "chat" /\ j.decision.action # "block"
    THEN <<"request_received", "request_analyzed", "policy_decided", "model_routed",
           "request_finalized", "response_analyzed">>
    ELSE <<"request_received", "request_analyzed", "policy_decided", "model_routed",
           "request_finalized">>

\* The events of a request are, in order, a prefix of those its endpoint and
\* decision call for, and all of them if the client got an answer; a simulation
\* leaves none (docs/event-schema.md, "Event Types").
AnswersAreRecorded ==
    \A r \in Requests : job[r].at # "new" =>
        LET expected == ExpectedTypes(job[r])
        IN IF job[r].kind = "simulate" THEN events[r] = <<>>
           ELSE /\ Len(events[r]) <= Len(expected)
                /\ \A n \in DOMAIN events[r] : events[r][n].type = expected[n]
                /\ job[r].at = "answered" => Len(events[r]) = Len(expected)

\* A client told that its chat request is held has an approval, unless a restart
\* lost it, that will execute this very request: with the prompt the decision
\* left and in the zone the client named (main.py:173-197).
HeldChatIsStored ==
    \A r \in Requests :
        /\ job[r].kind = "chat" /\ job[r].at = "answered"
        /\ job[r].decision.action = "require_approval"
        /\ approval[r].status # "none"
        => /\ approval[r].context = "chat_completion"
           /\ approval[r].zone = job[r].zone
           /\ approval[r].prompt = job[r].prompt

\* "Restricted data must not be sent to external model zones without approval"
\* (docs/threat-model.md:28), under the built-in rules.
RestrictedNeedsApproval ==
    \A r \in Requests :
        job[r].grade = "restricted" /\ job[r].document = MissingDocument
            => call[r].zone # "external"
=============================================================================
