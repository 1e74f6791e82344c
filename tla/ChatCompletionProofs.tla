-------------------------- MODULE ChatCompletionProofs --------------------------
(***************************************************************************)
(* Theorems about ChatCompletion, for any texts and whatever is detected   *)
(* in them, any policy files, requests, providers and failures.            *)
(***************************************************************************)
EXTENDS ChatCompletion, ListProofs

----------------------------------------------------------------------------
(* The policy set and the decision.                                        *)

LEMMA RulesTyped ==
    ASSUME NEW d \in Documents, Loadable(d)
    PROVE  /\ DOMAIN RulesOf(d) \subseteq Nat
           /\ \A i \in DOMAIN RulesOf(d) :
                  /\ RulesOf(d)[i].id \in PolicyIds
                  /\ RulesOf(d)[i].priority \in Int
                  /\ RulesOf(d)[i].action \in PolicyActions
                  /\ RulesOf(d)[i].zone \in ModelZones \cup {NoZone}
<1>1. \A i \in DOMAIN RulesOf(d) : RulesOf(d)[i].id \in PolicyIds
  <2>1. \A i \in DOMAIN RulesOf(d) : RulesOf(d)[i].id \in RuleIds(d)
    BY DEF RuleIds
  <2> QED
    BY <2>1 DEF PolicyIds
<1>2. CASE d.kind = "rules"
  <2>1. RulesOf(d) = d.rules
    BY <1>2 DEF RulesOf
  <2>2. DOMAIN d.rules \subseteq Nat
    <3> DEFINE S == {d.rules[i] : i \in DOMAIN d.rules}
    <3>1. d.rules \in Seq(S)
      BY ChatAssumption DEF ChatAssumption
    <3> HIDE DEF S
    <3> QED
      BY <3>1
  <2>3. \A i \in DOMAIN d.rules : ValidRule(d.rules[i]) /\ d.rules[i].priority \in Int
    BY <1>2, ChatAssumption DEF Loadable, ChatAssumption
  <2> QED
    BY <1>1, <2>1, <2>2, <2>3 DEF ValidRule
<1>3. CASE d.kind # "rules"
  <2>1. RulesOf(d) = DefaultRules
    BY <1>3 DEF RulesOf
  <2>2. DOMAIN DefaultRules = 1..9
    BY DEF DefaultRules
  <2>3. \A i \in 1..9 : /\ DefaultRules[i].priority \in Int
                       /\ DefaultRules[i].action \in PolicyActions
                       /\ DefaultRules[i].zone \in ModelZones \cup {NoZone}
    BY DEF DefaultRules, Rule, PolicyActions, ModelZones
  <2> QED
    BY <1>1, <2>1, <2>2, <2>3
<1> QED
  BY <1>2, <1>3

LEMMA DefaultAllowTyped == DefaultAllow \in Decisions
<1>1. DefaultAllow.policy \in PolicyIds
  BY DEF PolicyIds
<1> QED
  BY <1>1 DEF DefaultAllow, Decisions, PolicyActions

\* The indices of the rules by priority, and by position where that is equal.
IsOrderOf(indices, rules) ==
    /\ indices \in [DOMAIN rules -> DOMAIN rules]
    /\ \A i \in DOMAIN rules : \E k \in DOMAIN rules : indices[k] = i
    /\ \A k, l \in DOMAIN rules : k < l => Before(rules, indices[k], indices[l])

\* sorted() sorts, whatever the rules.
THEOREM SortingSorts ==
    ASSUME NEW d \in Documents, Loadable(d)
    PROVE  IsOrderOf(SortedIndices(RulesOf(d)), RulesOf(d))
<1> DEFINE rules == RulesOf(d)
           S == DOMAIN rules
           order == {p \in S \X S : Before(rules, p[1], p[2])}
<1>1. PICK n \in Nat : S = 1..n
  <2>1. CASE d.kind = "rules"
    <3> DEFINE T == {d.rules[i] : i \in DOMAIN d.rules}
    <3>1. d.rules \in Seq(T)
      BY ChatAssumption DEF ChatAssumption
    <3> HIDE DEF T
    <3>2. Len(d.rules) \in Nat /\ DOMAIN d.rules = 1..Len(d.rules)
      BY <3>1, LenProperties
    <3> QED  BY <2>1, <3>2 DEF RulesOf
  <2>2. CASE d.kind # "rules"
    <3>1. DOMAIN DefaultRules = 1..9
      BY DEF DefaultRules
    <3> QED  BY <2>2, <3>1 DEF RulesOf
  <2> QED  BY <2>1, <2>2
<1>2. \A i \in S : rules[i].priority \in Int
  BY RulesTyped
<1> HIDE DEF rules, S
<1>3. \A i, j \in S : <<i, j>> \in order <=> Before(rules, i, j)
  OBVIOUS
<1>4. IsStrictOrder(order, S)
  <2> DEFINE of == [i \in S |-> rules[i].priority]
  <2>1. \A i \in S : of[i] \in Int /\ i \in Int
    BY <1>1, <1>2
  <2>2. \A i, j \in S : <<i, j>> \in order <=> (of[i] < of[j] \/ (of[i] = of[j] /\ i < j))
    BY <1>3 DEF Before
  <2> HIDE DEF order, of
  <2>3. \A i \in S : <<i, i>> \notin order
    BY <2>1, <2>2
  <2>4. \A i, j \in S : i # j => <<i, j>> \in order \/ <<j, i>> \in order
    BY <2>1, <2>2
  <2>5. ASSUME NEW i \in S, NEW j \in S, NEW k \in S,
               <<i, j>> \in order, <<j, k>> \in order
        PROVE  <<i, k>> \in order
    BY <2>1, <2>2, <2>5
  <2> QED  BY <2>3, <2>4, <2>5 DEF IsStrictOrder
<1>5. IsFiniteSet(S) /\ Cardinality(S) = n
  BY <1>1, FS_Interval
<1>6. SortedIndices(rules) = Ordered(S, order)
  BY DEF SortedIndices, S
<1> HIDE DEF order
<1>7. /\ Ordered(S, order) \in [1..n -> S]
      /\ \A i \in S : \E k \in 1..n : Ordered(S, order)[k] = i
      /\ \A k, l \in 1..n : k < l => <<Ordered(S, order)[k], Ordered(S, order)[l]>> \in order
  BY <1>4, <1>5, OrderedIsOrdered
<1>8. \A k, l \in S : k < l => Before(rules, Ordered(S, order)[k], Ordered(S, order)[l])
  BY <1>1, <1>3, <1>7
<1> QED  BY <1>1, <1>6, <1>7, <1>8 DEF IsOrderOf, rules, S

Follows(d, grade, zone, text, decision) ==
    LET rules == RulesOf(d)
        matching == MatchingRules(rules, grade, zone, text)
    IN \/ matching = {} /\ decision = DefaultAllow
       \/ \E i \in matching :
              /\ decision = DecisionOf(rules[i])
              /\ \A k \in matching \ {i} : Before(rules, i, k)

LEMMA DecisionFollows ==
    ASSUME NEW d \in Documents, Loadable(d), NEW grade, NEW zone, NEW text
    PROVE  /\ Follows(d, grade, zone, text,
                      DecidePolicy(LoadPolicySet(d), grade, zone, text))
           /\ DecidePolicy(LoadPolicySet(d), grade, zone, text) \in Decisions
<1> DEFINE rules == RulesOf(d)
           policies == LoadPolicySet(d)
           sorted == SortedIndices(rules)
           ordered == MatchingRules(policies, grade, zone, text)
           matching == MatchingRules(rules, grade, zone, text)
           decision == DecidePolicy(policies, grade, zone, text)
<1>1. IsOrderOf(sorted, rules)
  BY SortingSorts
<1>2. policies = [k \in DOMAIN rules |-> rules[sorted[k]]]
  BY DEF LoadPolicySet, OrderPolicies
<1> HIDE DEF policies, sorted, rules
<1>3. ordered = {k \in DOMAIN rules : Matches(rules[sorted[k]], grade, zone, text)}
  BY <1>2 DEF MatchingRules
<1>4. matching = {i \in DOMAIN rules : Matches(rules[i], grade, zone, text)}
  BY DEF MatchingRules
<1>5. \A k \in ordered : sorted[k] \in matching
  BY <1>1, <1>3, <1>4 DEF IsOrderOf
<1>6. \A i \in matching : \E k \in ordered : sorted[k] = i
  BY <1>1, <1>3, <1>4 DEF IsOrderOf
<1>7. CASE ordered = {}
  <2>1. decision = DefaultAllow
    BY <1>7 DEF DecidePolicy
  <2>2. matching = {}
    BY <1>6, <1>7
  <2> QED
    BY <2>1, <2>2, DefaultAllowTyped DEF Follows, policies, rules
<1>8. CASE ordered # {}
  <2>1. ordered \in SUBSET Nat
    BY <1>3, RulesTyped DEF rules
  <2>2. \E k \in ordered : \A l \in ordered : k <= l
    BY <1>8, <2>1, LeastNumber
  <2> DEFINE k == CHOOSE k \in ordered : \A l \in ordered : k <= l
  <2>3. k \in ordered /\ \A l \in ordered : k <= l
    BY <2>2
  <2>4. decision = DecisionOf(rules[sorted[k]])
    BY <1>2, <1>3, <1>8, <2>3 DEF DecidePolicy
  <2> HIDE DEF k, ordered, matching
  <2>5. ASSUME NEW i \in matching \ {sorted[k]}
        PROVE  Before(rules, sorted[k], i)
    <3>1. PICK l \in ordered : sorted[l] = i
      BY <1>6
    <3>2. k < l
      BY <2>1, <2>3, <2>5, <3>1
    <3> QED
      BY <1>1, <1>3, <2>3, <3>1, <3>2 DEF IsOrderOf
  <2>6. sorted[k] \in DOMAIN rules /\ sorted[k] \in matching
    BY <1>4, <1>5, <2>3
  <2>7. decision \in Decisions
    BY <2>4, <2>6, RulesTyped DEF rules, DecisionOf, Decisions
  <2> QED
    BY <2>4, <2>5, <2>6, <2>7 DEF Follows, matching, policies, rules
<1> QED
  BY <1>7, <1>8

----------------------------------------------------------------------------
(* The invariant, as what holds of a thread j, its events es, its call c   *)
(* and its approval a.                                                     *)

\* What a request is decided by does not change once it is decided.
Decided(j) ==
    j.at # "new" =>
        /\ j.kind \in Endpoint
        /\ j.grade \in DataGrades
        /\ j.document \in Documents
        /\ Loadable(j.document)
        /\ j.decision = DecidePolicy(LoadPolicySet(j.document), j.grade, j.zone, j.text)
        /\ j.prompt = EffectivePrompt(j.text, j.decision.action)

Held(j) == j.decision.action = "require_approval"

\* The program counter says how many events are written.
Position(j, n) ==
    /\ j.at \in {"new", "request_received"} => n = 0
    /\ j.at = "request_analyzed" => n = 1
    /\ j.at = "policy_decided" => n = 2
    /\ j.at = "model_routed" => n = 3
    /\ j.at \in {"create", "approval_requested"} => n = 4 /\ Held(j)
    /\ j.at = "request_finalized" => n = IF Held(j) THEN 5 ELSE 4
    /\ j.at = "attach" => n = 6 /\ Held(j)
    /\ j.at \in {"send", "provider", "guard", "response_analyzed"} =>
           n = 5 /\ j.decision.action \notin HoldingActions
    /\ j.at \in {"attach", "send", "provider", "guard", "response_analyzed"} =>
           j.kind = "chat"
    /\ j.at = "answered" =>
           n = IF j.kind = "simulate" THEN 0 ELSE Len(ExpectedTypes(j))
    /\ j.kind = "simulate" => j.at = "answered"

\* The events are those the endpoint and the decision call for, with the
\* values of the local variables.
Evidence(j, es) ==
    /\ Position(j, Len(es))
    /\ Len(es) <= Len(ExpectedTypes(j))
    /\ \A n \in DOMAIN es :
           /\ es[n].type = ExpectedTypes(j)[n]
           /\ es[n] = IF es[n].type = "response_analyzed" THEN ResponseEvent(j)
                      ELSE EvaluationEvent(j, es[n].type)
           /\ es[n].type = "response_analyzed" => Len(j.choices) = Len(j.reply)

\* The call was made with the evidence written, the prompt and the route.
Called(j, es, c) ==
    /\ j.at \in {"provider", "guard", "response_analyzed"} => c # NoCall
    /\ c # NoCall =>
           /\ j.at \in {"provider", "guard", "response_analyzed", "answered", "failed",
                       "lost"}
           /\ j.kind = "chat"
           /\ j.decision.action \notin HoldingActions
           /\ c.zone = ChooseRoute(j.decision).zone
           /\ c.model = ChooseRoute(j.decision).model
           /\ c.prompt = j.prompt
           /\ Len(es) >= 5

\* The loop over the choices has done its prefix.
Guarded(j) ==
    /\ j.at \in {"new", "create", "attach", "send", "provider"} \cup EvaluationSteps =>
           j.choices = <<>>
    /\ j.at = "guard" => Len(j.choices) < Len(j.reply)
    /\ j.at = "response_analyzed" => Len(j.choices) = Len(j.reply)
    /\ \A i \in DOMAIN j.choices :
           i \in DOMAIN j.reply /\ j.choices[i] = GuardResponseText(j.reply[i]).content
    /\ j.aggregate = "block" <=>
           \E i \in DOMAIN j.choices : GuardResponseText(j.reply[i]).action = "block"
    /\ j.aggregate = "allow" <=>
           \A i \in DOMAIN j.choices : GuardResponseText(j.reply[i]).action = "allow"

\* The approval of a held chat request has its context.
Stored(j, a) ==
    j.kind = "chat" /\ j.at = "answered" /\ Held(j) /\ a.status # "none" =>
        /\ a.context = "chat_completion"
        /\ a.zone = j.zone
        /\ a.prompt = j.prompt

Request(j, es, c, a) ==
    Decided(j) /\ Evidence(j, es) /\ Called(j, es, c) /\ Guarded(j) /\ Stored(j, a)

ServiceInv ==
    service.state = "serving" =>
        Loadable(service.document) /\ service.policies = LoadPolicySet(service.document)

ChatInv ==
    /\ TypeOK
    /\ ServiceInv
    /\ \A r \in Requests : Request(job[r], events[r], call[r], approval[r])

----------------------------------------------------------------------------
(* The types.                                                              *)

LEMMA RouteTyped ==
    ASSUME NEW decision \in Decisions
    PROVE  /\ ChooseRoute(decision) \in Routes \cup {NoRoute}
           /\ decision.action \notin HoldingActions => ChooseRoute(decision) \in Routes
BY DEF Decisions, ChooseRoute, ChooseApprovedRoute, Routes, NoRoute, NoZone, ModelZones

LEMMA GuardTyped ==
    ASSUME NEW text \in Text
    PROVE  /\ GuardResponseText(text).content \in Text
           /\ GuardResponseText(text).action \in {"allow", "mask", "block"}
BY TextAssumption DEF TextAssumption, GuardResponseText, Blocked, Allowed

LEMMA EventTyped ==
    ASSUME NEW j \in Jobs
    PROVE  /\ \A type \in EventTypes : EvaluationEvent(j, type) \in Events
           /\ ResponseEvent(j) \in Events
<1>1. j.decision \in Decisions
  BY DEF Jobs
<1>2. j.decision.action \in PolicyActions /\ j.decision.policy \in PolicyIds
  BY <1>1 DEF Decisions
<1>3. ChooseRoute(j.decision) \in Routes \cup {NoRoute}
  BY <1>1, RouteTyped
<1>4. ASSUME NEW type \in EventTypes
      PROVE  EvaluationEvent(j, type) \in Events
  BY <1>2, <1>3 DEF EvaluationEvent, Event, Events, Actions
<1>5. ResponseEvent(j) \in Events
  <2>1. j.aggregate \in Actions
    BY DEF Jobs, Actions, PolicyActions
  <2> QED
    BY <2>1 DEF ResponseEvent, Event, Events, EventTypes
<1> QED
  BY <1>4, <1>5

LEMMA InitChat == Init => ChatInv
<1> SUFFICES ASSUME Init PROVE ChatInv
  OBVIOUS
<1> USE TextAssumption, ChatAssumption
<1>1. NewJob \in Jobs
  BY DefaultAllowTyped
  DEF NewJob, Jobs, Steps, Statuses, TextAssumption, NoZone
<1>2. TypeOK
  BY <1>1 DEF Init, TypeOK, Approvals, Calls, ChatAssumption, TextAssumption, NoApproval, NoCall, NoZone
<1>3. Request(NewJob, <<>>, NoCall, NoApproval)
  BY DEF Request, Decided, Evidence, Position, Called, Guarded, Stored, NewJob, NoCall,
     ExpectedTypes, Held, DefaultAllow, NoApproval, EvaluationSteps, EventTypes
<1> QED
  BY <1>2, <1>3 DEF Init, ChatInv, ServiceInv

----------------------------------------------------------------------------
(* The steps.                                                              *)

\* A step of one request that leaves the process alone.
StepOf(r, j, es, c, a) ==
    /\ job' = [job EXCEPT ![r] = j]
    /\ events' = [events EXCEPT ![r] = es]
    /\ call' = [call EXCEPT ![r] = c]
    /\ approval' = [approval EXCEPT ![r] = a]
    /\ service' = service
    /\ restarts' = restarts
    /\ failures' \in 0..MaxFailures

LEMMA OneRequest ==
    ASSUME ChatInv, NEW r \in Requests,
           NEW j \in Jobs, NEW es \in Seq(Events), NEW c \in Calls, NEW a \in Approvals,
           Request(j, es, c, a), StepOf(r, j, es, c, a)
    PROVE  ChatInv'
<1> USE DEF StepOf
<1>1. TypeOK'
  BY DEF ChatInv, TypeOK
<1>2. ASSUME NEW q \in Requests
      PROVE  Request(job'[q], events'[q], call'[q], approval'[q])
  <2>1. CASE q = r
    BY <2>1 DEF ChatInv, TypeOK
  <2>2. CASE q # r
    BY <2>2 DEF ChatInv, TypeOK
  <2> QED
    BY <2>1, <2>2
<1>3. ServiceInv'
  BY DEF ChatInv, ServiceInv
<1> QED
  BY <1>1, <1>2, <1>3 DEF ChatInv

\* What the invariant says of the request whose step it is.
LEMMA OfRequest ==
    ASSUME ChatInv, NEW r \in Requests
    PROVE  /\ job[r] \in Jobs /\ events[r] \in Seq(Events) /\ call[r] \in Calls
           /\ approval[r] \in Approvals
           /\ Request(job[r], events[r], call[r], approval[r])
           /\ job = [job EXCEPT ![r] = job[r]]
           /\ events = [events EXCEPT ![r] = events[r]]
           /\ call = [call EXCEPT ![r] = call[r]]
           /\ approval = [approval EXCEPT ![r] = approval[r]]
           /\ failures \in 0..MaxFailures
BY DEF ChatInv, TypeOK

LEMMA StartChat == ASSUME ChatInv, Start PROVE ChatInv'
<1>1. TypeOK'
  BY DEF ChatInv, TypeOK, Start
<1>2. ServiceInv'
  BY DEF ChatInv, TypeOK, Start, ServiceInv
<1> QED
  BY <1>1, <1>2 DEF ChatInv, Start

\* k differs from j in the program counter and the status only.
SameRequest(j, k) ==
    /\ k.kind = j.kind /\ k.text = j.text /\ k.grade = j.grade /\ k.zone = j.zone
    /\ k.document = j.document /\ k.decision = j.decision /\ k.prompt = j.prompt
    /\ k.reply = j.reply /\ k.choices = j.choices /\ k.aggregate = j.aggregate
    /\ ExpectedTypes(k) = ExpectedTypes(j)
    /\ ResponseEvent(k) = ResponseEvent(j)
    /\ \A type : EvaluationEvent(k, type) = EvaluationEvent(j, type)

Moved(j, at, status) == [j EXCEPT !.at = at, !.status = status]

LEMMA MovedRequest ==
    ASSUME NEW j \in Jobs, NEW at \in Steps, NEW status \in Statuses
    PROVE  /\ Moved(j, at, status) \in Jobs
           /\ Moved(j, at, status).at = at
           /\ SameRequest(j, Moved(j, at, status))
<1> DEFINE k == Moved(j, at, status)
<1>1. k \in Jobs
  BY DEF Jobs, Moved
<1>2. /\ k.at = at /\ k.kind = j.kind /\ k.text = j.text /\ k.grade = j.grade
      /\ k.zone = j.zone /\ k.document = j.document /\ k.decision = j.decision
      /\ k.prompt = j.prompt /\ k.reply = j.reply /\ k.choices = j.choices
      /\ k.aggregate = j.aggregate
  BY DEF Jobs, Moved
<1> HIDE DEF k
<1>3. ExpectedTypes(k) = ExpectedTypes(j) /\ ResponseEvent(k) = ResponseEvent(j)
  BY <1>2 DEF ExpectedTypes, ResponseEvent
<1>4. \A type : EvaluationEvent(k, type) = EvaluationEvent(j, type)
  BY <1>2 DEF EvaluationEvent
<1> QED
  BY <1>1, <1>2, <1>3, <1>4 DEF SameRequest, k

LEMMA SameStatus ==
    ASSUME NEW j \in Jobs, NEW at
    PROVE  [j EXCEPT !.at = at] = Moved(j, at, j.status) /\ j.status \in Statuses
BY DEF Jobs, Moved

\* A thread that ends keeps what is known of it.
LEMMA EndedRequest ==
    ASSUME NEW j \in Jobs, NEW es \in Seq(Events), NEW c, NEW a,
           Request(j, es, c, a), j.at \notin {"new", "answered"},
           NEW at \in {"failed", "lost"}, NEW status \in Statuses
    PROVE  Moved(j, at, status) \in Jobs /\ Request(Moved(j, at, status), es, c, a)
<1> DEFINE k == Moved(j, at, status)
<1>0. at \in Steps
  BY DEF Steps
<1>1. k \in Jobs /\ k.at = at /\ SameRequest(j, k)
  BY <1>0, MovedRequest
<1> HIDE DEF k
<1>5. Decided(k)
  BY <1>1 DEF Request, SameRequest, Decided
<1>6. Evidence(k, es)
  BY <1>1 DEF Request, SameRequest, Evidence, Position
<1>7. Called(k, es, c)
  BY <1>1 DEF Request, SameRequest, Called
<1>8. Guarded(k)
  BY <1>1 DEF Request, SameRequest, Guarded, EvaluationSteps, EventTypes
<1>9. Stored(k, a)
  BY <1>1 DEF SameRequest, Stored
<1> QED
  BY <1>1, <1>5, <1>6, <1>7, <1>8, <1>9 DEF Request, k

LEMMA FailedRequest ==
    ASSUME ChatInv, NEW r \in Requests, NEW status \in Statuses, Fail(r, status),
           job[r].at \notin {"new", "answered"},
           UNCHANGED <<service, events, approval, call, restarts>>,
           failures' \in 0..MaxFailures
    PROVE  ChatInv'
<1> DEFINE k == Moved(job[r], "failed", status)
<1>1. k \in Jobs /\ Request(k, events[r], call[r], approval[r])
  <2>1. /\ job[r] \in Jobs /\ events[r] \in Seq(Events)
        /\ Request(job[r], events[r], call[r], approval[r])
    BY OfRequest
  <2> QED
    BY <2>1, EndedRequest
<1>2. job' = [job EXCEPT ![r] = k]
  BY DEF Fail, Moved
<1> HIDE DEF k
<1>3. events[r] \in Seq(Events) /\ call[r] \in Calls /\ approval[r] \in Approvals
  BY OfRequest
<1>4. StepOf(r, k, events[r], call[r], approval[r])
  BY <1>2, OfRequest DEF StepOf
<1> QED
  BY <1>1, <1>3, <1>4, OneRequest

LEMMA RestartChat == ASSUME ChatInv, Restart PROVE ChatInv'
<1>1. ASSUME NEW r \in Requests
      PROVE  job'[r] \in Jobs /\ Request(job'[r], events'[r], call'[r], approval'[r])
  <2>1. /\ job[r] \in Jobs /\ events[r] \in Seq(Events)
        /\ Request(job[r], events[r], call[r], approval[r])
    BY OfRequest
  <2>2. events'[r] = events[r] /\ call'[r] = call[r] /\ approval'[r] = NoApproval
    BY DEF Restart
  <2>3. CASE job[r].at \in {"new", "answered", "failed"}
    <3>1. job'[r] = job[r]
      BY <2>3 DEF Restart
    <3>2. Stored(job[r], NoApproval)
      BY DEF Stored, NoApproval
    <3> QED
      BY <2>1, <2>2, <3>1, <3>2 DEF Request
  <2>4. CASE job[r].at \notin {"new", "answered", "failed"}
    <3>1. job'[r] = Moved(job[r], "lost", job[r].status)
      BY <2>1, <2>4, SameStatus DEF Restart
    <3>2. job'[r] \in Jobs /\ Request(job'[r], events[r], call[r], approval[r])
      <4>1. job[r].status \in Statuses /\ job[r].at \notin {"new", "answered"}
        BY <2>1, <2>4, SameStatus
      <4> QED
        BY <2>1, <3>1, <4>1, EndedRequest, Zenon
    <3>3. Stored(job'[r], NoApproval)
      BY DEF Stored, NoApproval
    <3> QED
      BY <2>2, <3>2, <3>3 DEF Request
  <2> QED
    BY <2>3, <2>4
<1>2. TypeOK'
  <2>1. job' \in [Requests -> Jobs]
    <3>1. DOMAIN job' = Requests /\ job' = [r \in Requests |-> job'[r]]
      BY DEF Restart
    <3> QED
      BY <1>1, <3>1
  <2>2. approval' \in [Requests -> Approvals]
    BY TextAssumption DEF Restart, NoApproval, Approvals, TextAssumption, NoZone
  <2>3. service' \in [state : {"starting", "serving", "failed"}, document : Documents,
                      policies : {<<>>} \cup {LoadPolicySet(d) : d \in Documents}]
    BY DEF Restart
  <2>4. restarts' \in 0..MaxRestarts
    BY ChatAssumption DEF ChatInv, TypeOK, Restart, ChatAssumption
  <2> QED
    BY <2>1, <2>2, <2>3, <2>4 DEF ChatInv, TypeOK, Restart
<1>3. ServiceInv'
  BY DEF Restart, ServiceInv
<1> QED
  BY <1>1, <1>2, <1>3 DEF ChatInv

LEMMA AppendRaisesChat ==
    ASSUME ChatInv, NEW r \in Requests, AppendRaises(r) PROVE ChatInv'
<1>1. job[r].at \notin {"new", "answered"}
  BY DEF AppendRaises, EventTypes
<1>2. 500 \in Statuses
  BY DEF Statuses
<1>3. failures' \in 0..MaxFailures
  BY ChatAssumption DEF AppendRaises, ChatInv, TypeOK, ChatAssumption
<1> QED
  BY <1>1, <1>2, <1>3, FailedRequest DEF AppendRaises

LEMMA ProviderFailsChat ==
    ASSUME ChatInv, NEW r \in Requests, NEW failure \in Failures,
           ProviderFails(r, failure)
    PROVE  ChatInv'
<1>1. job[r].at \notin {"new", "answered"}
  BY DEF ProviderFails
<1>2. ClientStatus(failure) \in Statuses
  BY ChatAssumption DEF ChatAssumption, ClientStatus, Results, ReturnedResults,
     ProviderErrorResults, UnexpectedResults, Statuses
<1>3. failures' \in 0..MaxFailures
  BY DEF ProviderFails, ChatInv, TypeOK
<1> QED
  BY <1>1, <1>2, <1>3, FailedRequest DEF ProviderFails

LEMMA ResolveChat ==
    ASSUME ChatInv, NEW r \in Requests, Resolve(r) PROVE ChatInv'
<1> DEFINE a == [approval[r] EXCEPT !.status = "resolved"]
<1>1. /\ job[r] \in Jobs /\ events[r] \in Seq(Events) /\ call[r] \in Calls
      /\ approval[r] \in Approvals
      /\ Request(job[r], events[r], call[r], approval[r])
  BY OfRequest
<1>2. a \in Approvals /\ a.zone = approval[r].zone /\ a.prompt = approval[r].prompt
                     /\ a.context = approval[r].context
  BY <1>1 DEF Approvals
<1>3. approval' = [approval EXCEPT ![r] = a]
  BY DEF Resolve
<1>4. approval[r].status # "none"
  BY DEF Resolve
<1> HIDE DEF a
<1>5. Request(job[r], events[r], call[r], a)
  BY <1>1, <1>2, <1>4 DEF Request, Stored
<1>6. StepOf(r, job[r], events[r], call[r], a)
  BY <1>3, OfRequest DEF Resolve, StepOf
<1> QED
  BY <1>1, <1>2, <1>5, <1>6, OneRequest

LEMMA CreateApprovalChat ==
    ASSUME ChatInv, NEW r \in Requests, CreateApproval(r) PROVE ChatInv'
<1> DEFINE a == [NoApproval EXCEPT !.status = "pending", !.context = "policy_evaluation"]
           k == Moved(job[r], "approval_requested", job[r].status)
<1>1. /\ job[r] \in Jobs /\ events[r] \in Seq(Events) /\ call[r] \in Calls
      /\ Request(job[r], events[r], call[r], approval[r])
  BY OfRequest
<1>2. a \in Approvals
  BY TextAssumption DEF Approvals, NoApproval, NoZone, TextAssumption
<1>3. approval' = [approval EXCEPT ![r] = a]
  BY DEF CreateApproval
<1>4. job' = [job EXCEPT ![r] = k]
  BY <1>1, SameStatus DEF CreateApproval, GoTo
<1>5. k \in Jobs /\ k.at = "approval_requested" /\ SameRequest(job[r], k)
  <2>1. "approval_requested" \in Steps
    BY DEF Steps, EventTypes
  <2> QED
    BY <1>1, <2>1, SameStatus, MovedRequest
<1> HIDE DEF a, k
<1>6. Request(k, events[r], call[r], a)
  <2>1. Decided(k)
    BY <1>1, <1>5 DEF CreateApproval, Request, SameRequest, Decided
  <2>2. Evidence(k, events[r])
    BY <1>1, <1>5 DEF CreateApproval, Request, SameRequest, Evidence, Position, Held
  <2>3. Called(k, events[r], call[r])
    BY <1>1, <1>5 DEF CreateApproval, Request, SameRequest, Called
  <2>4. Guarded(k)
    BY <1>1, <1>5 DEF CreateApproval, Request, SameRequest, Guarded
  <2>5. Stored(k, a)
    BY <1>5 DEF Stored
  <2> QED
    BY <2>1, <2>2, <2>3, <2>4, <2>5 DEF Request
<1>7. StepOf(r, k, events[r], call[r], a)
  BY <1>3, <1>4, OfRequest DEF CreateApproval, StepOf
<1> QED
  BY <1>1, <1>2, <1>5, <1>6, <1>7, OneRequest

LEMMA AttachContextChat ==
    ASSUME ChatInv, NEW r \in Requests, AttachContext(r) PROVE ChatInv'
<1> DEFINE a == [approval[r] EXCEPT !.context = "chat_completion",
                     !.zone = ChooseApprovedRoute(job[r].zone).zone,
                     !.prompt = job[r].prompt]
           k == Moved(job[r], "answered", 200)
<1>1. /\ job[r] \in Jobs /\ events[r] \in Seq(Events) /\ call[r] \in Calls
      /\ approval[r] \in Approvals
      /\ Request(job[r], events[r], call[r], approval[r])
  BY OfRequest
<1>2. job[r].at = "attach"
  BY DEF AttachContext
<1>3. CASE approval[r].status # "pending"
  <2>1. Fail(r, 422) /\ 422 \in Statuses /\ failures' \in 0..MaxFailures
    BY <1>3 DEF AttachContext, ChatInv, TypeOK, Statuses
  <2>2. UNCHANGED <<service, events, approval, call, restarts>>
    BY <1>3 DEF AttachContext
  <2> QED
    BY <1>2, <2>1, <2>2, FailedRequest
<1>4. CASE approval[r].status = "pending"
  <2>1. job[r].prompt \in Text /\ job[r].zone \in ModelZones \cup {NoZone}
    BY <1>1 DEF Jobs
  <2>2. /\ a \in Approvals /\ a.zone = job[r].zone /\ a.prompt = job[r].prompt
        /\ a.context = "chat_completion"
    BY <1>1, <2>1 DEF Approvals, ChooseApprovedRoute
  <2>3. approval' = [approval EXCEPT ![r] = a] /\ job' = [job EXCEPT ![r] = k]
    BY <1>4 DEF AttachContext, Answer, Moved
  <2>4. k \in Jobs /\ k.at = "answered" /\ SameRequest(job[r], k)
    <3>1. "answered" \in Steps /\ 200 \in Statuses
      BY DEF Steps, Statuses
    <3> QED
      BY <1>1, <3>1, MovedRequest
  <2> HIDE DEF a, k
  <2>5. Request(k, events[r], call[r], a)
    <3>1. Decided(k)
      BY <1>1, <1>2, <2>4 DEF Request, SameRequest, Decided
    <3>2. Evidence(k, events[r])
      BY <1>1, <1>2, <2>4, Zenon
      DEF Request, SameRequest, Evidence, Position, Held, ExpectedTypes
    <3>3. Called(k, events[r], call[r])
      BY <1>1, <1>2, <2>4 DEF Request, SameRequest, Called
    <3>4. Guarded(k)
      BY <1>1, <1>2, <2>4 DEF Request, SameRequest, Guarded, EvaluationSteps, EventTypes
    <3>5. Stored(k, a)
      BY <2>2, <2>4 DEF SameRequest, Stored
    <3> QED
      BY <3>1, <3>2, <3>3, <3>4, <3>5 DEF Request
  <2>6. StepOf(r, k, events[r], call[r], a)
    BY <2>3, OfRequest DEF AttachContext, StepOf
  <2> QED
    BY <1>1, <2>2, <2>4, <2>5, <2>6, OneRequest
<1> QED
  BY <1>3, <1>4

\* The first five events of a request are of the evaluation.
LEMMA NoResponseYet ==
    ASSUME NEW j, NEW es \in Seq(Events), Evidence(j, es), Len(es) = 5
    PROVE  \A n \in DOMAIN es : es[n].type # "response_analyzed"
<1>1. DOMAIN es = 1..5
  OBVIOUS
<1>2. \A n \in 1..5 : es[n].type = ExpectedTypes(j)[n]
  BY <1>1 DEF Evidence
<1>3. \A n \in 1..5 : ExpectedTypes(j)[n] # "response_analyzed"
  BY DEF ExpectedTypes
<1> QED
  BY <1>1, <1>2, <1>3

LEMMA SendToProviderChat ==
    ASSUME ChatInv, NEW r \in Requests, SendToProvider(r) PROVE ChatInv'
<1> DEFINE j == job[r]
           route == ChooseRoute(j.decision)
           c == [zone |-> route.zone, model |-> route.model, prompt |-> j.prompt]
           k == IF UsesEndpoint(route.zone, Endpoints) THEN [j EXCEPT !.at = "provider"]
                ELSE [j EXCEPT !.at = "guard", !.reply = <<j.prompt>>]
<1>1. /\ j \in Jobs /\ events[r] \in Seq(Events) /\ approval[r] \in Approvals
      /\ Request(j, events[r], call[r], approval[r])
  BY OfRequest
<1>2. j.at = "send" /\ job' = [job EXCEPT ![r] = k] /\ call' = [call EXCEPT ![r] = c]
  BY DEF SendToProvider
<1>3. j.decision.action \notin HoldingActions /\ j.kind = "chat" /\ Len(events[r]) = 5
  BY <1>1, <1>2 DEF Request, Evidence, Position
<1>4. route \in Routes /\ j.prompt \in Text
  BY <1>1, <1>3, RouteTyped DEF Jobs
<1>5. c \in Calls /\ c # NoCall
  BY <1>4 DEF Calls, Routes, NoCall, NoZone, ModelZones
<1> HIDE DEF j, route
<1>6. /\ k.kind = j.kind /\ k.text = j.text /\ k.grade = j.grade /\ k.zone = j.zone
      /\ k.document = j.document /\ k.decision = j.decision /\ k.prompt = j.prompt
      /\ k.choices = j.choices /\ k.aggregate = j.aggregate
      /\ k.at \in {"provider", "guard"}
      /\ k.at = "guard" => k.reply = <<j.prompt>>
  BY <1>1 DEF Jobs
<1>7. k \in Jobs
  <2>1. {"provider", "guard"} \subseteq Steps
    BY DEF Steps
  <2>2. <<j.prompt>> \in Seq(Text)
    BY <1>4
  <2> QED
    BY <1>1, <2>1, <2>2 DEF Jobs
<1> HIDE DEF c, k
<1>8. Request(k, events[r], c, approval[r])
  <2>1. Decided(k)
    BY <1>1, <1>2, <1>6 DEF Request, Decided
  <2>2. Evidence(k, events[r])
    <3>1. ExpectedTypes(k) = ExpectedTypes(j)
      BY <1>6 DEF ExpectedTypes
    <3>2. \A type : EvaluationEvent(k, type) = EvaluationEvent(j, type)
      BY <1>6 DEF EvaluationEvent
    <3>3. \A n \in DOMAIN events[r] : events[r][n].type # "response_analyzed"
      BY <1>1, <1>3, NoResponseYet DEF Request
    <3>4. Position(k, Len(events[r]))
      BY <1>3, <1>6 DEF Position
    <3> QED
      BY <1>1, <3>1, <3>2, <3>3, <3>4 DEF Request, Evidence
  <2>3. Called(k, events[r], c)
    BY <1>3, <1>5, <1>6 DEF Called, c, route
  <2>4. Guarded(k)
    <3>1. Guarded(j) /\ j.choices = <<>>
      BY <1>1, <1>2 DEF Request, Guarded
    <3>2. j.aggregate = "allow"
      BY <3>1 DEF Guarded
    <3>3. k.choices = <<>> /\ k.aggregate = "allow" /\ k.at # "response_analyzed"
      BY <1>6, <3>1, <3>2
    <3>4. k.at = "guard" => Len(k.choices) < Len(k.reply)
      <4>1. Len(<<>>) < Len(<<j.prompt>>)
        OBVIOUS
      <4> QED
        BY <1>6, <3>3, <4>1, Zenon
    <3> QED
      BY <3>3, <3>4 DEF Guarded
  <2>5. Stored(k, approval[r])
    BY <1>6 DEF Stored
  <2> QED
    BY <2>1, <2>2, <2>3, <2>4, <2>5 DEF Request
<1>9. StepOf(r, k, events[r], c, approval[r])
  BY <1>2, OfRequest DEF SendToProvider, StepOf
<1> QED
  BY <1>1, <1>5, <1>7, <1>8, <1>9, OneRequest

LEMMA ProviderReturnsChat ==
    ASSUME ChatInv, NEW r \in Requests, NEW reply \in Replies, ProviderReturns(r, reply)
    PROVE  ChatInv'
<1> DEFINE j == job[r]
           k == [j EXCEPT !.at = "guard", !.reply = reply]
<1>1. /\ j \in Jobs /\ events[r] \in Seq(Events) /\ call[r] \in Calls
      /\ approval[r] \in Approvals
      /\ Request(j, events[r], call[r], approval[r])
  BY OfRequest
<1>2. j.at = "provider" /\ job' = [job EXCEPT ![r] = k]
  BY DEF ProviderReturns
<1>3. j.decision.action \notin HoldingActions /\ j.kind = "chat" /\ Len(events[r]) = 5
  BY <1>1, <1>2 DEF Request, Evidence, Position
<1>4. reply \in Seq(Text) /\ reply # <<>>
  BY ChatAssumption DEF ChatAssumption
<1> HIDE DEF j
<1>5. /\ k.kind = j.kind /\ k.text = j.text /\ k.grade = j.grade /\ k.zone = j.zone
      /\ k.document = j.document /\ k.decision = j.decision /\ k.prompt = j.prompt
      /\ k.choices = j.choices /\ k.aggregate = j.aggregate
      /\ k.at = "guard" /\ k.reply = reply
  BY <1>1 DEF Jobs
<1>6. k \in Jobs
  <2>1. "guard" \in Steps
    BY DEF Steps
  <2> QED
    BY <1>1, <1>4, <2>1 DEF Jobs
<1> HIDE DEF k
<1>7. Request(k, events[r], call[r], approval[r])
  <2>1. Decided(k)
    BY <1>1, <1>2, <1>5 DEF Request, Decided
  <2>2. Evidence(k, events[r])
    <3>1. ExpectedTypes(k) = ExpectedTypes(j)
      BY <1>5 DEF ExpectedTypes
    <3>2. \A type : EvaluationEvent(k, type) = EvaluationEvent(j, type)
      BY <1>5 DEF EvaluationEvent
    <3>3. \A n \in DOMAIN events[r] : events[r][n].type # "response_analyzed"
      BY <1>1, <1>3, NoResponseYet DEF Request
    <3>4. Position(k, Len(events[r]))
      BY <1>3, <1>5 DEF Position
    <3> QED
      BY <1>1, <3>1, <3>2, <3>3, <3>4 DEF Request, Evidence
  <2>3. Called(k, events[r], call[r])
    BY <1>1, <1>2, <1>5 DEF Request, Called
  <2>4. Guarded(k)
    <3>1. Guarded(j) /\ j.choices = <<>>
      BY <1>1, <1>2 DEF Request, Guarded
    <3>2. j.aggregate = "allow"
      BY <3>1 DEF Guarded
    <3>3. k.choices = <<>> /\ k.aggregate = "allow"
      BY <1>5, <3>1, <3>2
    <3>4. Len(<<>>) < Len(reply)
      BY <1>4
    <3> QED
      BY <1>5, <3>3, <3>4 DEF Guarded
  <2>5. Stored(k, approval[r])
    BY <1>5 DEF Stored
  <2> QED
    BY <2>1, <2>2, <2>3, <2>4, <2>5 DEF Request
<1>8. StepOf(r, k, events[r], call[r], approval[r])
  BY <1>2, OfRequest DEF ProviderReturns, StepOf
<1> QED
  BY <1>1, <1>6, <1>7, <1>8, OneRequest

LEMMA GuardChoiceChat ==
    ASSUME ChatInv, NEW r \in Requests, GuardChoice(r) PROVE ChatInv'
<1> DEFINE j == job[r]
           n == Len(j.choices) + 1
           guarded == GuardResponseText(j.reply[n])
           at == IF n < Len(j.reply) THEN j.at ELSE "response_analyzed"
           k == [j EXCEPT !.choices = Append(j.choices, guarded.content),
                          !.aggregate = Aggregate(j.aggregate, guarded.action),
                          !.at = at]
<1>1. /\ j \in Jobs /\ events[r] \in Seq(Events) /\ call[r] \in Calls
      /\ approval[r] \in Approvals
      /\ Request(j, events[r], call[r], approval[r])
  BY OfRequest
<1>2. j.at = "guard" /\ job' = [job EXCEPT ![r] = k]
  BY DEF GuardChoice
<1>3. /\ j.decision.action \notin HoldingActions /\ j.kind = "chat"
      /\ Len(events[r]) = 5 /\ Len(j.choices) < Len(j.reply)
  BY <1>1, <1>2 DEF Request, Evidence, Position, Guarded
<1>4. /\ j.choices \in Seq(Text) /\ j.reply \in Seq(Text)
      /\ j.aggregate \in {"allow", "mask", "block"}
  BY <1>1 DEF Jobs
<1>5. n \in DOMAIN j.reply /\ n \in Nat /\ j.reply[n] \in Text
  BY <1>3, <1>4
<1>6. guarded.content \in Text /\ guarded.action \in {"allow", "mask", "block"}
  BY <1>5, GuardTyped
<1> DEFINE choices == Append(j.choices, guarded.content)
           aggregate == Aggregate(j.aggregate, guarded.action)
<1>7. /\ choices \in Seq(Text) /\ Len(choices) = n
      /\ choices[n] = guarded.content
      /\ \A i \in 1..n : i # n => i \in DOMAIN j.choices /\ choices[i] = j.choices[i]
      /\ \A i \in DOMAIN j.choices : i \in 1..n /\ i # n
  BY <1>4, <1>6
<1>8. /\ aggregate \in {"allow", "mask", "block"}
      /\ aggregate = "block" <=> j.aggregate = "block" \/ guarded.action = "block"
      /\ aggregate = "allow" <=> j.aggregate = "allow" /\ guarded.action = "allow"
  BY <1>4, <1>6 DEF Aggregate
<1>9. at \in {"guard", "response_analyzed"} /\ (at = "guard" <=> n < Len(j.reply))
  BY <1>2
<1> HIDE DEF j, at
<1>10. /\ k.kind = j.kind /\ k.text = j.text /\ k.grade = j.grade /\ k.zone = j.zone
       /\ k.document = j.document /\ k.decision = j.decision /\ k.prompt = j.prompt
       /\ k.reply = j.reply /\ k.choices = choices /\ k.aggregate = aggregate
       /\ k.at = at
  BY <1>1 DEF Jobs
<1>11. k \in Jobs
  <2>1. {"guard", "response_analyzed"} \subseteq Steps
    BY DEF Steps, EventTypes
  <2> HIDE DEF choices, aggregate
  <2>2. k = [j EXCEPT !.choices = choices, !.aggregate = aggregate, !.at = at]
    BY <1>1 DEF choices, aggregate, Jobs
  <2> HIDE DEF k
  <2> QED
    BY <1>1, <1>7, <1>8, <1>9, <2>1, <2>2 DEF Jobs
<1> HIDE DEF k, choices, aggregate, n, guarded
<1>12. Request(k, events[r], call[r], approval[r])
  <2>1. Decided(k)
    BY <1>1, <1>2, <1>10 DEF Request, Decided
  <2>2. Evidence(k, events[r])
    <3>1. ExpectedTypes(k) = ExpectedTypes(j)
      BY <1>10 DEF ExpectedTypes
    <3>2. \A type : EvaluationEvent(k, type) = EvaluationEvent(j, type)
      BY <1>10 DEF EvaluationEvent
    <3>3. \A m \in DOMAIN events[r] : events[r][m].type # "response_analyzed"
      BY <1>1, <1>3, NoResponseYet DEF Request
    <3>4. Position(k, Len(events[r]))
      BY <1>3, <1>9, <1>10 DEF Position
    <3> QED
      BY <1>1, <3>1, <3>2, <3>3, <3>4 DEF Request, Evidence
  <2>3. Called(k, events[r], call[r])
    BY <1>1, <1>2, <1>9, <1>10 DEF Request, Called
  <2>4. Guarded(k)
    <3>1. Guarded(j)
      BY <1>1 DEF Request
    <3>2. DOMAIN k.choices = 1..n
      BY <1>7, <1>10
    <3>3. \A i \in DOMAIN k.choices :
              i \in DOMAIN k.reply
              /\ k.choices[i] = GuardResponseText(k.reply[i]).content
      <4> SUFFICES ASSUME NEW i \in 1..n
                   PROVE  i \in DOMAIN j.reply
                          /\ choices[i] = GuardResponseText(j.reply[i]).content
        BY <1>10, <3>2
      <4>1. CASE i = n
        BY <1>5, <1>7, <4>1 DEF guarded
      <4>2. CASE i # n
        BY <1>7, <3>1, <4>2 DEF Guarded
      <4> QED
        BY <4>1, <4>2
    <3>4. k.aggregate = "block" <=>
              \E i \in DOMAIN k.choices : GuardResponseText(k.reply[i]).action = "block"
      <4>1. (\E i \in 1..n : GuardResponseText(j.reply[i]).action = "block")
               <=> \/ \E i \in DOMAIN j.choices :
                          GuardResponseText(j.reply[i]).action = "block"
                   \/ guarded.action = "block"
        <5>1. n \in 1..n
          BY <1>5 DEF n
        <5> QED
          BY <1>7, <5>1 DEF guarded
      <4> QED
        BY <1>8, <1>10, <3>1, <3>2, <4>1 DEF Guarded
    <3>5. k.aggregate = "allow" <=>
              \A i \in DOMAIN k.choices : GuardResponseText(k.reply[i]).action = "allow"
      <4>1. (\A i \in 1..n : GuardResponseText(j.reply[i]).action = "allow")
               <=> /\ \A i \in DOMAIN j.choices :
                          GuardResponseText(j.reply[i]).action = "allow"
                   /\ guarded.action = "allow"
        <5>1. n \in 1..n
          BY <1>5 DEF n
        <5> QED
          BY <1>7, <5>1 DEF guarded
      <4> QED
        BY <1>8, <1>10, <3>1, <3>2, <4>1 DEF Guarded
    <3>6. k.at \notin {"new", "create", "attach", "send", "provider"} \cup EvaluationSteps
      BY <1>9, <1>10 DEF EvaluationSteps, EventTypes
    <3>7. /\ k.at = "guard" => Len(k.choices) < Len(k.reply)
          /\ k.at = "response_analyzed" => Len(k.choices) = Len(k.reply)
      <4>1. Len(j.reply) \in Nat /\ n <= Len(j.reply)
        BY <1>4, <1>5
      <4> QED
        BY <1>5, <1>7, <1>9, <1>10, <4>1
    <3> QED
      BY <3>3, <3>4, <3>5, <3>6, <3>7 DEF Guarded
  <2>5. Stored(k, approval[r])
    BY <1>9, <1>10 DEF Stored
  <2> QED
    BY <2>1, <2>2, <2>3, <2>4, <2>5 DEF Request
<1>13. StepOf(r, k, events[r], call[r], approval[r])
  BY <1>2, OfRequest DEF GuardChoice, StepOf
<1> QED
  BY <1>1, <1>11, <1>12, <1>13, OneRequest

\* The event a thread appends is the next of those expected of it.
LEMMA AppendedEvidence ==
    ASSUME NEW j, NEW k, SameRequest(j, k), NEW es \in Seq(Events), NEW type,
           NEW e \in Events, Evidence(j, es), e.type = type,
           e = IF type = "response_analyzed" THEN ResponseEvent(j)
               ELSE EvaluationEvent(j, type),
           type = "response_analyzed" => Len(j.choices) = Len(j.reply),
           Len(es) + 1 <= Len(ExpectedTypes(j)),
           type = ExpectedTypes(j)[Len(es) + 1],
           Position(k, Len(es) + 1)
    PROVE  Append(es, e) \in Seq(Events) /\ Evidence(k, Append(es, e))
<1> DEFINE n == Len(es) + 1
           longer == Append(es, e)
<1>1. /\ longer \in Seq(Events) /\ Len(longer) = n /\ longer[n] = e /\ DOMAIN longer = 1..n
      /\ \A m \in 1..n : m # n => m \in DOMAIN es /\ longer[m] = es[m]
  OBVIOUS
<1> HIDE DEF n, longer
<1>2. ASSUME NEW m \in 1..n
      PROVE  /\ longer[m].type = ExpectedTypes(k)[m]
             /\ longer[m] = IF longer[m].type = "response_analyzed" THEN ResponseEvent(k)
                            ELSE EvaluationEvent(k, longer[m].type)
             /\ longer[m].type = "response_analyzed" => Len(k.choices) = Len(k.reply)
  <2>1. CASE m = n
    BY <1>1, <2>1 DEF SameRequest, n
  <2>2. CASE m # n
    BY <1>1, <2>2 DEF SameRequest, Evidence
  <2> QED
    BY <2>1, <2>2
<1>3. Position(k, Len(longer)) /\ Len(longer) <= Len(ExpectedTypes(k))
  BY <1>1 DEF n, SameRequest
<1> QED
  BY <1>1, <1>2, <1>3 DEF Evidence, longer

LEMMA RecordResponseChat ==
    ASSUME ChatInv, NEW r \in Requests, RecordResponse(r) PROVE ChatInv'
<1> DEFINE j == job[r]
           es == events[r]
           e == ResponseEvent(j)
           k == Moved(j, "answered", 200)
<1>1. /\ j \in Jobs /\ es \in Seq(Events) /\ call[r] \in Calls
      /\ approval[r] \in Approvals
      /\ Request(j, es, call[r], approval[r])
  BY OfRequest
<1>2. /\ j.at = "response_analyzed" /\ job' = [job EXCEPT ![r] = k]
      /\ events' = [events EXCEPT ![r] = Append(es, e)]
  BY DEF RecordResponse, Answer, Moved
<1>3. k \in Jobs /\ k.at = "answered" /\ SameRequest(j, k)
  <2>1. "answered" \in Steps /\ 200 \in Statuses
    BY DEF Steps, Statuses
  <2> QED
    BY <1>1, <2>1, MovedRequest
<1>4. /\ Len(es) = 5 /\ j.kind = "chat" /\ j.decision.action \notin HoldingActions
      /\ Len(j.choices) = Len(j.reply)
  BY <1>1, <1>2 DEF Request, Evidence, Position, Guarded
<1>5. e \in Events /\ e.type = "response_analyzed"
  BY <1>1, EventTyped DEF ResponseEvent, Event
<1> HIDE DEF j, es, e, k
<1>6. ExpectedTypes(j) = <<"request_received", "request_analyzed", "policy_decided",
                           "model_routed", "request_finalized", "response_analyzed">>
  BY <1>4 DEF ExpectedTypes, HoldingActions
<1>7. Len(ExpectedTypes(j)) = 6 /\ ExpectedTypes(j)[6] = "response_analyzed"
  BY <1>6
<1>8. Position(k, 6)
  BY <1>3, <1>4, <1>7 DEF Position, SameRequest
<1>9. Append(es, e) \in Seq(Events) /\ Evidence(k, Append(es, e))
  <2>1. Evidence(j, es)
    BY <1>1 DEF Request
  <2>2. /\ e = IF "response_analyzed" = "response_analyzed" THEN ResponseEvent(j)
               ELSE EvaluationEvent(j, "response_analyzed")
        /\ Len(es) + 1 = 6 /\ Len(es) + 1 <= Len(ExpectedTypes(j))
        /\ "response_analyzed" = ExpectedTypes(j)[Len(es) + 1]
        /\ Position(k, Len(es) + 1)
    BY <1>4, <1>7, <1>8 DEF e
  <2> QED
    BY <1>1, <1>3, <1>4, <1>5, <2>1, <2>2, AppendedEvidence, Zenon
<1>10. Request(k, Append(es, e), call[r], approval[r])
  <2>1. Decided(k)
    BY <1>1, <1>2, <1>3 DEF Request, SameRequest, Decided
  <2>2. Called(k, Append(es, e), call[r])
    <3>1. Len(Append(es, e)) >= 5
      <4>1. Len(Append(es, e)) = Len(es) + 1
        BY <1>1, <1>5
      <4> QED
        BY <1>4, <4>1
    <3> QED
      BY <1>1, <1>2, <1>3, <3>1 DEF Request, SameRequest, Called
  <2>3. Guarded(k)
    BY <1>1, <1>3 DEF Request, SameRequest, Guarded, EvaluationSteps, EventTypes
  <2>4. Stored(k, approval[r])
    BY <1>3, <1>4 DEF SameRequest, Stored, Held, HoldingActions
  <2> QED
    BY <1>9, <2>1, <2>2, <2>3, <2>4 DEF Request
<1>11. StepOf(r, k, Append(es, e), call[r], approval[r])
  BY <1>2, OfRequest DEF RecordResponse, StepOf
<1> QED
  BY <1>1, <1>3, <1>9, <1>10, <1>11, OneRequest

\* The order of the events and of the steps of evaluate agree.
LEMMA NextEvent ==
    ASSUME NEW j, NEW n \in Nat, j.at \in EvaluationSteps, j.kind \in Endpoint,
           Position(j, n), n <= Len(ExpectedTypes(j)),
           NEW k, SameRequest(j, k), k.at = AfterEvent(j, j.at)
    PROVE  /\ n + 1 <= Len(ExpectedTypes(j))
           /\ j.at = ExpectedTypes(j)[n + 1]
           /\ Position(k, n + 1)
           /\ k.at \in {"request_analyzed", "policy_decided", "model_routed", "create",
                        "request_finalized", "attach", "send", "answered"}
           /\ k.at = "answered" => ~(j.kind = "chat" /\ Held(j))
<1> DEFINE expected == ExpectedTypes(j)
<1>1. j.kind \in {"evaluate", "chat"}
  BY DEF Position, EvaluationSteps, EventTypes, Endpoint
<1>2. /\ expected[1] = "request_received" /\ expected[2] = "request_analyzed"
      /\ expected[3] = "policy_decided" /\ expected[4] = "model_routed"
      /\ Len(expected) \in {5, 6}
  BY DEF ExpectedTypes
<1>3. /\ Held(j) => /\ expected[5] = "approval_requested"
                     /\ expected[6] = "request_finalized" /\ Len(expected) = 6
      /\ ~Held(j) => /\ expected[5] = "request_finalized"
                     /\ \/ j.kind = "chat" /\ j.decision.action # "block"
                        \/ Len(expected) = 5
  BY DEF ExpectedTypes, Held
<1>4. (Held(k) <=> Held(j)) /\ k.kind = j.kind /\ k.decision = j.decision
      /\ ExpectedTypes(k) = expected
  BY DEF Held, SameRequest
<1> HIDE DEF expected
<1>5. CASE j.at \in {"request_received", "request_analyzed", "policy_decided"}
  BY <1>1, <1>2, <1>4, <1>5 DEF Position, AfterEvent, expected
<1>6. CASE j.at = "model_routed"
  <2>1. n = 3 /\ k.at = IF Held(j) THEN "create" ELSE "request_finalized"
    BY <1>6 DEF Position, AfterEvent, Held
  <2> QED
    BY <1>1, <1>2, <1>4, <1>6, <2>1 DEF Position, expected
<1>7. CASE j.at = "approval_requested"
  <2>1. n = 4 /\ Held(j) /\ k.at = "request_finalized"
    BY <1>7 DEF Position, AfterEvent
  <2>2. /\ n + 1 = 5 /\ Len(expected) = 6 /\ expected[5] = "approval_requested"
        /\ Held(k) /\ k.kind # "simulate"
    BY <1>1, <1>3, <1>4, <2>1
  <2>3. Position(k, 5)
    BY <2>1, <2>2 DEF Position
  <2> QED
    BY <1>7, <2>1, <2>2, <2>3 DEF expected
<1>8. CASE j.at = "request_finalized"
  <2>1. /\ n = IF Held(j) THEN 5 ELSE 4
        /\ k.at = IF j.kind = "evaluate" \/ j.decision.action = "block" THEN "answered"
                  ELSE IF Held(j) THEN "attach" ELSE "send"
    BY <1>8 DEF Position, AfterEvent, Held
  <2>2. CASE Held(j)
    <3>1. /\ n + 1 = 6 /\ Len(expected) = 6 /\ expected[6] = "request_finalized"
          /\ Held(k) /\ k.kind = j.kind
      BY <1>3, <1>4, <2>1, <2>2
    <3>2. k.at = IF j.kind = "evaluate" THEN "answered" ELSE "attach"
      BY <2>1, <2>2 DEF Held
    <3>3. Position(k, 6)
      BY <1>1, <1>4, <3>1, <3>2 DEF Position, expected
    <3> QED
      BY <1>1, <1>8, <3>1, <3>2, <3>3 DEF expected
  <2>3. CASE ~Held(j)
    BY <1>1, <1>2, <1>3, <1>4, <1>8, <2>1, <2>3
    DEF Position, expected, Held, HoldingActions
  <2> QED
    BY <2>2, <2>3
<1> QED
  BY <1>5, <1>6, <1>7, <1>8 DEF EvaluationSteps, EventTypes

LEMMA RecordEvaluationChat ==
    ASSUME ChatInv, NEW r \in Requests, RecordEvaluation(r) PROVE ChatInv'
<1> DEFINE j == job[r]
           es == events[r]
           e == EvaluationEvent(j, j.at)
           at == AfterEvent(j, j.at)
           status == IF at = "answered" THEN 200 ELSE j.status
           k == Moved(j, at, status)
<1>1. /\ j \in Jobs /\ es \in Seq(Events) /\ call[r] \in Calls
      /\ approval[r] \in Approvals
      /\ Request(j, es, call[r], approval[r])
  BY OfRequest
<1>2. j.at \in EvaluationSteps /\ events' = [events EXCEPT ![r] = Append(es, e)]
  BY DEF RecordEvaluation
<1>3. job' = [job EXCEPT ![r] = k]
  <2>1. CASE at = "answered"
    BY <2>1 DEF RecordEvaluation, Answer, Moved
  <2>2. CASE at # "answered"
    <3>1. [j EXCEPT !.at = at] = k
      BY <1>1, <2>2, SameStatus
    <3>2. job' = [job EXCEPT ![r].at = at]
      BY <2>2 DEF RecordEvaluation, GoTo
    <3> HIDE DEF at, k
    <3> QED
      BY <3>1, <3>2
  <2> QED
    BY <2>1, <2>2
<1>4. at \in Steps
  BY <1>2 DEF AfterEvent, EvaluationSteps, EventTypes, Steps
<1>5. status \in Statuses
  <2>1. j.status \in Statuses
    BY <1>1 DEF Jobs
  <2>2. 200 \in Statuses
    BY DEF Statuses
  <2> QED
    BY <2>1, <2>2
<1> HIDE DEF at, status
<1>6. k \in Jobs /\ k.at = at /\ SameRequest(j, k)
  BY <1>1, <1>4, <1>5, MovedRequest
<1>7. e \in Events /\ e.type = j.at /\ j.at # "response_analyzed"
  <2>1. j.at \in EventTypes /\ j.at # "response_analyzed"
    BY <1>2 DEF EvaluationSteps
  <2> QED
    BY <1>1, <2>1, EventTyped DEF EvaluationEvent, Event
<1> HIDE DEF j, es, e, k
<1>8. j.kind \in Endpoint
  BY <1>1, <1>2 DEF Request, Decided, EvaluationSteps, EventTypes
<1>9. /\ Len(es) \in Nat /\ Len(es) <= Len(ExpectedTypes(j)) /\ Position(j, Len(es))
      /\ Evidence(j, es)
  BY <1>1 DEF Request, Evidence
<1>10. /\ Len(es) + 1 <= Len(ExpectedTypes(j))
       /\ j.at = ExpectedTypes(j)[Len(es) + 1]
       /\ Position(k, Len(es) + 1)
       /\ k.at \in {"request_analyzed", "policy_decided", "model_routed", "create",
                    "request_finalized", "attach", "send", "answered"}
       /\ k.at = "answered" => ~(j.kind = "chat" /\ Held(j))
  <2>1. k.at = AfterEvent(j, j.at)
    BY <1>6 DEF at
  <2> QED
    BY <1>2, <1>6, <1>8, <1>9, <2>1, NextEvent
<1>11. Append(es, e) \in Seq(Events) /\ Evidence(k, Append(es, e))
  <2>1. e = IF j.at = "response_analyzed" THEN ResponseEvent(j)
            ELSE EvaluationEvent(j, j.at)
    BY <1>7 DEF e
  <2> QED
    BY <1>1, <1>6, <1>7, <1>9, <1>10, <2>1, AppendedEvidence, Zenon
<1>12. Request(k, Append(es, e), call[r], approval[r])
  <2>1. Decided(k)
    BY <1>1, <1>2, <1>6 DEF Request, SameRequest, Decided, EvaluationSteps, EventTypes
  <2>2. Called(k, Append(es, e), call[r])
    <3>1. call[r] = NoCall
      BY <1>1, <1>2 DEF Request, Called, EvaluationSteps, EventTypes
    <3> QED
      BY <1>10, <3>1 DEF Called
  <2>3. Guarded(k)
    <3>1. Guarded(j) /\ j.choices = <<>>
      BY <1>1, <1>2 DEF Request, Guarded
    <3>2. k.choices = <<>> /\ k.aggregate = j.aggregate /\ k.reply = j.reply
      BY <1>6, <3>1 DEF SameRequest
    <3> QED
      BY <1>10, <3>1, <3>2 DEF Guarded
  <2>4. Stored(k, approval[r])
    BY <1>6, <1>10 DEF SameRequest, Stored, Held
  <2> QED
    BY <1>11, <2>1, <2>2, <2>3, <2>4 DEF Request
<1>13. StepOf(r, k, Append(es, e), call[r], approval[r])
  BY <1>2, <1>3, OfRequest DEF RecordEvaluation, StepOf, es
<1> QED
  BY <1>1, <1>6, <1>11, <1>12, <1>13, OneRequest

LEMMA SubmitChat ==
    ASSUME ChatInv, NEW r \in Requests, NEW s \in Submissions, Submit(r, s)
    PROVE  ChatInv'
<1> DEFINE j == job[r]
           decision == DecidePolicy(service.policies, s.grade, s.zone, s.text)
           prompt == EffectivePrompt(s.text, decision.action)
           at == IF s.kind = "simulate" THEN "answered" ELSE "request_received"
           status == IF s.kind = "simulate" THEN 200 ELSE 0
           k == [j EXCEPT !.kind = s.kind, !.text = s.text, !.grade = s.grade,
                          !.zone = s.zone, !.document = service.document,
                          !.decision = decision, !.prompt = prompt, !.at = at,
                          !.status = status]
<1>1. /\ j \in Jobs /\ events[r] \in Seq(Events) /\ call[r] \in Calls
      /\ approval[r] \in Approvals
      /\ Request(j, events[r], call[r], approval[r])
  BY OfRequest
<1>2. j.at = "new" /\ job' = [job EXCEPT ![r] = k]
  BY DEF Submit
<1>3. /\ service.document \in Documents /\ Loadable(service.document)
      /\ service.policies = LoadPolicySet(service.document)
  BY DEF Submit, ChatInv, ServiceInv, TypeOK
<1>4. /\ s.kind \in Endpoint /\ s.text \in Text /\ s.grade \in DataGrades
      /\ s.zone \in ModelZones
  BY ChatAssumption DEF ChatAssumption
<1>5. decision \in Decisions
  BY <1>3, DecisionFollows
<1>6. prompt \in Text
  BY <1>4, TextAssumption DEF TextAssumption, EffectivePrompt
<1>7. at \in Steps /\ status \in Statuses
  BY DEF Steps, EventTypes, Statuses
<1>8. /\ at \in {"answered", "request_received"}
      /\ at = "answered" <=> s.kind = "simulate"
  OBVIOUS
<1> HIDE DEF j, decision, prompt, at, status
<1>9. /\ k.kind = s.kind /\ k.text = s.text /\ k.grade = s.grade /\ k.zone = s.zone
      /\ k.document = service.document /\ k.decision = decision /\ k.prompt = prompt
      /\ k.at = at /\ k.reply = j.reply /\ k.choices = j.choices
      /\ k.aggregate = j.aggregate
  BY <1>1 DEF Jobs
<1>10. k \in Jobs
  BY <1>1, <1>3, <1>4, <1>5, <1>6, <1>7 DEF Jobs
<1> HIDE DEF k
<1>11. /\ Len(events[r]) = 0 /\ call[r] = NoCall /\ j.choices = <<>>
       /\ Guarded(j)
  BY <1>1, <1>2 DEF Request, Evidence, Position, Called, Guarded
<1>12. Request(k, events[r], call[r], approval[r])
  <2>1. Decided(k)
    BY <1>3, <1>4, <1>9 DEF Decided, decision, prompt
  <2>2. Evidence(k, events[r])
    <3>1. Position(k, 0)
      BY <1>8, <1>9 DEF Position
    <3>2. Len(ExpectedTypes(k)) \in {5, 6}
      BY DEF ExpectedTypes
    <3>3. DOMAIN events[r] = {}
      BY <1>1, <1>11
    <3> QED
      BY <1>11, <3>1, <3>2, <3>3 DEF Evidence
  <2>3. Called(k, events[r], call[r])
    BY <1>8, <1>9, <1>11 DEF Called
  <2>4. Guarded(k)
    BY <1>8, <1>9, <1>11 DEF Guarded
  <2>5. Stored(k, approval[r])
    BY <1>8, <1>9 DEF Stored
  <2> QED
    BY <2>1, <2>2, <2>3, <2>4, <2>5 DEF Request
<1>13. StepOf(r, k, events[r], call[r], approval[r])
  BY <1>2, OfRequest DEF Submit, StepOf
<1> QED
  BY <1>1, <1>10, <1>12, <1>13, OneRequest

LEMMA NextChat == ASSUME ChatInv, [Next]_vars PROVE ChatInv'
<1>1. CASE Start
  BY <1>1, StartChat
<1>2. CASE Restart
  BY <1>2, RestartChat
<1>3. ASSUME NEW r \in Requests, NEW s \in Submissions, Submit(r, s) PROVE ChatInv'
  BY <1>3, SubmitChat
<1>4. ASSUME NEW r \in Requests, RecordEvaluation(r) PROVE ChatInv'
  BY <1>4, RecordEvaluationChat
<1>5. ASSUME NEW r \in Requests, AppendRaises(r) PROVE ChatInv'
  BY <1>5, AppendRaisesChat
<1>6. ASSUME NEW r \in Requests, CreateApproval(r) PROVE ChatInv'
  BY <1>6, CreateApprovalChat
<1>7. ASSUME NEW r \in Requests, Resolve(r) PROVE ChatInv'
  BY <1>7, ResolveChat
<1>8. ASSUME NEW r \in Requests, AttachContext(r) PROVE ChatInv'
  BY <1>8, AttachContextChat
<1>9. ASSUME NEW r \in Requests, SendToProvider(r) PROVE ChatInv'
  BY <1>9, SendToProviderChat
<1>10. ASSUME NEW r \in Requests, NEW reply \in Replies, ProviderReturns(r, reply)
       PROVE  ChatInv'
  BY <1>10, ProviderReturnsChat
<1>11. ASSUME NEW r \in Requests, NEW failure \in Failures, ProviderFails(r, failure)
       PROVE  ChatInv'
  BY <1>11, ProviderFailsChat
<1>12. ASSUME NEW r \in Requests, GuardChoice(r) PROVE ChatInv'
  BY <1>12, GuardChoiceChat
<1>13. ASSUME NEW r \in Requests, RecordResponse(r) PROVE ChatInv'
  BY <1>13, RecordResponseChat
<1>14. CASE UNCHANGED vars
  BY <1>14 DEF vars, ChatInv, TypeOK, ServiceInv
<1> QED
  BY <1>1, <1>2, <1>3, <1>4, <1>5, <1>6, <1>7, <1>8, <1>9, <1>10, <1>11, <1>12, <1>13,
     <1>14 DEF Next

\* The invariant holds in every reachable state.
LEMMA ChatInvariant == Spec => []ChatInv
<1>1. ChatInv /\ [Next]_vars => ChatInv'
  BY NextChat
<1> QED
  BY InitChat, <1>1, PTL DEF Spec

----------------------------------------------------------------------------
(* The theorems.                                                           *)

\* Every variable is well typed in every reachable state.
THEOREM ChatTypeCorrect == Spec => []TypeOK
<1>1. ChatInv => TypeOK
  BY DEF ChatInv
<1> QED
  BY ChatInvariant, <1>1, PTL

\* The events of a chat request that no decision held.
LEMMA UnheldTypes ==
    ASSUME NEW j, j.kind = "chat", j.decision.action \notin HoldingActions
    PROVE  /\ Len(ExpectedTypes(j)) = 6
           /\ ExpectedTypes(j)[1] = "request_received"
           /\ ExpectedTypes(j)[2] = "request_analyzed"
           /\ ExpectedTypes(j)[3] = "policy_decided"
           /\ ExpectedTypes(j)[4] = "model_routed"
           /\ ExpectedTypes(j)[5] = "request_finalized"
           /\ ExpectedTypes(j)[6] = "response_analyzed"
BY DEF ExpectedTypes, HoldingActions

\* No provider is sent a request without the evidence of it.
THEOREM CallIsRecordedCorrect == Spec => []CallIsRecorded
<1>1. ASSUME ChatInv, NEW r \in Requests, call[r] # NoCall
      PROVE  /\ Len(events[r]) >= 5
             /\ events[r][1].type = "request_received"
             /\ events[r][2].type = "request_analyzed"
             /\ events[r][3].type = "policy_decided"
             /\ events[r][4].type = "model_routed"
             /\ events[r][5].type = "request_finalized"
             /\ events[r][3].action \notin HoldingActions
             /\ events[r][4].route = [zone |-> call[r].zone, model |-> call[r].model]
             /\ events[r][4].changed <=> call[r].prompt # job[r].text
  <2> DEFINE j == job[r]
             es == events[r]
             c == call[r]
  <2>1. j \in Jobs /\ es \in Seq(Events) /\ Evidence(j, es) /\ Called(j, es, c)
    BY <1>1, OfRequest DEF Request
  <2> HIDE DEF j, es, c
  <2>2. /\ j.kind = "chat" /\ j.decision.action \notin HoldingActions
        /\ Len(es) >= 5 /\ c.prompt = j.prompt
        /\ c.zone = ChooseRoute(j.decision).zone
        /\ c.model = ChooseRoute(j.decision).model
    BY <1>1, <2>1 DEF Called, c
  <2>3. 1..5 \subseteq DOMAIN es
    BY <2>1, <2>2
  <2>4. /\ es[1].type = "request_received" /\ es[2].type = "request_analyzed"
        /\ es[3].type = "policy_decided" /\ es[4].type = "model_routed"
        /\ es[5].type = "request_finalized"
    <3>1. \A n \in 1..5 : es[n].type = ExpectedTypes(j)[n]
      BY <2>1, <2>3 DEF Evidence
    <3> QED
      BY <2>2, <3>1, UnheldTypes
  <2>5. /\ es[3] = EvaluationEvent(j, "policy_decided")
        /\ es[4] = EvaluationEvent(j, "model_routed")
    BY <2>1, <2>3, <2>4 DEF Evidence
  <2>6. es[3].action \notin HoldingActions
    BY <2>2, <2>5 DEF EvaluationEvent, Event
  <2>7. es[4].route = ChooseRoute(j.decision) /\ (es[4].changed <=> j.prompt # j.text)
    <3>1. es[4].route = ChooseRoute(j.decision)
      BY <2>5 DEF EvaluationEvent, Event
    <3>2. ASSUME j.prompt # j.text PROVE es[4].changed
      <4>1. EvaluationEvent(j, "model_routed").changed
        BY <3>2 DEF EvaluationEvent, Event
      <4> QED
        BY <2>5, <4>1, Zenon
    <3>3. ASSUME j.prompt = j.text PROVE ~es[4].changed
      <4>1. ~EvaluationEvent(j, "model_routed").changed
        BY <3>3 DEF EvaluationEvent, Event
      <4> QED
        BY <2>5, <4>1, Zenon
    <3> QED
      BY <3>1, <3>2, <3>3, Zenon
  <2>8. ChooseRoute(j.decision) = [zone |-> c.zone, model |-> c.model]
    <3>1. ChooseRoute(j.decision) \in Routes
      BY <2>1, <2>2, RouteTyped DEF Jobs
    <3> QED
      BY <2>2, <3>1 DEF Routes
  <2> QED
    BY <2>2, <2>4, <2>6, <2>7, <2>8 DEF j, es, c
<1>2. ChatInv => CallIsRecorded
  BY <1>1 DEF CallIsRecorded
<1> QED
  BY ChatInvariant, <1>2, PTL

\* Every decision is that of the first matching rule by priority and position.
THEOREM DecisionsFollowDocumentCorrect == Spec => []DecisionsFollowDocument
<1>1. ASSUME ChatInv, NEW r \in Requests, job[r].at # "new"
      PROVE  /\ Loadable(job[r].document)
             /\ Follows(job[r].document, job[r].grade, job[r].zone, job[r].text,
                        job[r].decision)
             /\ \A n \in DOMAIN events[r] :
                    events[r][n].type \in {"policy_decided", "model_routed"} =>
                        /\ events[r][n].action = job[r].decision.action
                        /\ events[r][n].policy = job[r].decision.policy
  <2> DEFINE j == job[r]
             es == events[r]
  <2>1. Decided(j) /\ Evidence(j, es)
    BY <1>1, OfRequest DEF Request
  <2>2. /\ j.document \in Documents /\ Loadable(j.document)
        /\ j.decision = DecidePolicy(LoadPolicySet(j.document), j.grade, j.zone, j.text)
    BY <1>1, <2>1 DEF Decided
  <2> HIDE DEF j, es
  <2>3. Follows(j.document, j.grade, j.zone, j.text, j.decision)
    BY <2>2, DecisionFollows
  <2>4. ASSUME NEW n \in DOMAIN es, es[n].type \in {"policy_decided", "model_routed"}
        PROVE  es[n].action = j.decision.action /\ es[n].policy = j.decision.policy
    <3>1. es[n] = EvaluationEvent(j, es[n].type)
      BY <2>1, <2>4 DEF Evidence
    <3> QED
      BY <2>4, <3>1 DEF EvaluationEvent, Event
  <2> QED
    BY <2>2, <2>3, <2>4 DEF j, es
<1>2. ChatInv => DecisionsFollowDocument
  BY <1>1 DEF DecisionsFollowDocument, Follows
<1> QED
  BY ChatInvariant, <1>2, PTL

\* What is recorded of a request is a prefix of what its endpoint and decision call
\* for, and all of it if the client got an answer.
THEOREM AnswersAreRecordedCorrect == Spec => []AnswersAreRecorded
<1>1. ASSUME ChatInv, NEW r \in Requests
      PROVE  IF job[r].kind = "simulate" THEN events[r] = <<>>
             ELSE /\ Len(events[r]) <= Len(ExpectedTypes(job[r]))
                  /\ \A n \in DOMAIN events[r] :
                         events[r][n].type = ExpectedTypes(job[r])[n]
                  /\ job[r].at = "answered" =>
                         Len(events[r]) = Len(ExpectedTypes(job[r]))
  <2> DEFINE j == job[r]
             es == events[r]
  <2>1. es \in Seq(Events) /\ Evidence(j, es)
    BY <1>1, OfRequest DEF Request
  <2> HIDE DEF j, es
  <2>2. CASE j.kind = "simulate"
    <3>1. Len(es) = 0
      BY <2>1, <2>2 DEF Evidence, Position
    <3>2. es = <<>>
      BY <2>1, <3>1
    <3> QED
      BY <2>2, <3>2 DEF j, es
  <2>3. CASE j.kind # "simulate"
    BY <2>1, <2>3 DEF Evidence, Position, j, es
  <2> QED
    BY <2>2, <2>3
<1>2. ChatInv => AnswersAreRecorded
  BY <1>1 DEF AnswersAreRecorded
<1> QED
  BY ChatInvariant, <1>2, PTL

\* What a client receives is choice by choice what the guard made of the response.
THEOREM DeliveredIsGuardedCorrect == Spec => []DeliveredIsGuarded
<1>1. ASSUME ChatInv, NEW r \in Requests, job[r].at = "answered", call[r] # NoCall
      PROVE  /\ Len(job[r].choices) = Len(job[r].reply)
             /\ \A i \in DOMAIN job[r].choices :
                    /\ RequiresBlock(job[r].reply[i]) =>
                           job[r].choices[i] = SafeBlockedResponse
                    /\ Detected[job[r].reply[i]].pii > 0 =>
                           job[r].choices[i] # job[r].reply[i]
             /\ events[r][Len(events[r])].type = "response_analyzed"
  <2> DEFINE j == job[r]
             es == events[r]
  <2>1. /\ j \in Jobs /\ es \in Seq(Events) /\ Evidence(j, es) /\ Guarded(j)
        /\ j.kind = "chat" /\ j.decision.action \notin HoldingActions
    BY <1>1, OfRequest DEF Request, Called
  <2>2. j.at = "answered"
    BY <1>1
  <2> HIDE DEF j, es
  <2>3. Len(es) = 6
    BY <2>1, <2>2, UnheldTypes DEF Evidence, Position
  <2>4. es[6].type = "response_analyzed" /\ Len(j.choices) = Len(j.reply)
    <3>1. 6 \in DOMAIN es
      BY <2>1, <2>3
    <3> QED
      BY <2>1, <3>1, UnheldTypes DEF Evidence
  <2>5. ASSUME NEW i \in DOMAIN j.choices
        PROVE  /\ RequiresBlock(j.reply[i]) => j.choices[i] = SafeBlockedResponse
               /\ Detected[j.reply[i]].pii > 0 => j.choices[i] # j.reply[i]
    <3>1. j.reply[i] \in Text /\ j.choices[i] = GuardResponseText(j.reply[i]).content
      <4>1. i \in DOMAIN j.reply /\ j.reply \in Seq(Text)
        BY <2>1 DEF Guarded, Jobs
      <4> QED
        BY <2>1, <4>1 DEF Guarded
    <3>2. CASE RequiresBlock(j.reply[i])
      <4>1. j.choices[i] = SafeBlockedResponse
        BY <3>1, <3>2 DEF GuardResponseText, Blocked
      <4>2. Detected[SafeBlockedResponse].pii = 0
        BY TextAssumption DEF TextAssumption
      <4> QED
        BY <4>1, <4>2
    <3>3. CASE ~RequiresBlock(j.reply[i])
      BY <3>1, <3>3, TextAssumption DEF GuardResponseText, Allowed, TextAssumption
    <3> QED
      BY <3>2, <3>3
  <2> QED
    BY <2>3, <2>4, <2>5 DEF j, es
<1>2. ChatInv => DeliveredIsGuarded
  BY <1>1 DEF DeliveredIsGuarded
<1> QED
  BY ChatInvariant, <1>2, PTL

\* The recorded action is the strictest of the choices', in whatever order they come.
THEOREM StrictestActionIsRecordedCorrect == Spec => []StrictestActionIsRecorded
<1>1. ASSUME ChatInv, NEW r \in Requests, NEW n \in DOMAIN events[r],
             events[r][n].type = "response_analyzed"
      PROVE  LET actions == {GuardResponseText(job[r].reply[i]).action :
                                 i \in DOMAIN job[r].reply}
             IN events[r][n].action = IF "block" \in actions THEN "block"
                                      ELSE IF "mask" \in actions THEN "mask" ELSE "allow"
  <2> DEFINE j == job[r]
             actions == {GuardResponseText(j.reply[i]).action : i \in DOMAIN j.reply}
  <2>1. /\ j \in Jobs /\ Guarded(j) /\ Len(j.choices) = Len(j.reply)
        /\ events[r][n] = ResponseEvent(j)
    BY <1>1, OfRequest DEF Request, Evidence
  <2>2. events[r][n].action = j.aggregate
    BY <2>1 DEF ResponseEvent, Event
  <2> HIDE DEF j
  <2>3. /\ j.reply \in Seq(Text) /\ j.choices \in Seq(Text)
        /\ j.aggregate \in {"allow", "mask", "block"}
    BY <2>1 DEF Jobs
  <2>4. DOMAIN j.choices = DOMAIN j.reply
    BY <2>1, <2>3
  <2>5. j.aggregate = "block" <=> "block" \in actions
    BY <2>1, <2>4 DEF Guarded
  <2>6. j.aggregate = "allow" <=> \A a \in actions : a = "allow"
    BY <2>1, <2>4 DEF Guarded
  <2>7. actions \subseteq {"allow", "mask", "block"}
    BY <2>3, GuardTyped
  <2> HIDE DEF actions
  <2>8. j.aggregate = IF "block" \in actions THEN "block"
                      ELSE IF "mask" \in actions THEN "mask" ELSE "allow"
    BY <2>3, <2>5, <2>6, <2>7
  <2> QED
    BY <2>2, <2>8 DEF actions, j
<1>2. ChatInv => StrictestActionIsRecorded
  BY <1>1 DEF StrictestActionIsRecorded
<1> QED
  BY ChatInvariant, <1>2, PTL

\* A held chat request is stored as it came, in the zone the client named.
THEOREM HeldChatIsStoredCorrect == Spec => []HeldChatIsStored
<1>1. ASSUME ChatInv, NEW r \in Requests
      PROVE  Stored(job[r], approval[r])
  BY <1>1, OfRequest DEF Request
<1>2. ChatInv => HeldChatIsStored
  BY <1>1 DEF HeldChatIsStored, Stored, Held
<1> QED
  BY ChatInvariant, <1>2, PTL

----------------------------------------------------------------------------
(* The built-in rules.                                                     *)

\* When each of the built-in rules matches a request for the external zone.
LEMMA DefaultMatches ==
    ASSUME NEW grade, NEW text
    PROVE  LET matching == MatchingRules(DefaultRules, grade, "external", text)
           IN /\ "prompt_injection" \in FindingKinds(text) => 1 \in matching
              /\ grade = "restricted" => 3 \in matching
              /\ "data_exfiltration" \in FindingKinds(text) => 4 \in matching
              /\ "document_risk" \in FindingKinds(text) /\ RiskScore(text) >= 14
                     => 5 \in matching
              /\ "korean_pii" \in FindingKinds(text) => 6 \in matching
              /\ grade = "confidential" => 7 \in matching
              /\ 9 \in matching
<1>1. DOMAIN DefaultRules = 1..9
  BY DEF DefaultRules
<1>2. /\ DefaultRules[1].when = [finding_kinds_any |-> {"prompt_injection"}]
      /\ DefaultRules[3].when = [data_grade |-> "restricted", model_zone |-> "external"]
      /\ DefaultRules[4].when = [finding_kinds_any |-> {"data_exfiltration"},
                                 model_zone |-> "external"]
      /\ DefaultRules[5].when = [finding_kinds_any |-> {"document_risk"},
                                 model_zone |-> "external", min_risk_score |-> 14]
      /\ DefaultRules[6].when = [finding_kinds_any |-> {"korean_pii"},
                                 model_zone |-> "external"]
      /\ DefaultRules[7].when = [data_grade |-> "confidential", model_zone |-> "external"]
      /\ DefaultRules[9].when = <<>>
  BY DEF DefaultRules, Rule
<1> DEFINE M(i) == Matches(DefaultRules[i], grade, "external", text)
<1>3. "prompt_injection" \in FindingKinds(text) => M(1)
  BY <1>2 DEF Matches, MatchesCondition
<1>4. grade = "restricted" => M(3)
  BY <1>2 DEF Matches, MatchesCondition
<1>5. "data_exfiltration" \in FindingKinds(text) => M(4)
  BY <1>2 DEF Matches, MatchesCondition
<1>6. "document_risk" \in FindingKinds(text) /\ RiskScore(text) >= 14 => M(5)
  BY <1>2 DEF Matches, MatchesCondition
<1>7. "korean_pii" \in FindingKinds(text) => M(6)
  BY <1>2 DEF Matches, MatchesCondition
<1>8. grade = "confidential" => M(7)
  BY <1>2 DEF Matches, MatchesCondition
<1>9. M(9)
  <2>1. DOMAIN <<>> = {}
    OBVIOUS
  <2> QED
    BY <1>2, <2>1 DEF Matches
<1> HIDE DEF M
<1> QED
  BY <1>1, <1>3, <1>4, <1>5, <1>6, <1>7, <1>8, <1>9 DEF MatchingRules, M

\* The rule that decides such a request comes no later than any that matches.
LEMMA DefaultDecision ==
    ASSUME NEW grade, NEW text, NEW decision,
           Follows(MissingDocument, grade, "external", text, decision)
    PROVE  \E i \in 1..9 :
               /\ decision = DecisionOf(DefaultRules[i])
               /\ \A k \in MatchingRules(DefaultRules, grade, "external", text) :
                      DefaultRules[i].priority <= DefaultRules[k].priority
<1> DEFINE matching == MatchingRules(DefaultRules, grade, "external", text)
<1>1. RulesOf(MissingDocument) = DefaultRules
  BY DEF RulesOf, MissingDocument
<1>2. matching \subseteq 1..9
  <2>1. DOMAIN DefaultRules = 1..9
    BY DEF DefaultRules
  <2> QED
    BY <2>1 DEF MatchingRules
<1>3. 9 \in matching
  BY DefaultMatches
<1> HIDE DEF matching
<1>4. PICK i \in matching :
          /\ decision = DecisionOf(DefaultRules[i])
          /\ \A k \in matching \ {i} : Before(DefaultRules, i, k)
  BY <1>1, <1>3 DEF Follows, matching
<1>5. \A k \in 1..9 : DefaultRules[k].priority \in Int
  BY DEF DefaultRules, Rule
<1>6. \A k \in matching : DefaultRules[i].priority <= DefaultRules[k].priority
  BY <1>2, <1>4, <1>5 DEF Before
<1> QED
  BY <1>2, <1>4, <1>6 DEF matching

\* What the external provider may be sent under the built-in rules.
THEOREM ExternalIsProtectedCorrect == Spec => []ExternalIsProtected
<1>1. ASSUME ChatInv, NEW r \in Requests, call[r].zone = "external",
             job[r].zone = "external", job[r].document = MissingDocument
      PROVE  /\ job[r].grade \in {"public", "internal"}
             /\ FindingKinds(job[r].text) \subseteq {"korean_pii", "document_risk"}
             /\ "document_risk" \in FindingKinds(job[r].text) =>
                    RiskScore(job[r].text) < 14
             /\ "korean_pii" \in FindingKinds(job[r].text) =>
                    call[r].prompt = Masked[job[r].text]
  <2> DEFINE j == job[r]
             c == call[r]
             kinds == FindingKinds(j.text)
             matching == MatchingRules(DefaultRules, j.grade, "external", j.text)
  <2>1. j \in Jobs /\ Decided(j) /\ Called(j, events[r], c)
    BY <1>1, OfRequest DEF Request
  <2>2. c # NoCall
    BY <1>1 DEF NoCall, NoZone
  <2>3. /\ j.at # "new" /\ j.decision.action \notin HoldingActions
        /\ ChooseRoute(j.decision).zone = "external" /\ c.prompt = j.prompt
    BY <1>1, <2>1, <2>2 DEF Called
  <2>4. /\ j.grade \in DataGrades /\ j.document \in Documents /\ Loadable(j.document)
        /\ j.decision = DecidePolicy(LoadPolicySet(j.document), j.grade, j.zone, j.text)
        /\ j.prompt = EffectivePrompt(j.text, j.decision.action)
    BY <2>1, <2>3 DEF Decided
  <2>5. j.zone = "external" /\ j.document = MissingDocument
    BY <1>1
  <2> HIDE DEF j, c
  <2>6. Follows(MissingDocument, j.grade, "external", j.text, j.decision)
    BY <2>4, <2>5, DecisionFollows
  <2>7. PICK i \in 1..9 :
            /\ j.decision = DecisionOf(DefaultRules[i])
            /\ \A k \in matching : DefaultRules[i].priority <= DefaultRules[k].priority
    BY <2>6, DefaultDecision
  <2>8. i \in {6, 8, 9}
    <3>1. DefaultRules[i].action \notin HoldingActions
      BY <2>3, <2>7 DEF DecisionOf
    <3>2. i # 7
      <4>1. ASSUME i = 7 PROVE ChooseRoute(j.decision).zone = "private"
        <5>1. j.decision.action = "route_private" /\ j.decision.zone = "private"
          BY <2>7, <4>1 DEF DecisionOf, DefaultRules, Rule
        <5> QED
          BY <5>1 DEF ChooseRoute, ChooseApprovedRoute, HoldingActions, NoZone
      <4> QED
        BY <2>3, <4>1
    <3> QED
      BY <3>1, <3>2 DEF DefaultRules, Rule, HoldingActions
  <2> HIDE DEF matching
  <2>9. /\ DefaultRules[1].priority = 10 /\ DefaultRules[3].priority = 20
        /\ DefaultRules[4].priority = 30 /\ DefaultRules[5].priority = 35
        /\ DefaultRules[6].priority = 40 /\ DefaultRules[7].priority = 38
        /\ DefaultRules[8].priority = 60 /\ DefaultRules[9].priority = 1000
    BY DEF DefaultRules, Rule
  <2>10. /\ 1 \notin matching /\ 3 \notin matching /\ 4 \notin matching
         /\ 5 \notin matching /\ 7 \notin matching
         /\ 6 \in matching => i = 6
    BY <2>7, <2>8, <2>9
  <2>11. /\ "prompt_injection" \in kinds => 1 \in matching
         /\ j.grade = "restricted" => 3 \in matching
         /\ "data_exfiltration" \in kinds => 4 \in matching
         /\ "document_risk" \in kinds /\ RiskScore(j.text) >= 14 => 5 \in matching
         /\ "korean_pii" \in kinds => 6 \in matching
         /\ j.grade = "confidential" => 7 \in matching
    BY DefaultMatches DEF matching
  <2>12. j.grade \in {"public", "internal"}
    BY <2>4, <2>10, <2>11 DEF DataGrades
  <2>13. kinds \subseteq {"korean_pii", "document_risk"}
    BY <2>10, <2>11 DEF FindingKinds, RiskKinds
  <2>14. "document_risk" \in kinds => RiskScore(j.text) < 14
    <3>1. RiskScore(j.text) \in Int
      <4>1. Detected[j.text] \in Detections
        BY <2>1, TextAssumption DEF TextAssumption, Jobs
      <4> QED
        BY <4>1 DEF RiskScore, Capped, Detections
    <3> HIDE DEF kinds
    <3> QED
      BY <2>10, <2>11, <3>1
  <2>15. "korean_pii" \in kinds => c.prompt = Masked[j.text]
    <3>1. ASSUME i = 6 PROVE j.decision.action = "mask"
      BY <2>7, <3>1 DEF DecisionOf, DefaultRules, Rule
    <3> QED
      BY <2>3, <2>4, <2>10, <2>11, <3>1 DEF EffectivePrompt
  <2> QED
    BY <2>12, <2>13, <2>14, <2>15 DEF j, c
<1>2. ChatInv => ExternalIsProtected
  BY <1>1 DEF ExternalIsProtected
<1> QED
  BY ChatInvariant, <1>2, PTL

----------------------------------------------------------------------------
(* Which requests the rules for the external zone miss.                    *)

\* The zone of a job is one that a client named.
ZonesAreNamed ==
    \A r \in Requests : job[r].at = "new" \/ \E s \in Submissions : job[r].zone = s.zone

LEMMA ZonesStayNamed ==
    ASSUME ChatInv, ZonesAreNamed, [Next]_vars
    PROVE  ZonesAreNamed'
<1>1. \A r \in Requests : job[r] \in Jobs
  BY DEF ChatInv, TypeOK
<1>2. job \in [Requests -> Jobs]
  BY DEF ChatInv, TypeOK
<1>3. CASE Start \/ UNCHANGED vars \/ \E r \in Requests : Resolve(r)
  BY <1>3 DEF ZonesAreNamed, Start, Resolve, vars
<1>4. CASE Restart
  BY <1>1, <1>4 DEF ZonesAreNamed, Restart, Jobs
<1>5. ASSUME NEW r \in Requests, \A q \in Requests \ {r} : job'[q] = job[q],
             \E s \in Submissions : job'[r].zone = s.zone
      PROVE  ZonesAreNamed'
  BY <1>5 DEF ZonesAreNamed
<1>6. ASSUME NEW r \in Requests, NEW s \in Submissions, Submit(r, s)
      PROVE  ZonesAreNamed'
  <2>1. job'[r].zone = s.zone /\ \A q \in Requests \ {r} : job'[q] = job[q]
    BY <1>1, <1>2, <1>6 DEF Submit, Jobs
  <2> QED  BY <1>5, <2>1
<1>7. ASSUME NEW r \in Requests,
             \/ RecordEvaluation(r) \/ AppendRaises(r) \/ CreateApproval(r)
             \/ AttachContext(r) \/ SendToProvider(r) \/ GuardChoice(r) \/ RecordResponse(r)
             \/ \E reply \in Replies : ProviderReturns(r, reply)
             \/ \E failure \in Failures : ProviderFails(r, failure)
      PROVE  ZonesAreNamed'
  <2>1. job[r].at # "new"
    BY <1>7 DEF RecordEvaluation, AppendRaises, CreateApproval, AttachContext, SendToProvider,
                GuardChoice, RecordResponse, ProviderReturns, ProviderFails, EvaluationSteps,
                EventTypes
  <2> DEFINE Kept == job'[r].zone = job[r].zone /\ \A q \in Requests \ {r} : job'[q] = job[q]
  <2>2. Kept
    <3>1. ASSUME NEW at, GoTo(r, at) PROVE Kept
      BY <1>1, <1>2, <3>1 DEF GoTo, Jobs
    <3>2. ASSUME NEW status, Fail(r, status) PROVE Kept
      BY <1>1, <1>2, <3>2 DEF Fail, Jobs
    <3>3. ASSUME Answer(r) PROVE Kept
      BY <1>1, <1>2, <3>3 DEF Answer, Jobs
    <3>4. CASE SendToProvider(r)
      BY <1>1, <1>2, <3>4 DEF SendToProvider, Jobs
    <3>5. CASE GuardChoice(r)
      BY <1>1, <1>2, <3>5 DEF GuardChoice, Jobs
    <3>6. CASE \E reply \in Replies : ProviderReturns(r, reply)
      BY <1>1, <1>2, <3>6 DEF ProviderReturns, Jobs
    <3> HIDE DEF Kept
    <3>7. CASE RecordEvaluation(r)
      BY <3>1, <3>3, <3>7 DEF RecordEvaluation
    <3>8. CASE AttachContext(r)
      BY <3>2, <3>3, <3>8 DEF AttachContext
    <3>9. CASE AppendRaises(r) \/ CreateApproval(r) \/ RecordResponse(r)
      BY <3>1, <3>2, <3>3, <3>9 DEF AppendRaises, CreateApproval, RecordResponse
    <3>10. CASE \E failure \in Failures : ProviderFails(r, failure)
      BY <3>2, <3>10 DEF ProviderFails
    <3> QED  BY <1>7, <3>4, <3>5, <3>6, <3>7, <3>8, <3>9, <3>10
  <2> QED  BY <1>5, <2>1, <2>2 DEF ZonesAreNamed
<1> QED  BY <1>3, <1>4, <1>6, <1>7 DEF Next

\* "Restricted data must not be sent to external model zones without approval"
\* (docs/threat-model.md:28) is true of the code if every client names the external
\* zone: the requests that name another one, which choose_route takes no notice of,
\* are the only ones that the rule for restricted data misses.
THEOREM RestrictedNeedsApprovalIfNamed ==
    ASSUME \A s \in Submissions : s.zone = "external"
    PROVE  Spec => []RestrictedNeedsApproval
<1>1. Init => ZonesAreNamed
  BY DEF Init, ZonesAreNamed, NewJob
<1>2. ChatInv /\ ZonesAreNamed /\ ExternalIsProtected => RestrictedNeedsApproval
  <2> SUFFICES ASSUME ChatInv, ZonesAreNamed, ExternalIsProtected, NEW r \in Requests,
                      job[r].grade = "restricted", job[r].document = MissingDocument,
                      call[r].zone = "external"
               PROVE  FALSE
    BY DEF RestrictedNeedsApproval
  <2>1. Called(job[r], events[r], call[r])
    BY OfRequest DEF Request
  <2>2. call[r] # NoCall
    BY DEF NoCall, NoZone
  <2>3. job[r].at # "new"
    BY <2>1, <2>2 DEF Called
  <2>4. job[r].zone = "external"
    BY <2>3 DEF ZonesAreNamed
  <2> QED  BY <2>4 DEF ExternalIsProtected
<1> QED
  BY <1>1, <1>2, ChatInvariant, ExternalIsProtectedCorrect, ZonesStayNamed, PTL DEF Spec
=============================================================================
