----------------------------- MODULE PolicyEngine -----------------------------
(***************************************************************************)
(* The pure part of the request path: what the detectors report of a text  *)
(* (src/kai_security/detectors), the combination of their results          *)
(* (gateway/service.py), loading and ordering of a policy document         *)
(* (policy/dsl.py), the decision (policy/engine.py), the route             *)
(* (model_router.py) and the response guard (response_guard.py).           *)
(*                                                                         *)
(* A text is a value without structure: what the detectors find in it and  *)
(* which text masking makes of it are constants, since both are up to      *)
(* regular expressions.  Masking may make anything of a text with PII:     *)
(* a token changes what stands next to the rest, and patterns that did not *)
(* match may match then.  Risk scores are in units of 0.05, so that every  *)
(* weight and threshold of the code is an integer; no sum the detectors    *)
(* can produce lies so close to a threshold that floating point would      *)
(* compare it differently.                                                 *)
(***************************************************************************)
EXTENDS Orders, Sequences, TLC

DataGrades == {"public", "internal", "confidential", "restricted"}

ModelZones == {"external", "domestic_saas", "private", "on_prem"}

PolicyActions == {"allow", "mask", "route_private", "require_approval", "block",
                  "log_only"}

RiskKinds == {"korean_pii", "prompt_injection", "data_exfiltration", "document_risk"}

NoZone == "none"

----------------------------------------------------------------------------
(* Detection.                                                              *)

\* The findings of the three detectors by kind, document risks by severity;
\* secret: _SECRET_VALUE_PATTERNS of the response guard match.
Detections == [pii : Nat, injection : Nat, exfiltration : Nat, docHigh : Nat,
               docMedium : Nat, secret : BOOLEAN]

CONSTANTS
    Text,                   \* prompts and contents of responses
    Detected,               \* text -> what is found in it
    Masked,                 \* text -> masked_text of detect_korean_pii
    SafeBlockedResponse     \* what a client gets for a blocked response

ASSUME TextAssumption ==
    /\ Detected \in [Text -> Detections]
    /\ Masked \in [Text -> Text]
    /\ \A t \in Text : Masked[t] # t <=> Detected[t].pii > 0
    /\ SafeBlockedResponse \in Text
    /\ Detected[SafeBlockedResponse] = [pii |-> 0, injection |-> 0, exfiltration |-> 0,
                                       docHigh |-> 0, docMedium |-> 0, secret |-> FALSE]

\* min(1.0, score)
Capped(score) == IF score > 20 THEN 20 ELSE score

FindingCount(text) ==
    LET d == Detected[text]
    IN d.pii + d.injection + d.exfiltration + d.docHigh + d.docMedium

FindingKinds(text) ==
    LET d == Detected[text]
    IN {kind \in RiskKinds :
           \/ kind = "korean_pii" /\ d.pii > 0
           \/ kind = "prompt_injection" /\ d.injection > 0
           \/ kind = "data_exfiltration" /\ d.exfiltration > 0
           \/ kind = "document_risk" /\ d.docHigh + d.docMedium > 0}

\* The sum of the three detectors' scores, each of them capped, then capped, in
\* twentieths: against the thresholds of the rules that come with the gateway
\* they compare as the floats of the code do, against others they need not.
RiskScore(text) ==
    LET d == Detected[text]
    IN Capped(Capped(4 * d.pii) + Capped(7 * (d.injection + d.exfiltration))
              + Capped(8 * d.docHigh + 4 * d.docMedium))

----------------------------------------------------------------------------
(* Policy documents.  A rule's `when` maps condition keys to values.       *)

Rule(id, priority, when, action, zone) ==
    [id |-> id, priority |-> priority, when |-> when, action |-> action, zone |-> zone]

DefaultRules == <<
    Rule("001", 10, [finding_kinds_any |-> {"prompt_injection"}], "block", NoZone),
    Rule("001b", 11, [min_risk_score |-> 17, finding_kinds_none |-> {"korean_pii"}],
         "block", NoZone),
    Rule("002", 20, [data_grade |-> "restricted", model_zone |-> "external"],
         "require_approval", NoZone),
    Rule("003", 30, [finding_kinds_any |-> {"data_exfiltration"},
                     model_zone |-> "external"], "require_approval", NoZone),
    Rule("003b", 35, [finding_kinds_any |-> {"document_risk"},
                      model_zone |-> "external", min_risk_score |-> 14],
         "require_approval", NoZone),
    Rule("004", 40, [finding_kinds_any |-> {"korean_pii"}, model_zone |-> "external"],
         "mask", NoZone),
    Rule("005", 38, [data_grade |-> "confidential", model_zone |-> "external"],
         "route_private", "private"),
    Rule("006", 60, [no_findings |-> TRUE], "allow", NoZone),
    Rule("007", 1000, <<>>, "allow", NoZone) >>

\* The file KAI_SECURITY_POLICY_PATH names, as the parser finds it.
MissingDocument == [kind |-> "missing", rules |-> <<>>]
MalformedDocument == [kind |-> "malformed", rules |-> <<>>]
Document(rules) == [kind |-> "rules", rules |-> rules]

ValidCondition(key, value) ==
    \/ key = "data_grade" /\ value \in DataGrades
    \/ key = "model_zone" /\ value \in ModelZones
    \/ key = "min_risk_score" /\ value \in Int
    \/ key = "no_findings" /\ value \in BOOLEAN
    \/ key \in {"finding_kinds_any", "finding_kinds_none"} /\ value \subseteq RiskKinds

\* A priority that is no integer, or a boolean, is written as a negative one.
ValidRule(rule) ==
    /\ rule.id # ""
    /\ rule.priority >= 0
    /\ rule.action \in PolicyActions
    /\ \A key \in DOMAIN rule.when : ValidCondition(key, rule.when[key])
    /\ rule.zone \in ModelZones \cup {NoZone}
    /\ rule.action = "route_private" => rule.zone # NoZone

\* Otherwise load_policy_set raises and the gateway does not start.
Loadable(document) ==
    /\ document.kind # "malformed"
    /\ document.kind = "rules" =>
           /\ document.rules # <<>>
           /\ \A i \in DOMAIN document.rules : ValidRule(document.rules[i])

RulesOf(document) == IF document.kind = "rules" THEN document.rules ELSE DefaultRules

Before(rules, i, j) ==
    \/ rules[i].priority < rules[j].priority
    \/ rules[i].priority = rules[j].priority /\ i < j

SortedIndices(rules) ==
    Ordered(DOMAIN rules, {p \in (DOMAIN rules) \X (DOMAIN rules) : Before(rules, p[1], p[2])})

\* Mutant: rules are kept in file order.
FileOrder(rules) == rules

\* Mutant: the sort is by priority, then by position from the end of the file.
OrderReversingTies(rules) ==
    LET Reversing(i, j) == \/ rules[i].priority < rules[j].priority
                           \/ rules[i].priority = rules[j].priority /\ i > j
        indices == Ordered(DOMAIN rules, {p \in (DOMAIN rules) \X (DOMAIN rules) :
                                             Reversing(p[1], p[2])})
    IN [k \in DOMAIN rules |-> rules[indices[k]]]

OrderPolicies(rules) == [k \in DOMAIN rules |-> rules[SortedIndices(rules)[k]]]

LoadPolicySet(document) == OrderPolicies(RulesOf(document))

----------------------------------------------------------------------------
(* The decision: the first rule of the ordered set whose conditions hold.  *)

MatchesCondition(key, expected, grade, zone, text) ==
    \/ key = "data_grade" /\ grade = expected
    \/ key = "model_zone" /\ zone = expected
    \/ key = "finding_kinds_any" /\ expected \cap FindingKinds(text) # {}
    \/ key = "finding_kinds_none" /\ expected \cap FindingKinds(text) = {}
    \/ key = "min_risk_score" /\ RiskScore(text) >= expected
    \/ key = "no_findings" /\ (FindingCount(text) > 0) = ~expected

Matches(rule, grade, zone, text) ==
    \A key \in DOMAIN rule.when :
        MatchesCondition(key, rule.when[key], grade, zone, text)

MatchingRules(rules, grade, zone, text) ==
    {i \in DOMAIN rules : Matches(rules[i], grade, zone, text)}

\* A PolicyDecision; the rest of it is for the reader of a log.
DefaultAllow == [action |-> "allow", policy |-> "default-allow", zone |-> NoZone]

DecisionOf(rule) == [action |-> rule.action, policy |-> rule.id, zone |-> rule.zone]

DecidePolicy(policies, grade, zone, text) ==
    LET matching == MatchingRules(policies, grade, zone, text)
    IN IF matching = {} THEN DefaultAllow
       ELSE DecisionOf(policies[CHOOSE i \in matching : \A j \in matching : i <= j])

----------------------------------------------------------------------------
(* What the decision means for the prompt and for the route.               *)

HoldingActions == {"block", "require_approval"}

EffectivePrompt(text, action) == IF action = "mask" THEN Masked[text] ELSE text

Routes == [zone : ModelZones, model : {"requested", "zone_default"}]

NoRoute == [zone |-> NoZone, model |-> "none"]

ChooseApprovedRoute(zone) ==
    [zone |-> zone, model |-> IF zone = "external" THEN "requested" ELSE "zone_default"]

ChooseRoute(decision) ==
    IF decision.action \in HoldingActions THEN NoRoute
    ELSE ChooseApprovedRoute(IF decision.zone = NoZone THEN "external" ELSE decision.zone)

----------------------------------------------------------------------------
(* The response guard.                                                     *)

RequiresBlock(text) ==
    \/ Detected[text].secret
    \/ /\ FindingKinds(text) \cap {"prompt_injection", "document_risk"} # {}
       /\ RiskScore(text) >= 14

Blocked == [action |-> "block", content |-> SafeBlockedResponse]

Allowed(text) ==
    IF Detected[text].pii > 0 /\ Masked[text] # text
    THEN [action |-> "mask", content |-> Masked[text]]
    ELSE [action |-> "allow", content |-> text]

\* Mutant: masking is tried before blocking.
GuardMaskFirst(text) ==
    IF Allowed(text).action = "allow" /\ RequiresBlock(text) THEN Blocked ELSE Allowed(text)

GuardResponseText(text) == IF RequiresBlock(text) THEN Blocked ELSE Allowed(text)

\* Mutant: the last choice that is not allowed decides.
AggregateLast(aggregate, action) == IF action = "allow" THEN aggregate ELSE action

\* The action over the choices seen so far and the next choice's action.
Aggregate(aggregate, action) ==
    CASE action = "block" -> "block"
      [] action = "mask" /\ aggregate # "block" -> "mask"
      [] OTHER -> aggregate
=============================================================================
