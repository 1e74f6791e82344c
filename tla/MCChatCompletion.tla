--------------------------- MODULE MCChatCompletion ---------------------------
(* Submissions and policy files in which every rule decides at least once.   *)
EXTENDS ChatCompletion

CONSTANTS r1, r2

Symmetry == Permutations(Requests)

Found(pii, injection, exfiltration, docHigh, docMedium, secret) ==
    [pii |-> pii, injection |-> injection, exfiltration |-> exfiltration,
     docHigh |-> docHigh, docMedium |-> docMedium, secret |-> secret]

MCDetected ==
    [clean     |-> Found(0, 0, 0, 0, 0, FALSE), blocked  |-> Found(0, 0, 0, 0, 0, FALSE),
     pii       |-> Found(1, 0, 0, 0, 0, FALSE), masked   |-> Found(0, 0, 0, 0, 0, FALSE),
     account   |-> Found(1, 0, 0, 0, 0, FALSE), injected |-> Found(0, 1, 0, 0, 0, FALSE),
     leak      |-> Found(1, 0, 1, 0, 0, FALSE), hidden   |-> Found(0, 0, 0, 2, 0, FALSE),
     poisoned  |-> Found(0, 0, 0, 2, 1, FALSE), risky    |-> Found(0, 0, 0, 1, 0, FALSE),
     secret    |-> Found(1, 0, 0, 0, 0, TRUE),  both     |-> Found(0, 1, 1, 0, 0, FALSE)]

MCText == DOMAIN MCDetected

\* "account": an account number and a phone number next to each other, of which
\* only the phone number is found, and the account number once that is masked.
MCMasked ==
    [t \in MCText |->
        CASE t = "account" -> "pii"
          [] t \in {"pii", "leak", "secret"} -> "masked"
          [] OTHER -> t]

Submission(kind, text, grade, zone) ==
    [kind |-> kind, text |-> text, grade |-> grade, zone |-> zone]

\* One request for every rule of the built-in set, and those that several match.
MCSubmissions ==
    {Submission("chat", "clean", "internal", "external"),
     Submission("chat", "account", "internal", "external"),
     Submission("chat", "pii", "confidential", "external"),
     Submission("chat", "pii", "restricted", "external"),
     Submission("chat", "injected", "public", "external"),
     Submission("chat", "leak", "internal", "external"),
     Submission("chat", "hidden", "internal", "external"),
     Submission("chat", "poisoned", "internal", "on_prem"),
     Submission("chat", "risky", "public", "external"),
     Submission("evaluate", "pii", "restricted", "external"),
     Submission("simulate", "pii", "restricted", "external")}

ZoneSubmissions ==
    {Submission("chat", "clean", grade, zone) : grade \in DataGrades, zone \in ModelZones}

\* A file out of priority order, with a tie, a rule that never matches and
\* conditions the built-in rules do not use.
CustomRules == <<
    Rule("late", 50, [no_findings |-> FALSE], "log_only", NoZone),
    Rule("first", 20, [data_grade |-> "internal"], "mask", "domestic_saas"),
    Rule("second", 20, [data_grade |-> "internal"], "require_approval", NoZone),
    Rule("never", 5, [finding_kinds_any |-> {}], "block", NoZone),
    Rule("clean", 10, [finding_kinds_none |-> RiskKinds, model_zone |-> "external"],
         "route_private", "on_prem") >>

NoZoneNamed == << Rule("bad", 1, <<>>, "route_private", NoZone) >>

MCDocuments == {MissingDocument, MalformedDocument, Document(CustomRules),
                Document(NoZoneNamed)}

DefaultOnly == {MissingDocument}

MCReplies == {<<"risky">>, <<"secret", "account">>, <<"clean", "both">>}
===============================================================================
