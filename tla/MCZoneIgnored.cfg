CONSTANTS
    r1 = r1
    r2 = r2
    Requests = {r1}
    Text <- MCText
    Detected <- MCDetected
    Masked <- MCMasked
    SafeBlockedResponse = "blocked"
    Submissions <- ZoneSubmissions
    Documents <- DefaultOnly
    Endpoints = {"external"}
    Replies <- MCReplies
    Failures = {"http_5xx", "value_error", "crash"}
    MaxRestarts = 1
    MaxFailures = 1
SPECIFICATION Spec
CHECK_DEADLOCK FALSE
INVARIANT RestrictedNeedsApproval
