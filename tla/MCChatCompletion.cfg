CONSTANTS
    r1 = r1
    r2 = r2
    Requests = {r1, r2}
    Text <- MCText
    Detected <- MCDetected
    Masked <- MCMasked
    SafeBlockedResponse = "blocked"
    Submissions <- MCSubmissions
    Documents <- MCDocuments
    Endpoints = {"external"}
    Replies <- MCReplies
    Failures = {"http_5xx", "value_error", "crash"}
    MaxRestarts = 1
    MaxFailures = 1
SPECIFICATION Spec
SYMMETRY Symmetry
CHECK_DEADLOCK FALSE
INVARIANTS
    CallIsRecorded
    DecisionsFollowDocument
    ExternalIsProtected
    DeliveredIsGuarded
    StrictestActionIsRecorded
    AnswersAreRecorded
    HeldChatIsStored
