SPECIFICATION Spec
CONSTANTS
    a1 = a1
    a2 = a2
    e1 = e1
    e2 = e2
    ApprovalIds = {a1, a2}
    AttemptIds = {e1, e2}
    Contexts = {"policy_evaluation", "chat_completion"}
    Errors = {"provider_http_error", "execution_timeout"}
    ResettableErrors = {"provider_http_error"}
    RecoveryReasons = {"execution_timeout"}
    Timeouts = {1, 2}
    Limits = {1, 2}
    MaxClock = 2
    None = None
SYMMETRY Symmetry
CHECK_DEADLOCK FALSE
INVARIANTS
    RunningIsCurrent
    ApprovedByItsAttempt
    ExecutedContextIsStored
    FailureTimesOrdered
PROPERTIES
    RefusalNeedsReset
    ImplementsLifecycle
