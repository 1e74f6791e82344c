SPECIFICATION GatewaySpec
CONSTANTS
    h1 = h1
    h2 = h2
    a1 = a1
    a2 = a2
    e1 = e1
    e2 = e2
    e3 = e3
    ApprovalIds = {a1}
    AttemptIds = {e1, e2}
    Contexts = {"policy_evaluation", "chat_completion", "invalid_route", "unsupported"}
    Errors = {"provider_http_error", "provider_timeout", "provider_network_error", "provider_invalid_response", "stored_approval_context_error", "execution_timeout"}
    ResettableErrors = {"provider_http_error", "provider_invalid_response"}
    RecoveryReasons = {"execution_timeout"}
    Timeouts = {1}
    Limits = {1}
    MaxClock = 1
    None = None
    Handlers = {h1, h2}
    ProviderResults = {"ok"}
    DirectContexts = {"unsupported"}
    MaxCalls = 2
CHECK_DEADLOCK FALSE
INVARIANTS
    ApprovedChatWasExecuted
