-------------------------- MODULE ProviderAdapters --------------------------
(***************************************************************************)
(* What a call of an upstream provider can come to, and what the gateway   *)
(* makes of it: src/kai_security/providers and _provider_error_summary of  *)
(* apps/gateway_api/main.py.  Headers, bodies and hashes are left out.     *)
(***************************************************************************)
EXTENDS Naturals

\* status_code = None.
NoStatus == 0

\* The kinds of HTTP status with which an endpoint refuses, and one of each.
HTTPErrors == {"http_5xx", "http_429", "http_4xx"}

StatusCode(result) ==
    CASE result = "http_5xx" -> 503
      [] result = "http_429" -> 429
      [] result = "http_4xx" -> 400

\* Results the HTTP adapter turns into a ProviderError.
ProviderErrorResults == HTTPErrors \cup {"timeout", "network", "not_json"}

\* Results that complete() returns; "bad_shape" is only found out later.
ReturnedResults == {"ok", "bad_shape"}

\* "value_error" stands for a ValueError out of the adapter, such as the
\* UnicodeDecodeError of a body that is not UTF-8; "crash" for an exception that
\* is neither a ValueError nor a RuntimeError, such as the IncompleteRead of a
\* body that is cut off.
UnexpectedResults == {"value_error", "crash"}

Results == ReturnedResults \cup ProviderErrorResults \cup UnexpectedResults

\* retryable_for_status.
Retryable(status) ==
    \/ status = NoStatus
    \/ status \in {408, 409, 425, 429}
    \/ status \in 500..599

Verdict(status) == IF Retryable(status) THEN "yes" ELSE "no"

\* The ProviderError of a failed call, or of the validation of its answer.  A
\* RuntimeError that is no ProviderError would get a summary of its own, but the
\* adapters raise none, and what the guard would raise for a choice without a
\* message the validation has refused before.
ProviderError(result) ==
    CASE result \in HTTPErrors ->
             [error |-> "provider_http_error", retryable |-> Verdict(StatusCode(result))]
      [] result = "timeout" -> [error |-> "provider_timeout", retryable |-> "yes"]
      [] result = "network" -> [error |-> "provider_network_error", retryable |-> "yes"]
      [] result \in {"not_json", "bad_shape"} ->
             [error |-> "provider_invalid_response", retryable |-> "no"]

\* _failure_domain_for_error_type.
FailureDomain(error) ==
    CASE error = "stored_approval_context_error" -> "gateway_state"
      [] error = "gateway_runtime_error"         -> "gateway_runtime"
      [] error = "approval_backend_error"        -> "approval_backend"
      [] error = "provider_invalid_response"     -> "provider_response"
      [] error \in {"provider_timeout", "provider_http_error", "provider_runtime_error"} ->
             "provider_transport"
      [] OTHER -> "unknown"

\* resolve_provider_adapter: the echo adapter answers for a zone whose provider
\* has no endpoint configured (there is one known provider per zone).
UsesEndpoint(zone, endpoints) == zone \in endpoints

\* How the client of a chat completion learns of a failed call.
ClientStatus(result) ==
    CASE result \in ProviderErrorResults \cup {"bad_shape"} -> 502
      [] result = "value_error" -> 422
      [] result = "crash" -> 500
============================================================================
