--------------------------- MODULE MCAuditReports ---------------------------
(* A held request that is recorded to the end and resolved, and an allowed one  *)
(* that is cut off.                                                             *)
EXTENDS AuditReports, TLC

CONSTANTS t1, t2, held, allowed, p1, p2

MCEvents ==
    {event \in AuditEvents :
        event.type \in IF event.request = held
                         THEN EvaluationTypes(held) \cup {"approval_resolved"}
                         ELSE {"request_received"}}

MCActionOf == held :> "require_approval" @@ allowed :> "allow"

MCGuardOf == held :> "mask" @@ allowed :> "allow"

MCPolicyOf == held :> p1 @@ allowed :> p2

All == [request |-> None, type |-> None, action |-> None, policy |-> None,
        order |-> "asc", limit |-> None]

\* What the dashboard asks for, and queries that use every filter.
MCQueries ==
    {[All EXCEPT !.order = order, !.limit = limit] : order \in {"asc", "desc"},
                                                     limit \in {1, 3, None}}
    \cup {[All EXCEPT !.request = held, !.order = "desc", !.limit = 2],
          [All EXCEPT !.type = "policy_decided", !.limit = 1],
          [All EXCEPT !.action = "require_approval", !.order = "desc", !.limit = 2],
          [All EXCEPT !.policy = p1]}

MCCaps == {NotANumber, 0 - 1}

Symmetry == Permutations({t1, t2})
============================================================================
