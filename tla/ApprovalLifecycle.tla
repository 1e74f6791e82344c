------------------------- MODULE ApprovalLifecycle -------------------------
(***************************************************************************)
(* What the approval queue promises its users, without clocks, errors,     *)
(* contexts or retry verdicts: an approval is opened once, is executed by  *)
(* one attempt at a time, goes back to open when an attempt is lost, and   *)
(* ends approved by the attempt that succeeded, or rejected while open.    *)
(* ApprovalQueue implements this specification (ApprovalQueueProofs).      *)
(***************************************************************************)
CONSTANTS ApprovalIds, AttemptIds, None

VARIABLES
    stage,      \* approval -> where it is in its life
    outcome,    \* attempt -> what became of it
    ran         \* attempt -> the approval it was started for

vars == <<stage, outcome, ran>>

Stages == {"absent", "open", "running", "approved", "rejected"}

Outcomes == {"unused", "running", "succeeded", "failed", "superseded"}

Init ==
    /\ stage = [a \in ApprovalIds |-> "absent"]
    /\ outcome = [e \in AttemptIds |-> "unused"]
    /\ ran = [e \in AttemptIds |-> None]

Open(a) ==
    /\ stage[a] = "absent"
    /\ stage' = [stage EXCEPT ![a] = "open"]
    /\ UNCHANGED <<outcome, ran>>

Start(a, e) ==
    /\ stage[a] = "open"
    /\ outcome[e] = "unused"
    /\ stage' = [stage EXCEPT ![a] = "running"]
    /\ outcome' = [outcome EXCEPT ![e] = "running"]
    /\ ran' = [ran EXCEPT ![e] = a]

Succeed(a, e) ==
    /\ stage[a] = "running"
    /\ outcome[e] = "running"
    /\ ran[e] = a
    /\ stage' = [stage EXCEPT ![a] = "approved"]
    /\ outcome' = [outcome EXCEPT ![e] = "succeeded"]
    /\ UNCHANGED ran

\* The running attempts of a set of approvals are lost, all at once.
Lose(lost, how) ==
    /\ \A a \in lost : stage[a] = "running"
    /\ stage' = [a \in ApprovalIds |-> IF a \in lost THEN "open" ELSE stage[a]]
    /\ outcome' = [e \in AttemptIds |->
           IF outcome[e] = "running" /\ ran[e] \in lost THEN how ELSE outcome[e]]
    /\ UNCHANGED ran

Reject(a) ==
    /\ stage[a] = "open"
    /\ stage' = [stage EXCEPT ![a] = "rejected"]
    /\ UNCHANGED <<outcome, ran>>

Next ==
    \/ \E a \in ApprovalIds : Open(a) \/ Reject(a)
    \/ \E a \in ApprovalIds, e \in AttemptIds : Start(a, e) \/ Succeed(a, e)
    \/ \E lost \in SUBSET ApprovalIds, how \in {"failed", "superseded"} :
          Lose(lost, how)

Spec == Init /\ [][Next]_vars
============================================================================
