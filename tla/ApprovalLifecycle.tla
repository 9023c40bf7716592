-------------------------- MODULE ApprovalLifecycle --------------------------
(***************************************************************************)
(* What the approval workflow promises about one prepared write, with no   *)
(* service, lock, database or clock: the life of a pending action as the   *)
(* people and the executor see it.  Approvals implements this module, and  *)
(* WriteExecution uses its steps as the durable operations of the store.   *)
(***************************************************************************)
EXTENDS ApprovalCatalog

VARIABLES
    status,     \* durable status of each action ("ABSENT" before prepare)
    requester,  \* who prepared it
    confirmed,  \* the one-time code was consumed
    approvals   \* who approved it

lifecycleVars == <<status, requester, confirmed, approvals>>

\* How a step moves one action's status.
Move(a, from, to) ==
    /\ status[a] \in from
    /\ status' = [status EXCEPT ![a] = to]

LifecycleInit ==
    /\ status    = [a \in Actions |-> "ABSENT"]
    /\ requester = [a \in Actions |-> "nobody"]
    /\ confirmed = [a \in Actions |-> FALSE]
    /\ approvals = [a \in Actions |-> {}]

Prepare(a, u) ==
    /\ Move(a, {"ABSENT"}, "PENDING")
    /\ requester' = [requester EXCEPT ![a] = u]
    /\ UNCHANGED <<confirmed, approvals>>

\* The requester consumes the one-time code; without approvers that suffices.
Confirm(a) ==
    /\ ~confirmed[a]
    /\ Move(a, ActiveStatus,
            IF ApprovalsRequired[a] = 0 THEN "APPROVED" ELSE "PENDING")
    /\ confirmed' = [confirmed EXCEPT ![a] = TRUE]
    /\ UNCHANGED <<requester, approvals>>

\* A second person decides: never the requester, never twice.
Approve(a, u) ==
    /\ confirmed[a]
    /\ u \in Approvers[a] \ ({requester[a]} \cup approvals[a])
    /\ Move(a, {"PENDING", "PARTIALLY_APPROVED"},
            IF Cardinality(approvals[a]) + 1 >= ApprovalsRequired[a]
            THEN "APPROVED" ELSE "PARTIALLY_APPROVED")
    /\ approvals' = [approvals EXCEPT ![a] = @ \cup {u}]
    /\ UNCHANGED <<requester, confirmed>>

\* Rejection, expiry and a changed target end an action that never started.
Reject(a) == Move(a, ActiveStatus, "REJECTED") /\ UNCHANGED <<requester, confirmed, approvals>>
Expire(a) == Move(a, ActiveStatus, "EXPIRED")  /\ UNCHANGED <<requester, confirmed, approvals>>
GoStale(a) == Move(a, {"APPROVED"}, "STALE")   /\ UNCHANGED <<requester, confirmed, approvals>>

\* The executor's operations.
Begin(a) == Move(a, {"APPROVED"}, "EXECUTING") /\ UNCHANGED <<requester, confirmed, approvals>>

Complete(a, outcome) ==
    /\ outcome \in {"SUCCEEDED", "FAILED", "UNKNOWN"}
    /\ Move(a, {"EXECUTING"}, outcome)
    /\ UNCHANGED <<requester, confirmed, approvals>>

Reconcile(a, outcome) ==
    /\ outcome \in {"SUCCEEDED", "RECONCILED_NOT_APPLIED"}
    /\ Move(a, {"UNKNOWN"}, outcome)
    /\ UNCHANGED <<requester, confirmed, approvals>>

LifecycleNext ==
    \E a \in Actions :
        \/ \E u \in Users : Prepare(a, u) \/ Approve(a, u)
        \/ Confirm(a) \/ Reject(a) \/ Expire(a) \/ GoStale(a) \/ Begin(a)
        \/ \E s \in Status : Complete(a, s) \/ Reconcile(a, s)

LifecycleSpec == LifecycleInit /\ [][LifecycleNext]_lifecycleVars
=============================================================================
