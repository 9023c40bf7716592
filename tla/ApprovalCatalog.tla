--------------------------- MODULE ApprovalCatalog ---------------------------
(***************************************************************************)
(* The closed policy catalog and the status alphabet shared by every       *)
(* module about pending writes.                                            *)
(***************************************************************************)
EXTENDS Integers, FiniteSets

CONSTANTS
    Actions,            \* pending action identifiers
    Users,              \* Discord actors
    ApprovalsRequired,  \* catalog: approvals each action's function needs
    Approvers           \* catalog: the users holding an eligible approver role

ASSUME CatalogAssumption ==
    /\ ApprovalsRequired \in [Actions -> Nat]
    /\ Approvers \in [Actions -> SUBSET Users]
    /\ "nobody" \notin Users

ActiveOrExecuting ==    \* fault: what executes is still taken for waiting
    {"PENDING", "PARTIALLY_APPROVED", "APPROVED", "EXECUTING"}

\* "UNKNOWN" abbreviates UNKNOWN_REQUIRES_RECONCILIATION; "ABSENT" is no row.
ActiveStatus == {"PENDING", "PARTIALLY_APPROVED", "APPROVED"}
ExecutionStatus ==
    {"EXECUTING", "SUCCEEDED", "FAILED", "UNKNOWN", "RECONCILED_NOT_APPLIED"}
FinalStatus ==
    {"SUCCEEDED", "FAILED", "REJECTED", "EXPIRED", "STALE", "RECONCILED_NOT_APPLIED"}
Status == {"ABSENT"} \cup ActiveStatus \cup ExecutionStatus \cup FinalStatus
=============================================================================
