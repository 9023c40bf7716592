------------------------------ MODULE Approvals ------------------------------
(***************************************************************************)
(* approvals/service.py over approvals/storage.py: ApprovalService         *)
(* instances that share one database.  Every mutating call takes its       *)
(* service's _mutation_lock, reads the row, decides from that copy and     *)
(* writes it back with a version compare-and-swap; begin_execution commits *)
(* an idempotency claim in a transaction of its own between the two.       *)
(* Reads, claims and writes are separate steps: other services, database   *)
(* errors and crashes come between them.                                   *)
(*                                                                         *)
(* The idempotency key is random and UNIQUE in both tables, so a key and   *)
(* its action are one identifier here.                                     *)
(***************************************************************************)
EXTENDS ApprovalCatalog

CONSTANTS
    Services,   \* ApprovalService instances (one per process)
    Tasks,      \* concurrent calls
    ServiceOf,  \* the service each call runs in
    TTL,        \* approval time to live
    MaxTime     \* bound on the modelled clock

ASSUME ServiceAssumption ==
    /\ ServiceOf \in [Tasks -> Services]
    /\ "free" \notin Tasks
    /\ TTL \in Nat \ {0}
    /\ MaxTime \in Nat

VARIABLES
    row,            \* pending_actions and approvals tables
    execution,      \* action_executions table: "NONE", "CLAIMED" or a status
    call,           \* what each task is doing
    lock,           \* _mutation_lock of each service: holder or "free"
    now,            \* wall clock
    writesEnabled   \* the ENABLE_WRITE_ACTIONS kill switch

vars == <<row, execution, call, lock, now, writesEnabled>>

Row == [status : Status, requester : Users \cup {"nobody"}, confirmed : BOOLEAN,
        approvals : SUBSET Users, expires : Nat, version : Nat]

NoRow == [status |-> "ABSENT", requester |-> "nobody", confirmed |-> FALSE,
          approvals |-> {}, expires |-> 0, version |-> 0]

\* A call: its operation, its inputs and the rows it read and may replace.
\* "good" stands for the input checks on data: a matching code and text
\* confirmation, a normalised reason, an unchanged fingerprint, a verified
\* postcondition, a certain failure, a met postcondition.
Ops == {"confirm", "approve", "reject", "begin_execution", "complete_success",
        "complete_failure", "reconcile", "expire_pending", "stale"}

Idle == [pc |-> "idle", op |-> "confirm", actor |-> "nobody", good |-> FALSE,
         target |-> {}, snap |-> [a \in {} |-> NoRow]]

Init ==
    /\ row = [a \in Actions |-> NoRow]
    /\ execution = [a \in Actions |-> "NONE"]
    /\ call = [t \in Tasks |-> Idle]
    /\ lock = [s \in Services |-> "free"]
    /\ now = 0
    /\ writesEnabled = TRUE
-----------------------------------------------------------------------------
(* prepare: no lock; the insert is one transaction. *)
Prepare(a, u) ==
    /\ writesEnabled
    /\ row[a].status = "ABSENT"
    /\ row' = [row EXCEPT ![a] =
                 [status |-> "PENDING", requester |-> u, confirmed |-> FALSE,
                  approvals |-> {}, expires |-> now + TTL, version |-> 1]]
    /\ UNCHANGED <<execution, call, lock, now, writesEnabled>>

(* The kill switch is read before the lock is awaited, by these calls only. *)
NeedsWrites == {"confirm", "approve", "begin_execution"}

(* A Discord handler (a user's decision) or the write executor ("nobody")
   calls the service.  approve and expire_pending check no further input. *)
UserOps == {"confirm", "approve", "reject"}

Enter(t, op, a, u, good) ==
    /\ call[t].pc = "idle"
    /\ (op \in UserOps) <=> (u \in Users)
    /\ op \in {"approve", "expire_pending"} => good
    /\ op \in NeedsWrites => writesEnabled
    /\ call' = [call EXCEPT ![t] =
         [pc |-> "waiting", op |-> op, actor |-> u, good |-> good,
          target |-> IF op = "expire_pending" THEN Actions ELSE {a}, snap |-> Idle.snap]]
    /\ UNCHANGED <<row, execution, lock, now, writesEnabled>>

(* The call ends: it returns or raises, and "async with" frees the lock. *)
Return(t) ==
    /\ call' = [call EXCEPT ![t] = Idle]
    /\ lock' = [lock EXCEPT ![ServiceOf[t]] = "free"]

DueWhateverStatus(r) == now >= r.expires    \* fault: no status filter

Due(r) == now >= r.expires /\ r.status \in ActiveStatus

(* The checks each operation makes on the row it read, once _require_active
   has found the row active and in time. *)
ConfirmAllowed(r, u, good) == u = r.requester /\ ~r.confirmed /\ good

SelfApprovalAllowed(a, r, u) ==   \* fault: the requester is not excluded
    /\ r.confirmed /\ ApprovalsRequired[a] # 0 /\ r.status # "APPROVED"
    /\ u \in Approvers[a] \ r.approvals

ApproveAllowed(a, r, u) ==
    /\ r.confirmed
    /\ ApprovalsRequired[a] # 0
    /\ r.status # "APPROVED"
    /\ u # r.requester
    /\ u \notin r.approvals
    /\ u \in Approvers[a]

RejectAllowed(a, r, u, good) ==
    /\ u \notin r.approvals
    /\ u = r.requester \/ u \in Approvers[a]
    /\ good

BeginAllowed(r) == r.status = "APPROVED"

Allowed(op, a, r, u, good) ==
    CASE op = "confirm"         -> ConfirmAllowed(r, u, good)
      [] op = "approve"         -> ApproveAllowed(a, r, u)
      [] op = "reject"          -> RejectAllowed(a, r, u, good)
      [] op = "begin_execution" -> BeginAllowed(r)
      [] OTHER                  -> FALSE

(* _require_active and the status guards of the executor's calls. *)
Accepts(op, a, r, u, good) ==
    \/ /\ op \in {"confirm", "approve", "reject", "begin_execution"}
       /\ r.status \in ActiveStatus
       /\ Due(r) \/ Allowed(op, a, r, u, good)
    \/ op \in {"complete_success", "complete_failure"} /\ r.status = "EXECUTING"
    \/ op = "reconcile" /\ r.status = "UNKNOWN"
    \/ op = "expire_pending" /\ Due(r)

(* What the call goes on to do with an accepted row: a due row is only
   expired, a changed fingerprint is only recorded. *)
Intent(op, r, good) ==
    CASE Due(r) -> "expire_pending"
      [] ~Due(r) /\ op = "begin_execution" /\ ~good -> "stale"
      [] OTHER -> op

(* Lock, get and clock: the decision is taken on this copy of the rows. *)
Read(t) ==
    /\ call[t].pc = "waiting"
    /\ lock[ServiceOf[t]] = "free"
    /\ LET c == call[t]
           accepted == {a \in c.target : Accepts(c.op, a, row[a], c.actor, c.good)}
       IN \/ /\ accepted = {}          \* raises, or nothing to expire
             /\ call' = [call EXCEPT ![t] = Idle]
             /\ UNCHANGED lock
          \/ \E a \in accepted :
             /\ call' = [call EXCEPT
                  ![t].pc = IF Intent(c.op, row[a], c.good) = "begin_execution"
                            THEN "claim" ELSE "write",
                  ![t].op = Intent(c.op, row[a], c.good),
                  ![t].snap = [b \in accepted |-> row[b]]]
             /\ lock' = [lock EXCEPT ![ServiceOf[t]] = t]
    /\ UNCHANGED <<row, execution, now, writesEnabled>>

ClaimAlwaysFree(a) == TRUE    \* fault: an existing claim is not looked up

(* claim_idempotency: its own transaction; a second claim raises. *)
ClaimFree(a) == execution[a] = "NONE"

Claim(t) ==
    /\ call[t].pc = "claim"
    /\ \E a \in DOMAIN call[t].snap :
         \/ /\ ClaimFree(a)
            /\ execution' = [execution EXCEPT ![a] = "CLAIMED"]
            /\ call' = [call EXCEPT ![t].pc = "write"]
            /\ UNCHANGED lock
         \/ /\ ~ClaimFree(a)
            /\ Return(t)
            /\ UNCHANGED execution
    /\ UNCHANGED <<row, now, writesEnabled>>

OutcomeOutsideEnum(op, a, r, good) ==   \* fault: a status ActionStatus cannot decode
    IF op = "confirm" THEN "CONFIRMED" ELSE r.status

(* The replacement row each operation computes from the copy it read. *)
Outcome(op, a, r, good) ==
    CASE op = "confirm" -> IF ApprovalsRequired[a] = 0 THEN "APPROVED" ELSE "PENDING"
      [] op = "approve" -> IF Cardinality(r.approvals) + 1 >= ApprovalsRequired[a]
                           THEN "APPROVED" ELSE "PARTIALLY_APPROVED"
      [] op = "reject"           -> "REJECTED"
      [] op = "begin_execution"  -> "EXECUTING"
      [] op = "complete_success" -> IF good THEN "SUCCEEDED" ELSE "UNKNOWN"
      [] op = "complete_failure" -> IF good THEN "FAILED" ELSE "UNKNOWN"
      [] op = "reconcile"        -> IF good THEN "SUCCEEDED" ELSE "RECONCILED_NOT_APPLIED"
      [] op = "expire_pending"   -> "EXPIRED"
      [] op = "stale"            -> "STALE"

Replacement(op, a, r, u, good) ==
    [r EXCEPT !.status = Outcome(op, a, r, good),
              !.confirmed = IF op = "confirm" THEN TRUE ELSE @,
              !.approvals = IF op = "approve" THEN @ \cup {u} ELSE @,
              !.version = @ + 1]

NoVersionGuard(a, old) == TRUE    \* fault: UPDATE without the version condition

(* storage.replace: the version guard, then _sync_decisions (which only adds
   rows) and _sync_execution (which refuses an unclaimed execution). *)
VersionMatches(a, old) == row[a].version = old.version

CanReplace(a, old, new) ==
    /\ VersionMatches(a, old)
    /\ new.status \in ExecutionStatus => execution[a] # "NONE"

Stored(a, new) == [new EXCEPT !.approvals = row[a].approvals \cup @]

Replace(a, new) ==
    /\ row' = [row EXCEPT ![a] = Stored(a, new)]
    /\ execution' = IF new.status \in ExecutionStatus
                    THEN [execution EXCEPT ![a] = new.status] ELSE execution

Write(t, a) ==
    /\ call[t].pc = "write"
    /\ a \in DOMAIN call[t].snap
    /\ LET c    == call[t]
           new  == Replacement(c.op, a, c.snap[a], c.actor, c.good)
           rest == DOMAIN c.snap \ {a}
       IN \/ /\ CanReplace(a, c.snap[a], new)
             /\ Replace(a, new)
             /\ \/ rest = {} /\ Return(t)
                \/ /\ rest # {}
                   /\ call' = [call EXCEPT ![t].snap = [b \in rest |-> @[b]]]
                   /\ UNCHANGED lock
          \/ /\ ~CanReplace(a, c.snap[a], new)
             /\ Return(t)
             /\ UNCHANGED <<row, execution>>
    /\ UNCHANGED <<now, writesEnabled>>
-----------------------------------------------------------------------------
(* A database error rolls the current transaction back; the call raises. *)
DatabaseError(t) ==
    /\ call[t].pc \in {"claim", "write"}
    /\ Return(t)
    /\ UNCHANGED <<row, execution, now, writesEnabled>>

(* The process dies and restarts; nothing volatile survives. *)
Crash(s) ==
    /\ \E t \in Tasks : ServiceOf[t] = s /\ call[t].pc # "idle"
    /\ call' = [t \in Tasks |-> IF ServiceOf[t] = s THEN Idle ELSE call[t]]
    /\ lock' = [lock EXCEPT ![s] = "free"]
    /\ UNCHANGED <<row, execution, now, writesEnabled>>

Tick ==
    /\ now < MaxTime
    /\ now' = now + 1
    /\ UNCHANGED <<row, execution, call, lock, writesEnabled>>

(* RuntimeFeatureFlags: the kill switch can be thrown at any time. *)
SetWrites ==
    /\ writesEnabled' = ~writesEnabled
    /\ UNCHANGED <<row, execution, call, lock, now>>

Step(t) == Read(t) \/ Claim(t) \/ \E a \in Actions : Write(t, a)

Next ==
    \/ \E a \in Actions, u \in Users : Prepare(a, u)
    \/ \E t \in Tasks, op \in Ops \ {"stale"}, a \in Actions,
          u \in Users \cup {"nobody"}, good \in BOOLEAN : Enter(t, op, a, u, good)
    \/ \E t \in Tasks : Step(t) \/ DatabaseError(t)
    \/ \E s \in Services : Crash(s)
    \/ Tick
    \/ SetWrites

Spec == Init /\ [][Next]_vars
-----------------------------------------------------------------------------
IsCall(c) ==
    /\ c = [pc |-> c.pc, op |-> c.op, actor |-> c.actor, good |-> c.good,
            target |-> c.target, snap |-> c.snap]
    /\ c.pc \in {"idle", "waiting", "claim", "write"}
    /\ c.op \in Ops
    /\ c.actor \in Users \cup {"nobody"}
    /\ c.good \in BOOLEAN
    /\ c.target \subseteq Actions
    /\ DOMAIN c.snap \subseteq Actions
    /\ c.snap \in [DOMAIN c.snap -> Row]

(* Every row, snapshot and call the service holds is well formed. *)
TypeOK ==
    /\ row \in [Actions -> Row]
    /\ execution \in [Actions -> {"NONE", "CLAIMED"} \cup ExecutionStatus]
    /\ DOMAIN call = Tasks
    /\ \A t \in Tasks : IsCall(call[t])
    /\ lock \in [Services -> Tasks \cup {"free"}]
    /\ now \in Nat
    /\ writesEnabled \in BOOLEAN

(* Two-person rule of confirm/approve/begin_execution: however the calls of
   all services interleave, an action that is approved or was ever executed
   was confirmed by its requester and approved by the number of distinct
   eligible people its catalog entry asks for, none of them the requester. *)
FourEyes ==
    \A a \in Actions : row[a].status \in ExecutionStatus \cup {"APPROVED"} =>
        /\ row[a].confirmed
        /\ row[a].approvals \subseteq Approvers[a] \ {row[a].requester}
        /\ Cardinality(row[a].approvals) >= ApprovalsRequired[a]

(* The version CAS of storage.replace loses no decision: the persisted status
   of a waiting action agrees with the approval rows persisted next to it,
   although they are written from a copy read earlier. *)
StatusMatchesDecisions ==
    \A a \in Actions :
        /\ row[a].status = "PENDING" => row[a].approvals = {}
        /\ row[a].status = "PARTIALLY_APPROVED" =>
              Cardinality(row[a].approvals) \in 1 .. ApprovalsRequired[a] - 1

(* claim_idempotency: at most one begin_execution call ever gets past the
   claim of an action, in any service, and none once the action ran. *)
HoldsClaim(t, a) ==
    call[t].pc = "write" /\ call[t].op = "begin_execution" /\ a \in DOMAIN call[t].snap

ClaimExclusive ==
    \A a \in Actions, t1 \in Tasks : HoldsClaim(t1, a) =>
        /\ row[a].status \notin ExecutionStatus
        /\ \A t2 \in Tasks : HoldsClaim(t2, a) => t1 = t2

(* A claim is spent once.  When the call that made it is gone before EXECUTING
   was stored (its transaction fails, the process dies, another decision came
   first), no later begin_execution of any process takes the claim over and
   the action never counts as executed, however often it is tried again. *)
SpentClaim(a) == execution[a] = "CLAIMED" /\ \A t \in Tasks : ~HoldsClaim(t, a)

SpentClaimIsNeverRun ==
    [][\A a \in Actions : SpentClaim(a) =>
         SpentClaim(a)' /\ row'[a].status \notin ExecutionStatus]_vars

(* The confirmation code is one-time: a confirm that succeeds finds the code
   unconsumed in the database at that very step, not only in its copy. *)
CodeConsumedOnce ==
    [][\A t \in Tasks, a \in Actions :
         /\ call[t].pc = "write" /\ call[t].op = "confirm" /\ a \in DOMAIN call[t].snap
         /\ row'[a] # row[a] /\ call'[t].pc = "idle"
         => ~row[a].confirmed]_vars

(* The rows implement the abstract life of a pending action: statuses move
   only along its edges and terminal outcomes are never rewritten. *)
Lifecycle == INSTANCE ApprovalLifecycle WITH
    status    <- [a \in Actions |-> row[a].status],
    requester <- [a \in Actions |-> row[a].requester],
    confirmed <- [a \in Actions |-> row[a].confirmed],
    approvals <- [a \in Actions |-> row[a].approvals]

ImplementsLifecycle == Lifecycle!LifecycleSpec

(* What begin_execution's docstring says: "Atomically claim an approved
   action".  A claim exists only for an action that is executing or was
   executed, or while the call that made it is still running. *)
ClaimIsAtomic ==
    \A a \in Actions : execution[a] = "CLAIMED" => \E t \in Tasks : HoldsClaim(t, a)
=============================================================================
