--------------------------- MODULE ApprovalsProofs ---------------------------
(***************************************************************************)
(* Proofs about Approvals for any number of services, calls, actions and   *)
(* users.  The argument: a call decides on a copy of the row, so its       *)
(* decision is worth something only while the copy is current.  SnapInv    *)
(* says that a copy with the row's version IS the row and still passes     *)
(* the checks the call made on it; the version compare-and-swap then makes *)
(* every write a decision about the current row.                           *)
(***************************************************************************)
EXTENDS Approvals, FiniteSetTheorems, TLAPS

(* What the checks of each operation established about the copy it read. *)
Justified(op, a, r, u) ==
    /\ op \in {"confirm", "reject", "expire_pending"} => r.status \in ActiveStatus
    /\ op = "confirm" => ~r.confirmed
    /\ op = "approve" =>
         /\ r.status \in {"PENDING", "PARTIALLY_APPROVED"}
         /\ r.confirmed
         /\ u \in Approvers[a] \ (r.approvals \cup {r.requester})
    /\ op \in {"begin_execution", "stale"} => r.status = "APPROVED"
    /\ op \in {"complete_success", "complete_failure"} => r.status = "EXECUTING"
    /\ op = "reconcile" => r.status = "UNKNOWN"

SnapInv ==
    \A t \in Tasks : \A a \in DOMAIN call[t].snap :
        /\ call[t].snap[a].version <= row[a].version
        /\ call[t].snap[a].version = row[a].version => call[t].snap[a] = row[a]
        /\ Justified(call[t].op, a, call[t].snap[a], call[t].actor)

(* Approvals are finite sets of eligible people other than the requester,
   and an action without a row has none of its parts. *)
RowInv ==
    \A a \in Actions :
        /\ row[a].status = "ABSENT" => row[a] = NoRow
        /\ IsFiniteSet(row[a].approvals)
        /\ row[a].approvals \subseteq Approvers[a] \ {row[a].requester}

(* Every call but expire_pending works on one action. *)
TargetInv ==
    \A t \in Tasks :
        /\ DOMAIN call[t].snap \subseteq call[t].target
        /\ call[t].op # "expire_pending" => \A a, b \in call[t].target : a = b

(* The claim begin_execution holds is the only one. *)
ClaimInv ==
    /\ \A a \in Actions : row[a].status \in ExecutionStatus => execution[a] # "NONE"
    /\ \A t \in Tasks, a \in Actions : HoldsClaim(t, a) => execution[a] = "CLAIMED"
    /\ ClaimExclusive

IInv == TypeOK /\ SnapInv /\ RowInv /\ TargetInv /\ FourEyes /\ ClaimInv
-----------------------------------------------------------------------------
USE DEF vars

(* Init establishes the invariant: no row, no call, no claim. *)
LEMMA InitIInv == Init => IInv
<1> SUFFICES ASSUME Init PROVE IInv
  OBVIOUS
<1>1. Idle.snap = [a \in {} |-> NoRow] /\ DOMAIN Idle.snap = {}
  BY DEF Idle
<1>2. TypeOK
  <2>1. NoRow \in Row
    BY DEF NoRow, Row, Status
  <2>2. IsCall(Idle)
    BY DEF IsCall, Idle, Ops
  <2>3. QED
    BY <2>1, <2>2 DEF TypeOK, Init
<1>3. RowInv
  BY FS_EmptySet DEF RowInv, Init, NoRow
<1>4. QED
  BY <1>1, <1>2, <1>3 DEF IInv, Init, SnapInv, TargetInv, FourEyes, ClaimInv, ClaimExclusive,
     HoldsClaim, Idle, NoRow, ActiveStatus, ExecutionStatus

-----------------------------------------------------------------------------
(* A step that stores nothing and only ends calls: a call that raises, a
   database error, a crash, the clock and the kill switch. *)
QuietStep ==
    /\ UNCHANGED <<row, execution>>
    /\ DOMAIN call' = Tasks
    /\ \A t \in Tasks : call'[t] = call[t] \/ call'[t] = Idle
    /\ lock' \in [Services -> Tasks \cup {"free"}]
    /\ now' \in Nat
    /\ writesEnabled' \in BOOLEAN

(* The idle call is well formed, waits for nothing and holds no copy. *)
LEMMA IdleFacts ==
    /\ IsCall(Idle)
    /\ DOMAIN Idle.snap = {}
    /\ Idle.target = {}
    /\ Idle.op = "confirm"
    /\ Idle.pc = "idle"
BY DEF IsCall, Idle, Ops

(* A step that changes no row and no claim, and gives no call a new copy,
   keeps the invariant: errors, crashes, the clock and the kill switch. *)
LEMMA QuietStepIInv == IInv /\ QuietStep => IInv'
<1> SUFFICES ASSUME IInv, QuietStep PROVE IInv'
  OBVIOUS
<1> USE IdleFacts DEF QuietStep
<1>1. TypeOK'
  BY DEF IInv, TypeOK
<1>2. SnapInv'
  BY DEF IInv, SnapInv
<1>3. TargetInv'
  BY DEF IInv, TargetInv
<1>4. RowInv' /\ FourEyes'
  BY DEF IInv, RowInv, FourEyes
<1>5. \A t \in Tasks, a \in Actions : HoldsClaim(t, a)' => HoldsClaim(t, a)
  BY DEF HoldsClaim
<1>6. ClaimInv'
  BY <1>5 DEF IInv, ClaimInv, ClaimExclusive
<1>7. QED
  BY <1>1, <1>2, <1>3, <1>4, <1>6 DEF IInv

(* A return leaves every other call alone and frees only its service's lock. *)
LEMMA ReturnQuiet ==
    ASSUME IInv, NEW t \in Tasks, Return(t),
           UNCHANGED <<row, execution, now, writesEnabled>>
    PROVE  IInv'
<1>1. QuietStep
  BY DEF IInv, TypeOK, QuietStep, Return
<1>2. QED
  BY <1>1, QuietStepIInv

(* prepare stores a row that no call has read. *)
LEMMA PrepareIInv ==
    ASSUME IInv, NEW a \in Actions, NEW u \in Users, Prepare(a, u)
    PROVE  IInv'
<1> DEFINE new == [status |-> "PENDING", requester |-> u, confirmed |-> FALSE,
                   approvals |-> {}, expires |-> now + TTL, version |-> 1]
<1>1. /\ row' = [row EXCEPT ![a] = new]
      /\ row[a].status = "ABSENT"
      /\ UNCHANGED <<execution, call, lock, now, writesEnabled>>
  BY DEF Prepare
<1>2. row \in [Actions -> Row] /\ now \in Nat
  BY DEF IInv, TypeOK
<1>3. new \in Row
  BY <1>2, ServiceAssumption DEF Row, Status, ActiveStatus
<1>4. row[a].version = 0
  BY <1>1 DEF IInv, RowInv, NoRow
<1> HIDE DEF new
<1>5. TypeOK'
  BY <1>1, <1>3 DEF IInv, TypeOK
<1>6. new.version = 1 /\ new.status = "PENDING" /\ new.approvals = {}
  BY DEF new
<1>7. SnapInv'
  <2> SUFFICES ASSUME NEW t \in Tasks, NEW b \in DOMAIN call[t].snap
               PROVE  /\ call[t].snap[b].version <= row'[b].version
                      /\ call[t].snap[b].version = row'[b].version => call[t].snap[b] = row'[b]
                      /\ Justified(call[t].op, b, call[t].snap[b], call[t].actor)
    BY <1>1 DEF SnapInv
  <2>1. b \in Actions /\ call[t].snap[b] \in Row
    BY DEF IInv, TypeOK, IsCall
  <2>2. /\ call[t].snap[b].version <= row[b].version
        /\ call[t].snap[b].version = row[b].version => call[t].snap[b] = row[b]
        /\ Justified(call[t].op, b, call[t].snap[b], call[t].actor)
    BY DEF IInv, SnapInv
  <2>3. CASE b = a
    BY <1>1, <1>2, <1>4, <1>6, <2>1, <2>2, <2>3 DEF Row
  <2>4. CASE b # a
    BY <1>1, <1>2, <2>1, <2>2, <2>4
  <2>5. QED
    BY <2>3, <2>4
<1>8. RowInv'
  BY <1>1, <1>2, <1>6, FS_EmptySet DEF IInv, RowInv
<1>9. FourEyes'
  BY <1>1, <1>2, <1>6 DEF IInv, FourEyes, ExecutionStatus
<1>10. ClaimInv' /\ TargetInv'
  BY <1>1, <1>2, <1>6 DEF IInv, ClaimInv, ClaimExclusive, HoldsClaim, TargetInv, ExecutionStatus
<1>11. QED
  BY <1>5, <1>7, <1>8, <1>9, <1>10 DEF IInv

(* A call that waits for the lock holds no copy yet. *)
LEMMA EnterIInv ==
    ASSUME IInv, NEW t \in Tasks, NEW op \in Ops, NEW a \in Actions,
           NEW u \in Users \cup {"nobody"}, NEW good \in BOOLEAN,
           Enter(t, op, a, u, good)
    PROVE  IInv'
<1> DEFINE new == [pc |-> "waiting", op |-> op, actor |-> u, good |-> good,
                   target |-> IF op = "expire_pending" THEN Actions ELSE {a},
                   snap |-> Idle.snap]
<1>1. /\ call' = [call EXCEPT ![t] = new]
      /\ UNCHANGED <<row, execution, lock, now, writesEnabled>>
  BY DEF Enter
<1>2. IsCall(new)
  <2>1. Idle.snap \in [DOMAIN Idle.snap -> Row] /\ DOMAIN Idle.snap = {}
    BY IdleFacts DEF IsCall
  <2>2. QED
    BY <2>1 DEF IsCall
<1>3. /\ DOMAIN new.snap = {}
      /\ new.pc = "waiting"
      /\ new.op # "expire_pending" => \A x, y \in new.target : x = y
  BY IdleFacts
<1> HIDE DEF new
<1>4. DOMAIN call = Tasks
  BY DEF IInv, TypeOK
<1>5. TypeOK'
  BY <1>1, <1>2 DEF IInv, TypeOK
<1>6. SnapInv' /\ TargetInv'
  BY <1>1, <1>3, <1>4 DEF IInv, SnapInv, TargetInv
<1>7. RowInv' /\ FourEyes'
  BY <1>1 DEF IInv, RowInv, FourEyes
<1>8. ClaimInv'
  BY <1>1, <1>3, <1>4 DEF IInv, ClaimInv, ClaimExclusive, HoldsClaim
<1>9. QED
  BY <1>5, <1>6, <1>7, <1>8 DEF IInv

(* What a call goes on to do is justified by the row it has just read. *)
LEMMA AcceptsJustifies ==
    ASSUME NEW op \in Ops, NEW a \in Actions, NEW r \in Row, NEW u, NEW good \in BOOLEAN,
           Accepts(op, a, r, u, good)
    PROVE  Intent(op, r, good) \in Ops /\ Justified(Intent(op, r, good), a, r, u)
<1>1. CASE Due(r)
  <2>1. Intent(op, r, good) = "expire_pending"
    BY <1>1 DEF Intent
  <2>2. r.status \in ActiveStatus
    BY <1>1 DEF Due
  <2>3. QED
    BY <2>1, <2>2 DEF Justified, Ops
<1>2. CASE ~Due(r) /\ op = "begin_execution"
  <2>1. r.status = "APPROVED"
    BY <1>2 DEF Accepts, Allowed, BeginAllowed
  <2>2. Intent(op, r, good) \in {"stale", "begin_execution"}
    BY <1>2 DEF Intent
  <2>3. QED
    BY <2>1, <2>2 DEF Justified, Ops
<1>3. CASE ~Due(r) /\ op # "begin_execution"
  <2>1. Intent(op, r, good) = op
    BY <1>3 DEF Intent
  <2>2. op \in {"confirm", "approve", "reject"} =>
          r.status \in ActiveStatus /\ Allowed(op, a, r, u, good)
    BY <1>3 DEF Accepts
  <2>3. op = "approve" => ApproveAllowed(a, r, u)
    BY <2>2 DEF Allowed
  <2>4. op \notin {"expire_pending", "stale"}
    BY <1>3 DEF Accepts
  <2>5. op \in {"complete_success", "complete_failure"} => r.status = "EXECUTING"
    BY <1>3 DEF Accepts
  <2>6. op = "reconcile" => r.status = "UNKNOWN"
    BY <1>3 DEF Accepts
  <2>7. op = "approve" => /\ r.status \in {"PENDING", "PARTIALLY_APPROVED"}
                          /\ r.confirmed
                          /\ u \in Approvers[a] \ (r.approvals \cup {r.requester})
    BY <2>2, <2>3 DEF ApproveAllowed, ActiveStatus
  <2>8. op = "confirm" => ~r.confirmed
    BY <2>2 DEF Allowed, ConfirmAllowed
  <2>9. QED
    BY <1>3, <2>1, <2>2, <2>4, <2>5, <2>6, <2>7, <2>8 DEF Justified
<1>4. QED
  BY <1>1, <1>2, <1>3

(* Reading takes current copies, and a batch is only ever expired. *)
LEMMA ReadIInv ==
    ASSUME IInv, NEW t \in Tasks, Read(t)
    PROVE  IInv'
<1> DEFINE c == call[t]
           accepted == {a \in c.target : Accepts(c.op, a, row[a], c.actor, c.good)}
<1>1. UNCHANGED <<row, execution, now, writesEnabled>>
  BY DEF Read
<1>2. /\ row \in [Actions -> Row]
      /\ IsCall(c)
      /\ DOMAIN call = Tasks
      /\ ServiceOf[t] \in Services
      /\ lock \in [Services -> Tasks \cup {"free"}]
  BY ServiceAssumption DEF IInv, TypeOK
<1>3. CASE call' = [call EXCEPT ![t] = Idle] /\ UNCHANGED lock
  <2>1. QuietStep
    BY <1>1, <1>3 DEF IInv, TypeOK, QuietStep
  <2>2. QED
    BY <2>1, QuietStepIInv
<1>4. ASSUME NEW a \in accepted,
             call' = [call EXCEPT
                  ![t].pc = IF Intent(c.op, row[a], c.good) = "begin_execution"
                            THEN "claim" ELSE "write",
                  ![t].op = Intent(c.op, row[a], c.good),
                  ![t].snap = [b \in accepted |-> row[b]]],
             lock' = [lock EXCEPT ![ServiceOf[t]] = t]
      PROVE  IInv'
  <2> DEFINE intent == Intent(c.op, row[a], c.good)
             d == call'[t]
  <2>1. accepted \subseteq Actions /\ a \in Actions
    BY <1>2 DEF IsCall
  <2>2. /\ intent \in Ops
        /\ \A b \in accepted : Justified(intent, b, row[b], c.actor)
    <3>1. \A b \in accepted :
            /\ Intent(c.op, row[b], c.good) \in Ops
            /\ Justified(Intent(c.op, row[b], c.good), b, row[b], c.actor)
      BY <1>2, <2>1, AcceptsJustifies DEF IsCall
    <3>2. CASE c.op = "expire_pending"
      <4>1. \A b \in accepted : Due(row[b])
        BY <3>2 DEF Accepts
      <4>2. \A b \in accepted : Intent(c.op, row[b], c.good) = "expire_pending"
        BY <4>1 DEF Intent
      <4>3. QED
        BY <3>1, <4>2
    <3>3. CASE c.op # "expire_pending"
      <4>1. \A b \in accepted : b = a
        BY <3>3 DEF IInv, TargetInv
      <4>2. QED
        BY <3>1, <4>1
    <3>4. QED
      BY <3>2, <3>3
  <2>3. intent # "expire_pending" => c.op # "expire_pending"
    <3>1. c.op = "expire_pending" => Due(row[a])
      BY DEF Accepts
    <3>2. QED
      BY <3>1 DEF Intent
  <2> HIDE DEF accepted, intent
  <2>4. d = [pc |-> IF intent = "begin_execution" THEN "claim" ELSE "write",
             op |-> intent, actor |-> c.actor, good |-> c.good, target |-> c.target,
             snap |-> [b \in accepted |-> row[b]]]
    BY <1>2, <1>4 DEF IsCall, intent
  <2>5. \A s \in Tasks \ {t} : call'[s] = call[s]
    BY <1>2, <1>4
  <2>6. DOMAIN call' = Tasks
    BY <1>2, <1>4
  <2> HIDE DEF c, d
  <2>7. TypeOK'
    <3>1. \A b \in accepted : row[b] \in Row
      BY <1>2, <2>1
    <3>2. IsCall(d)
      BY <1>2, <2>1, <2>2, <2>4, <3>1 DEF IsCall
    <3>3. lock' \in [Services -> Tasks \cup {"free"}]
      BY <1>2, <1>4
    <3>4. QED
      BY <1>1, <2>5, <2>6, <3>2, <3>3 DEF IInv, TypeOK, d
  <2>8. SnapInv'
    <3>1. \A b \in DOMAIN d.snap : /\ d.snap[b] = row[b]
                                   /\ b \in Actions
                                   /\ Justified(d.op, b, d.snap[b], d.actor)
      BY <2>1, <2>2, <2>4
    <3>2. \A b \in Actions : row[b].version \in Nat
      BY <1>2 DEF Row
    <3>3. QED
      BY <1>1, <2>5, <3>1, <3>2 DEF IInv, SnapInv, d
  <2>9. TargetInv'
    <3>1. DOMAIN d.snap \subseteq d.target /\ d.target = c.target /\ d.op = intent
      BY <2>4 DEF accepted, c
    <3>2. QED
      BY <2>3, <2>5, <3>1 DEF IInv, TargetInv, c, d
  <2>10. RowInv' /\ FourEyes'
    BY <1>1 DEF IInv, RowInv, FourEyes
  <2>11. ClaimInv'
    <3>1. d.op = "begin_execution" => d.pc # "write"
      BY <2>4
    <3>2. \A s \in Tasks, b \in Actions : HoldsClaim(s, b)' => HoldsClaim(s, b)
      BY <2>5, <3>1 DEF HoldsClaim, d
    <3>3. QED
      BY <1>1, <3>2 DEF IInv, ClaimInv, ClaimExclusive
  <2>12. QED
    BY <2>7, <2>8, <2>9, <2>10, <2>11 DEF IInv
<1>5. QED
  BY <1>3, <1>4 DEF Read

(* A claim is granted only where no call holds one and nothing ran. *)
LEMMA ClaimIInv ==
    ASSUME IInv, NEW t \in Tasks, Claim(t)
    PROVE  IInv'
<1>1. PICK a \in DOMAIN call[t].snap :
         \/ /\ ClaimFree(a)
            /\ execution' = [execution EXCEPT ![a] = "CLAIMED"]
            /\ call' = [call EXCEPT ![t].pc = "write"]
            /\ UNCHANGED lock
         \/ /\ Return(t)
            /\ UNCHANGED execution
  BY DEF Claim
<1>2. UNCHANGED <<row, now, writesEnabled>> /\ call[t].pc = "claim"
  BY DEF Claim
<1>3. CASE Return(t) /\ UNCHANGED execution
  BY <1>2, <1>3, ReturnQuiet
<1>4. CASE /\ ClaimFree(a)
           /\ execution' = [execution EXCEPT ![a] = "CLAIMED"]
           /\ call' = [call EXCEPT ![t].pc = "write"]
           /\ UNCHANGED lock
  <2>1. /\ DOMAIN call = Tasks
        /\ IsCall(call[t])
        /\ a \in Actions
        /\ execution \in [Actions -> {"NONE", "CLAIMED"} \cup ExecutionStatus]
    BY DEF IInv, TypeOK, IsCall
  <2>2. call'[t] = [pc |-> "write", op |-> call[t].op, actor |-> call[t].actor,
                    good |-> call[t].good, target |-> call[t].target,
                    snap |-> call[t].snap]
    BY <1>4, <2>1 DEF IsCall
  <2>3. /\ DOMAIN call' = Tasks
        /\ \A s \in Tasks : s # t => call'[s] = call[s]
    BY <1>4, <2>1
  <2>4. TypeOK'
    <3>1. IsCall(call'[t])
      BY <2>1, <2>2 DEF IsCall
    <3>2. execution' \in [Actions -> {"NONE", "CLAIMED"} \cup ExecutionStatus]
      BY <1>4, <2>1
    <3>3. QED
      BY <1>2, <1>4, <2>3, <3>1, <3>2 DEF IInv, TypeOK
  <2>5. SnapInv' /\ TargetInv'
    BY <1>2, <2>2, <2>3 DEF IInv, SnapInv, TargetInv
  <2>6. RowInv' /\ FourEyes'
    BY <1>2 DEF IInv, RowInv, FourEyes
  <2>7. ClaimInv'
    <3>1. execution[a] = "NONE"
      BY <1>4 DEF ClaimFree
    <3>2. /\ row[a].status \notin ExecutionStatus
          /\ \A s \in Tasks : ~HoldsClaim(s, a)
      BY <2>1, <3>1 DEF IInv, ClaimInv
    <3>3. \A b \in Actions : HoldsClaim(t, b)' => b = a
      BY <2>2 DEF HoldsClaim, IInv, TargetInv
    <3>4. \A s \in Tasks, b \in Actions : s # t => (HoldsClaim(s, b)' <=> HoldsClaim(s, b))
      BY <2>3 DEF HoldsClaim
    <3>5. \A b \in Actions : b # a => execution'[b] = execution[b]
      BY <1>4, <2>1
    <3>6. execution'[a] = "CLAIMED"
      BY <1>4, <2>1
    <3>7. \A b \in Actions : row'[b].status \in ExecutionStatus => execution'[b] # "NONE"
      BY <1>2, <3>5, <3>6 DEF IInv, ClaimInv
    <3>8. \A s \in Tasks, b \in Actions : HoldsClaim(s, b)' => execution'[b] = "CLAIMED"
      BY <3>3, <3>4, <3>5, <3>6 DEF IInv, ClaimInv
    <3>9. ClaimExclusive'
      BY <1>2, <3>2, <3>3, <3>4 DEF IInv, ClaimInv, ClaimExclusive
    <3>10. QED
      BY <3>7, <3>8, <3>9 DEF ClaimInv
  <2>8. QED
    BY <2>4, <2>5, <2>6, <2>7 DEF IInv
<1>5. QED
  BY <1>1, <1>3, <1>4

(* The statuses each operation can write. *)
LEMMA OutcomeFacts ==
    ASSUME NEW op \in Ops, NEW a, NEW r, NEW good \in BOOLEAN
    PROVE  LET st == Outcome(op, a, r, good)
           IN  /\ st \in Status \ {"ABSENT"}
               /\ st \in ExecutionStatus => op \in {"begin_execution", "complete_success",
                                                  "complete_failure", "reconcile"}
               /\ st = "APPROVED" =>
                    \/ op = "confirm" /\ ApprovalsRequired[a] = 0
                    \/ op = "approve" /\ Cardinality(r.approvals) + 1 >= ApprovalsRequired[a]
<1> DEFINE st == Outcome(op, a, r, good)
<1>1. op = "confirm" => st = IF ApprovalsRequired[a] = 0 THEN "APPROVED" ELSE "PENDING"
  BY DEF Outcome
<1>2. op = "approve" => st = IF Cardinality(r.approvals) + 1 >= ApprovalsRequired[a]
                             THEN "APPROVED" ELSE "PARTIALLY_APPROVED"
  BY DEF Outcome
<1>3. op = "reject" => st = "REJECTED"
  BY DEF Outcome
<1>4. op = "begin_execution" => st = "EXECUTING"
  BY DEF Outcome
<1>5. op = "complete_success" => st = IF good THEN "SUCCEEDED" ELSE "UNKNOWN"
  BY DEF Outcome
<1>6. op = "complete_failure" => st = IF good THEN "FAILED" ELSE "UNKNOWN"
  BY DEF Outcome
<1>7. op = "reconcile" => st = IF good THEN "SUCCEEDED" ELSE "RECONCILED_NOT_APPLIED"
  BY DEF Outcome
<1>8. op = "expire_pending" => st = "EXPIRED"
  BY DEF Outcome
<1>9. op = "stale" => st = "STALE"
  BY DEF Outcome
<1> HIDE DEF st
<1>10. QED
  BY <1>1, <1>2, <1>3, <1>4, <1>5, <1>6, <1>7, <1>8, <1>9
     DEF Ops, Status, ActiveStatus, ExecutionStatus, FinalStatus, st

(* A guarded replacement of the current row keeps the two-person rule. *)
LEMMA ReplacementKeepsFourEyes ==
    ASSUME TypeOK, RowInv, FourEyes,
           NEW a \in Actions, NEW op \in Ops, NEW u \in Users \cup {"nobody"},
           NEW good \in BOOLEAN, Justified(op, a, row[a], u)
    PROVE  LET n == Stored(a, Replacement(op, a, row[a], u, good))
           IN  /\ n \in Row
               /\ n.status = Outcome(op, a, row[a], good)
               /\ n.version = row[a].version + 1
               /\ IsFiniteSet(n.approvals)
               /\ n.approvals \subseteq Approvers[a] \ {n.requester}
               /\ n.status \in ExecutionStatus \cup {"APPROVED"} =>
                     n.confirmed /\ Cardinality(n.approvals) >= ApprovalsRequired[a]
<1> DEFINE r == row[a]
           st == Outcome(op, a, r, good)
           people == r.approvals \cup (IF op = "approve" THEN r.approvals \cup {u} ELSE r.approvals)
           n == Stored(a, Replacement(op, a, r, u, good))
<1>1. r \in Row
  BY DEF TypeOK
<1>2. n = [status |-> st, requester |-> r.requester,
           confirmed |-> IF op = "confirm" THEN TRUE ELSE r.confirmed, approvals |-> people,
           expires |-> r.expires, version |-> r.version + 1]
  <2> DEFINE mine == IF op = "approve" THEN r.approvals \cup {u} ELSE r.approvals
             yes == IF op = "confirm" THEN TRUE ELSE r.confirmed
  <2>1. Replacement(op, a, r, u, good) =
          [r EXCEPT !.status = st, !.confirmed = yes, !.approvals = mine,
                    !.version = r.version + 1]
    BY <1>1 DEF Replacement, Row
  <2>2. n = [Replacement(op, a, r, u, good) EXCEPT !.approvals = people]
    BY <1>1, <2>1 DEF Stored, Row
  <2> HIDE DEF st, mine, yes, people, n
  <2>3. n = [status |-> st, requester |-> r.requester, confirmed |-> yes,
             approvals |-> people, expires |-> r.expires, version |-> r.version + 1]
    BY <1>1, <2>1, <2>2 DEF Row
  <2>4. QED
    BY <2>3 DEF yes
<1>3. /\ IsFiniteSet(r.approvals)
      /\ r.approvals \subseteq Approvers[a] \ {r.requester}
  BY DEF RowInv
<1>4. Approvers[a] \subseteq Users /\ ApprovalsRequired[a] \in Nat
  BY CatalogAssumption
<1>5. op = "approve" => /\ r.confirmed
                        /\ u \in Approvers[a] \ (r.approvals \cup {r.requester})
  BY DEF Justified
<1>6. /\ op = "approve" => people = r.approvals \cup {u}
      /\ op # "approve" => people = r.approvals
  OBVIOUS
<1> HIDE DEF n, people
<1>7. people \subseteq Approvers[a] \ {r.requester}
  BY <1>3, <1>5, <1>6
<1>8. /\ IsFiniteSet(people)
      /\ op = "approve" => Cardinality(people) = Cardinality(r.approvals) + 1
  BY <1>3, <1>5, <1>6, FS_AddElement
<1>9. Cardinality(people) \in Nat
  BY <1>8, FS_CardinalityType
<1>10. /\ st \in Status
       /\ st \in ExecutionStatus => op \in {"begin_execution", "complete_success",
                                          "complete_failure", "reconcile"}
       /\ st = "APPROVED" =>
             \/ op = "confirm" /\ ApprovalsRequired[a] = 0
             \/ op = "approve" /\ Cardinality(r.approvals) + 1 >= ApprovalsRequired[a]
  BY OutcomeFacts
<1>11. op \in {"begin_execution", "complete_success", "complete_failure", "reconcile"} =>
          r.confirmed /\ Cardinality(r.approvals) >= ApprovalsRequired[a]
  BY DEF Justified, FourEyes, ExecutionStatus
<1> HIDE DEF st, r
<1>12. st \in ExecutionStatus \cup {"APPROVED"} =>
          n.confirmed /\ Cardinality(people) >= ApprovalsRequired[a]
  <2>c. /\ op = "confirm" => n.confirmed
        /\ op # "confirm" => n.confirmed = r.confirmed
    BY <1>2
  <2>1. CASE st \in ExecutionStatus
    BY <2>c, <1>6, <1>10, <1>11, <2>1
  <2>2. CASE st = "APPROVED" /\ op = "confirm"
    BY <2>c, <1>4, <1>9, <1>10, <2>2
  <2>3. CASE st = "APPROVED" /\ op = "approve"
    BY <2>c, <1>5, <1>8, <1>10, <2>3
  <2>4. QED
    BY <1>10, <2>1, <2>2, <2>3
<1>13. n \in Row
  <2> DEFINE yes == IF op = "confirm" THEN TRUE ELSE r.confirmed
  <2>1. yes \in BOOLEAN
    BY <1>1 DEF Row
  <2>2. people \in SUBSET Users
    BY <1>4, <1>7
  <2>3. /\ r.requester \in Users \cup {"nobody"}
        /\ r.expires \in Nat
        /\ r.version + 1 \in Nat
    BY <1>1 DEF Row
  <2>4. n = [status |-> st, requester |-> r.requester, confirmed |-> yes,
             approvals |-> people, expires |-> r.expires, version |-> r.version + 1]
    BY <1>2
  <2> HIDE DEF yes
  <2>5. QED
    BY <1>10, <2>1, <2>2, <2>3, <2>4 DEF Row
<1>14. QED
  BY <1>2, <1>7, <1>8, <1>12, <1>13 DEF n, st, r

(* The version guard makes the copy current, so a write decides on the row
   it replaces; every other copy of that row is outdated from then on. *)
LEMMA WriteIInv ==
    ASSUME IInv, NEW t \in Tasks, NEW a \in Actions, Write(t, a)
    PROVE  IInv'
<1> DEFINE c == call[t]
           new == Replacement(c.op, a, c.snap[a], c.actor, c.good)
           rest == DOMAIN c.snap \ {a}
           n == Stored(a, new)
<1>1. /\ c.pc = "write"
      /\ a \in DOMAIN c.snap
      /\ UNCHANGED <<now, writesEnabled>>
  BY DEF Write
<1>2. CASE Return(t) /\ UNCHANGED <<row, execution>>
  BY <1>1, <1>2, ReturnQuiet
<1>3. ASSUME CanReplace(a, c.snap[a], new), Replace(a, new),
             \/ rest = {} /\ Return(t)
             \/ /\ rest # {}
                /\ call' = [call EXCEPT ![t].snap = [b \in rest |-> @[b]]]
                /\ UNCHANGED lock
      PROVE  IInv'
  <2>1. /\ row \in [Actions -> Row]
        /\ execution \in [Actions -> {"NONE", "CLAIMED"} \cup ExecutionStatus]
        /\ DOMAIN call = Tasks
        /\ IsCall(c)
        /\ lock \in [Services -> Tasks \cup {"free"}]
    BY DEF IInv, TypeOK
  <2>2. c.snap[a] = row[a] /\ Justified(c.op, a, row[a], c.actor)
    BY <1>1, <1>3 DEF CanReplace, VersionMatches, IInv, SnapInv
  <2>3. /\ n \in Row
        /\ n.status = Outcome(c.op, a, row[a], c.good)
        /\ n.version = row[a].version + 1
        /\ IsFiniteSet(n.approvals)
        /\ n.approvals \subseteq Approvers[a] \ {n.requester}
        /\ n.status \in ExecutionStatus \cup {"APPROVED"} =>
              n.confirmed /\ Cardinality(n.approvals) >= ApprovalsRequired[a]
    BY <2>1, <2>2, ReplacementKeepsFourEyes DEF IInv, IsCall
  <2>4. /\ n.status # "ABSENT"
        /\ n.status \in ExecutionStatus => c.op \in {"begin_execution", "complete_success",
                                                  "complete_failure", "reconcile"}
    BY <2>1, <2>3, OutcomeFacts DEF IsCall
  <2>5. new.status = n.status
    BY <2>1, <2>2, <2>3 DEF Stored, Replacement, Row
  <2> HIDE DEF new, n
  <2>6. /\ row' = [row EXCEPT ![a] = n]
        /\ execution' = IF n.status \in ExecutionStatus
                        THEN [execution EXCEPT ![a] = n.status] ELSE execution
    BY <1>3, <2>5 DEF Replace, n
  <2>7. n.status \in ExecutionStatus => execution[a] # "NONE"
    BY <1>3, <2>5 DEF CanReplace
  \* What the call still holds: nothing of a, and its other copies unchanged.
  <2>8. \/ call' = [call EXCEPT ![t] = Idle] /\ rest = {}
        \/ call' = [call EXCEPT ![t].snap = [b \in rest |-> @[b]]]
    BY <1>3 DEF Return
  <2>9. /\ DOMAIN call' = Tasks
        /\ \A s \in Tasks : s # t => call'[s] = call[s]
        /\ IsCall(call'[t])
        /\ a \notin DOMAIN call'[t].snap
        /\ call'[t] # Idle => /\ rest # {}
                             /\ call'[t].op = c.op
                             /\ call'[t].actor = c.actor
                             /\ call'[t].target = c.target
                             /\ DOMAIN call'[t].snap = rest
                             /\ \A b \in rest : call'[t].snap[b] = c.snap[b]
    <3>1. CASE call' = [call EXCEPT ![t] = Idle]
      BY <2>1, <3>1, IdleFacts
    <3>2. CASE rest # {} /\ call' = [call EXCEPT ![t].snap = [b \in rest |-> @[b]]]
      <4>1. /\ DOMAIN call' = Tasks
            /\ \A s \in Tasks : s # t => call'[s] = call[s]
            /\ call'[t] = [c EXCEPT !.snap = [b \in rest |-> @[b]]]
        BY <2>1, <3>2
      <4>2. call'[t] = [pc |-> c.pc, op |-> c.op, actor |-> c.actor, good |-> c.good,
                        target |-> c.target, snap |-> [b \in rest |-> c.snap[b]]]
        BY <2>1, <4>1 DEF IsCall
      <4>3. \A b \in rest : c.snap[b] \in Row /\ b \in Actions
        BY <2>1 DEF IsCall
      <4>4. [b \in rest |-> c.snap[b]] \in [rest -> Row]
        BY <4>3
      <4> HIDE DEF rest
      <4>5. IsCall(call'[t])
        BY <2>1, <4>2, <4>3, <4>4 DEF IsCall
      <4>6. QED
        BY <3>2, <4>1, <4>2, <4>5 DEF rest
    <3>3. QED
      BY <1>3, <3>1, <3>2 DEF Return
  <2>10. TypeOK'
    <3>1. lock' \in [Services -> Tasks \cup {"free"}]
      BY <1>3, <2>1 DEF Return
    <3>2. execution' \in [Actions -> {"NONE", "CLAIMED"} \cup ExecutionStatus]
      BY <2>1, <2>6
    <3>3. row' \in [Actions -> Row]
      BY <2>1, <2>3, <2>6
    <3>4. QED
      BY <1>1, <2>9, <3>1, <3>2, <3>3 DEF IInv, TypeOK
  <2>11. \A s \in Tasks : \A b \in DOMAIN call'[s].snap :
           /\ b \in DOMAIN call[s].snap
           /\ b \in Actions
           /\ call'[s].snap[b] = call[s].snap[b]
           /\ call'[s].op = call[s].op
           /\ call'[s].actor = call[s].actor
    BY <2>9, IdleFacts DEF IInv, TypeOK, IsCall
  <2>12. SnapInv'
    <3> SUFFICES ASSUME NEW s \in Tasks, NEW b \in DOMAIN call'[s].snap
                 PROVE  /\ call[s].snap[b].version <= row'[b].version
                        /\ call[s].snap[b].version = row'[b].version =>
                              call[s].snap[b] = row'[b]
                        /\ Justified(call[s].op, b, call[s].snap[b], call[s].actor)
      BY <2>11 DEF SnapInv
    <3>1. /\ call[s].snap[b].version <= row[b].version
          /\ call[s].snap[b].version = row[b].version => call[s].snap[b] = row[b]
          /\ Justified(call[s].op, b, call[s].snap[b], call[s].actor)
      BY <2>11 DEF IInv, SnapInv
    <3>2. call[s].snap[b].version \in Nat /\ row[b].version \in Nat
      BY <2>1, <2>11 DEF IInv, TypeOK, IsCall, Row
    <3>3. CASE b = a
      BY <2>1, <2>3, <2>6, <3>1, <3>2, <3>3
    <3>4. CASE b # a
      BY <2>1, <2>6, <2>11, <3>1, <3>4
    <3>5. QED
      BY <3>3, <3>4
  <2>13. TargetInv'
    BY <2>9, IdleFacts DEF IInv, TargetInv
  <2>14. RowInv'
    BY <2>1, <2>3, <2>4, <2>6 DEF IInv, RowInv
  <2>15. FourEyes'
    BY <2>1, <2>3, <2>6 DEF IInv, FourEyes
  <2>16. ClaimInv'
    <3>1. ~HoldsClaim(t, a)' /\ (c.op = "begin_execution" => call'[t] = Idle)
      BY <1>1, <2>9 DEF HoldsClaim, IInv, TargetInv
    <3>2. \A s \in Tasks, b \in Actions : HoldsClaim(s, b)' => s # t /\ HoldsClaim(s, b)
      BY <2>9, <3>1, IdleFacts DEF HoldsClaim
    \* Another call's claim on a: this one is not the executor's.
    <3>3. ASSUME NEW s \in Tasks, HoldsClaim(s, a)' PROVE n.status \notin ExecutionStatus
      <4>1. s # t /\ HoldsClaim(s, a)
        BY <3>2, <3>3
      <4>2. c.op # "begin_execution"
        BY <1>1, <4>1 DEF HoldsClaim, IInv, ClaimInv, ClaimExclusive
      <4>3. row[a].status \notin ExecutionStatus
        BY <4>1 DEF IInv, ClaimInv, ClaimExclusive
      <4>4. c.op \notin {"complete_success", "complete_failure", "reconcile"}
        BY <2>2, <4>3 DEF Justified, ExecutionStatus
      <4>5. QED
        BY <2>4, <4>2, <4>4
    <3>4. \A b \in Actions : row'[b].status \in ExecutionStatus => execution'[b] # "NONE"
      <4>1. "NONE" \notin ExecutionStatus
        BY DEF ExecutionStatus
      <4>2. QED
        BY <2>1, <2>6, <4>1 DEF IInv, ClaimInv
    <3>5. \A s \in Tasks, b \in Actions : HoldsClaim(s, b)' => execution'[b] = "CLAIMED"
      BY <2>1, <2>6, <3>2, <3>3 DEF IInv, ClaimInv
    <3>6. ClaimExclusive'
      BY <2>1, <2>6, <3>2, <3>3 DEF IInv, ClaimInv, ClaimExclusive
    <3>7. QED
      BY <3>4, <3>5, <3>6 DEF ClaimInv
  <2>17. QED
    BY <2>10, <2>12, <2>13, <2>14, <2>15, <2>16 DEF IInv
<1>4. QED
  BY <1>2, <1>3 DEF Write

(* Every step of the services preserves the invariant. *)
LEMMA NextIInv == IInv /\ [Next]_vars => IInv'
<1> SUFFICES ASSUME IInv, [Next]_vars PROVE IInv'
  OBVIOUS
<1> USE ServiceAssumption
<1>1. ASSUME NEW a \in Actions, NEW u \in Users, Prepare(a, u) PROVE IInv'
  BY <1>1, PrepareIInv
<1>2. ASSUME NEW t \in Tasks, NEW op \in Ops, NEW a \in Actions,
             NEW u \in Users \cup {"nobody"}, NEW good \in BOOLEAN,
             Enter(t, op, a, u, good)
      PROVE  IInv'
  BY <1>2, EnterIInv
<1>3. ASSUME NEW t \in Tasks, Read(t) PROVE IInv'
  BY <1>3, ReadIInv
<1>4. ASSUME NEW t \in Tasks, Claim(t) PROVE IInv'
  BY <1>4, ClaimIInv
<1>5. ASSUME NEW t \in Tasks, NEW a \in Actions, Write(t, a) PROVE IInv'
  BY <1>5, WriteIInv
<1>6. ASSUME NEW t \in Tasks, DatabaseError(t) PROVE IInv'
  BY <1>6, ReturnQuiet DEF DatabaseError
<1>7. ASSUME NEW s \in Services, Crash(s) PROVE IInv'
  <2>1. QuietStep
    BY <1>7 DEF IInv, TypeOK, QuietStep, Crash
  <2>2. QED
    BY <2>1, QuietStepIInv
<1>8. CASE Tick \/ SetWrites \/ UNCHANGED vars
  <2>1. now \in Nat /\ writesEnabled \in BOOLEAN
    BY DEF IInv, TypeOK
  <2>2. writesEnabled' \in BOOLEAN
    <3>1. CASE SetWrites
      BY <3>1, Zenon DEF SetWrites
    <3>2. CASE Tick \/ UNCHANGED vars
      BY <2>1, <3>2 DEF Tick
    <3>3. QED
      BY <1>8, <3>1, <3>2
  <2>3. now' \in Nat
    BY <1>8, <2>1 DEF Tick, SetWrites
  <2>4. UNCHANGED <<row, execution, call, lock>>
    BY <1>8 DEF Tick, SetWrites
  <2>5. QuietStep
    BY <2>2, <2>3, <2>4 DEF IInv, TypeOK, QuietStep
  <2>6. QED
    BY <2>5, QuietStepIInv
<1>9. QED
  BY <1>1, <1>2, <1>3, <1>4, <1>5, <1>6, <1>7, <1>8 DEF Next, Step
-----------------------------------------------------------------------------
(* The inductive invariant holds throughout. *)
THEOREM InvariantHolds == Spec => []IInv
BY InitIInv, NextIInv, PTL DEF Spec

(* Every row, copy and call of the services stays well formed. *)
THEOREM TypeCorrect == Spec => []TypeOK
<1>1. IInv => TypeOK
  BY DEF IInv
<1>2. QED
  BY <1>1, InvariantHolds, PTL

(* The two-person rule of confirm, approve and begin_execution, for any
   number of services, concurrent calls, users and required approvals. *)
THEOREM TwoPersonRule == Spec => []FourEyes
<1>1. IInv => FourEyes
  BY DEF IInv
<1>2. QED
  BY <1>1, InvariantHolds, PTL

(* At most one begin_execution call ever passes claim_idempotency for an
   action, and none does once it ran. *)
THEOREM OneExecutor == Spec => []ClaimExclusive
<1>1. IInv => ClaimExclusive
  BY DEF IInv, ClaimInv
<1>2. QED
  BY <1>1, InvariantHolds, PTL
-----------------------------------------------------------------------------
(* A successful write replaced the very row its call had read. *)
LEMMA WriteIsCurrent ==
    ASSUME IInv, NEW t \in Tasks, NEW a \in Actions, Write(t, a), row' # row
    PROVE  LET c == call[t]
               n == Stored(a, Replacement(c.op, a, row[a], c.actor, c.good))
           IN  /\ c.snap[a] = row[a]
               /\ c.op \in Ops /\ c.good \in BOOLEAN /\ c.actor \in Users \cup {"nobody"}
               /\ Justified(c.op, a, row[a], c.actor)
               /\ row' = [row EXCEPT ![a] = n]
<1> DEFINE c == call[t]
           new == Replacement(c.op, a, c.snap[a], c.actor, c.good)
<1>1. a \in DOMAIN c.snap /\ CanReplace(a, c.snap[a], new) /\ Replace(a, new)
  BY DEF Write
<1>2. c.snap[a] = row[a] /\ Justified(c.op, a, row[a], c.actor)
  BY <1>1 DEF CanReplace, VersionMatches, IInv, SnapInv
<1>3. QED
  BY <1>1, <1>2 DEF Replace, IInv, TypeOK, IsCall

(* The one-time code is unconsumed in the database when a confirm succeeds. *)
THEOREM OneTimeCode == Spec => CodeConsumedOnce
<1> DEFINE Once == \A t \in Tasks, a \in Actions :
             /\ call[t].pc = "write" /\ call[t].op = "confirm" /\ a \in DOMAIN call[t].snap
             /\ row'[a] # row[a] /\ call'[t].pc = "idle"
             => ~row[a].confirmed
<1>1. IInv /\ [Next]_vars => [Once]_vars
  <2> SUFFICES ASSUME IInv, Next, NEW t \in Tasks, NEW a \in Actions,
                      call[t].pc = "write", call[t].op = "confirm", a \in DOMAIN call[t].snap,
                      row'[a] # row[a], call'[t].pc = "idle"
               PROVE  ~row[a].confirmed
    OBVIOUS
  <2>1. DOMAIN call = Tasks /\ row \in [Actions -> Row]
    BY DEF IInv, TypeOK
  <2>2. CASE \E b \in Actions, u \in Users : Prepare(b, u)
    BY <2>2 DEF Prepare
  <2>3. ASSUME NEW s \in Tasks, NEW b \in Actions, Write(s, b) PROVE ~row[a].confirmed
    <3>1. row' = [row EXCEPT ![b] = row'[b]]
      BY <2>1, <2>3, WriteIsCurrent
    <3>2. b = a
      BY <2>1, <3>1
    <3>3. s # t => call'[t] = call[t]
      BY <2>1, <2>3 DEF Write, Return
    <3>4. s = t
      BY <3>3
    <3>5. QED
      BY <2>3, <3>2, <3>4, WriteIsCurrent DEF Justified
  <2>4. QED
    BY <2>2, <2>3 DEF Next, Step, Enter, Read, Claim, DatabaseError, Crash, Tick, SetWrites
<1>2. QED
  BY <1>1, InvariantHolds, PTL DEF Spec, CodeConsumedOnce

(* What a write does to the statuses and claims, when it is not refused. *)
LEMMA WriteStatuses ==
    ASSUME IInv, NEW t \in Tasks, NEW a \in Actions, Write(t, a)
    PROVE  LET c == call[t]
               st == Outcome(c.op, a, row[a], c.good)
           IN  /\ \A s \in Tasks, b \in Actions : HoldsClaim(s, b)' => HoldsClaim(s, b)
               /\ \/ UNCHANGED <<row, execution>>
                  \/ /\ Justified(c.op, a, row[a], c.actor) /\ c.op \in Ops /\ c.good \in BOOLEAN
                     /\ row'[a].status = st /\ \A b \in Actions \ {a} : row'[b] = row[b]
                     /\ execution' = IF st \in ExecutionStatus
                                     THEN [execution EXCEPT ![a] = st] ELSE execution
<1> DEFINE c == call[t]
           st == Outcome(c.op, a, row[a], c.good)
           new == Replacement(c.op, a, c.snap[a], c.actor, c.good)
           rest == DOMAIN c.snap \ {a}
<1>1. /\ row \in [Actions -> Row] /\ DOMAIN call = Tasks
      /\ IsCall(c) /\ a \in DOMAIN c.snap
  BY DEF IInv, TypeOK, Write
<1>2. \/ call' = [call EXCEPT ![t] = Idle]
      \/ call' = [call EXCEPT ![t].snap = [b \in rest |-> @[b]]]
  BY DEF Write, Return
<1>3. \A s \in Tasks, b \in Actions : HoldsClaim(s, b)' => HoldsClaim(s, b)
  <2>1. CASE call' = [call EXCEPT ![t] = Idle]
    BY <1>1, <2>1, IdleFacts DEF HoldsClaim
  <2>2. CASE call' = [call EXCEPT ![t].snap = [b \in rest |-> @[b]]]
    <3>1. \A s \in Tasks : s # t => call'[s] = call[s]
      BY <1>1, <2>2
    <3>2. call'[t].pc = c.pc /\ call'[t].op = c.op /\ DOMAIN call'[t].snap = rest
      BY <1>1, <2>2 DEF IsCall
    <3> QED
      BY <3>1, <3>2 DEF HoldsClaim
  <2> QED
    BY <1>2, <2>1, <2>2
<1>4. ASSUME CanReplace(a, c.snap[a], new), Replace(a, new)
      PROVE  /\ Justified(c.op, a, row[a], c.actor)
             /\ row'[a].status = st /\ \A b \in Actions \ {a} : row'[b] = row[b]
             /\ execution' = IF st \in ExecutionStatus
                             THEN [execution EXCEPT ![a] = st] ELSE execution
  <2>1. c.snap[a] = row[a] /\ Justified(c.op, a, row[a], c.actor)
    BY <1>1, <1>4 DEF CanReplace, VersionMatches, IInv, SnapInv
  <2>2. row[a] \in Row
    BY <1>1
  <2>3. new.status = st /\ Stored(a, new).status = st
    BY <2>1, <2>2 DEF Replacement, Stored, Row
  <2> HIDE DEF new, st
  <2> QED
    BY <1>1, <1>4, <2>1, <2>3 DEF Replace
<1>5. UNCHANGED <<row, execution>> \/ (CanReplace(a, c.snap[a], new) /\ Replace(a, new))
  BY DEF Write
<1> HIDE DEF st
<1> QED
  BY <1>1, <1>3, <1>4, <1>5 DEF IsCall, c, st

(* A claim that is not yet an execution is of an action that never ran. *)
ClaimedNeverRan ==
    \A a \in Actions : execution[a] = "CLAIMED" => row[a].status \notin ExecutionStatus

(* No write of another call makes an execution of such an action: only the
   holder of its claim may begin it, and nothing else starts from there. *)
LEMMA WriteKeepsClaimed ==
    ASSUME IInv, ClaimedNeverRan, NEW t \in Tasks, NEW b \in Actions, Write(t, b)
    PROVE  /\ ClaimedNeverRan'
           /\ \A a \in Actions : SpentClaim(a) => SpentClaim(a)'
<1> DEFINE c == call[t]
           st == Outcome(c.op, b, row[b], c.good)
<1>1. execution \in [Actions -> {"NONE", "CLAIMED"} \cup ExecutionStatus]
  BY DEF IInv, TypeOK
<1>2. \A s \in Tasks, a \in Actions : HoldsClaim(s, a)' => HoldsClaim(s, a)
  BY WriteStatuses
<1>3. CASE UNCHANGED <<row, execution>>
  BY <1>2, <1>3 DEF ClaimedNeverRan, SpentClaim
<1>4. CASE /\ Justified(c.op, b, row[b], c.actor) /\ c.op \in Ops /\ c.good \in BOOLEAN
           /\ row'[b].status = st /\ \A a \in Actions \ {b} : row'[a] = row[a]
           /\ execution' = IF st \in ExecutionStatus
                           THEN [execution EXCEPT ![b] = st] ELSE execution
  <2>1. \A a \in Actions \ {b} : execution'[a] = execution[a]
    BY <1>1, <1>4
  <2>2. execution'[b] = IF st \in ExecutionStatus THEN st ELSE execution[b]
    BY <1>1, <1>4
  <2>3. "CLAIMED" \notin ExecutionStatus
    BY DEF ExecutionStatus
  <2>4. ClaimedNeverRan'
    BY <1>4, <2>1, <2>2, <2>3 DEF ClaimedNeverRan
  <2>5. st \in ExecutionStatus => c.op \in {"begin_execution", "complete_success",
                                            "complete_failure", "reconcile"}
    BY <1>4, OutcomeFacts
  <2>6. ASSUME SpentClaim(b) PROVE st \notin ExecutionStatus
    <3>1. row[b].status \notin ExecutionStatus
      BY <2>6 DEF ClaimedNeverRan, SpentClaim
    <3>2. c.op # "begin_execution"
      BY <2>6 DEF SpentClaim, HoldsClaim, Write
    <3>3. c.op \notin {"complete_success", "complete_failure", "reconcile"}
      BY <1>4, <3>1 DEF Justified, ExecutionStatus
    <3> QED
      BY <2>5, <3>2, <3>3
  <2> QED
    BY <1>2, <2>1, <2>2, <2>4, <2>6 DEF SpentClaim
<1> HIDE DEF c, st
<1> QED
  BY <1>3, <1>4, WriteStatuses DEF c, st

(* A claim is made for an action that has none, so a spent one stays. *)
LEMMA ClaimKeepsClaimed ==
    ASSUME IInv, ClaimedNeverRan, NEW t \in Tasks, Claim(t)
    PROVE  /\ ClaimedNeverRan'
           /\ \A a \in Actions : SpentClaim(a) => SpentClaim(a)'
<1>1. /\ DOMAIN call = Tasks /\ IsCall(call[t]) /\ row' = row
      /\ execution \in [Actions -> {"NONE", "CLAIMED"} \cup ExecutionStatus]
  BY DEF IInv, TypeOK, Claim
<1>2. CASE Return(t) /\ UNCHANGED execution
  <2>1. \A s \in Tasks, a \in Actions : HoldsClaim(s, a)' => HoldsClaim(s, a)
    BY <1>1, <1>2, IdleFacts DEF Return, HoldsClaim
  <2> QED
    BY <1>1, <1>2, <2>1 DEF ClaimedNeverRan, SpentClaim
<1>3. ASSUME NEW b \in DOMAIN call[t].snap, ClaimFree(b),
             execution' = [execution EXCEPT ![b] = "CLAIMED"],
             call' = [call EXCEPT ![t].pc = "write"]
      PROVE  /\ ClaimedNeverRan'
             /\ \A a \in Actions : SpentClaim(a) => SpentClaim(a)'
  <2>1. b \in Actions /\ execution[b] = "NONE"
    BY <1>1, <1>3 DEF IsCall, ClaimFree
  <2>2. row[b].status \notin ExecutionStatus
    BY <2>1 DEF IInv, ClaimInv
  <2>3. \A a \in Actions \ {b} : execution'[a] = execution[a]
    BY <1>1, <1>3, <2>1
  <2>4. \A s \in Tasks : s # t => call'[s] = call[s]
    BY <1>1, <1>3
  <2>5. call'[t].op = call[t].op /\ call'[t].snap = call[t].snap
    BY <1>1, <1>3 DEF IsCall
  <2>6. ASSUME NEW a \in Actions, SpentClaim(a) PROVE SpentClaim(a)'
    <3>1. a # b
      BY <2>1, <2>6 DEF SpentClaim
    <3>2. ~HoldsClaim(t, a)'
      BY <1>3, <2>5, <3>1 DEF HoldsClaim, IInv, TargetInv
    <3> QED
      BY <2>3, <2>4, <2>6, <3>1, <3>2 DEF SpentClaim, HoldsClaim
  <2> QED
    BY <1>1, <2>2, <2>3, <2>6 DEF ClaimedNeverRan
<1> QED
  BY <1>2, <1>3 DEF Claim

(* What the other steps leave alone. *)
LEMMA SpentClaimStays ==
    ASSUME IInv, ClaimedNeverRan, [Next]_vars
    PROVE  /\ ClaimedNeverRan'
           /\ \A a \in Actions : SpentClaim(a) => SpentClaim(a)'
<1> DEFINE Good == ClaimedNeverRan' /\ \A a \in Actions : SpentClaim(a) => SpentClaim(a)'
<1>1. row \in [Actions -> Row] /\ DOMAIN call = Tasks /\ \A t \in Tasks : IsCall(call[t])
  BY DEF IInv, TypeOK
<1>2. ASSUME UNCHANGED execution,
             \A a \in Actions : row'[a].status \in ExecutionStatus => row' = row,
             \A t \in Tasks : \/ call'[t] = call[t]
                              \/ call'[t].pc # "write" \/ call'[t].op # "begin_execution"
      PROVE  Good
  <2>1. \A t \in Tasks, a \in Actions : HoldsClaim(t, a)' => HoldsClaim(t, a)
    BY <1>2 DEF HoldsClaim
  <2> QED
    BY <1>2, <2>1 DEF ClaimedNeverRan, SpentClaim
<1>3. ASSUME NEW b \in Actions, NEW u \in Users, Prepare(b, u) PROVE Good
  <2>1. /\ row'[b].status = "PENDING" /\ \A a \in Actions \ {b} : row'[a] = row[a]
        /\ UNCHANGED <<execution, call>>
    BY <1>1, <1>3 DEF Prepare
  <2>2. "PENDING" \notin ExecutionStatus
    BY DEF ExecutionStatus
  <2> QED
    BY <2>1, <2>2 DEF ClaimedNeverRan, SpentClaim, HoldsClaim
<1>4. ASSUME NEW t \in Tasks, NEW op, NEW a, NEW u, NEW good, Enter(t, op, a, u, good) PROVE Good
  <2>1. UNCHANGED <<row, execution>> /\ call'[t].pc = "waiting" /\ \A s \in Tasks : s # t => call'[s] = call[s]
    BY <1>1, <1>4 DEF Enter
  <2> QED
    BY <1>2, <2>1
<1>5. ASSUME NEW t \in Tasks, Read(t) PROVE Good
  <2>1. UNCHANGED <<row, execution>> /\ \A s \in Tasks : s # t => call'[s] = call[s]
    BY <1>1, <1>5 DEF Read
  <2>2. call'[t].pc # "write" \/ call'[t].op # "begin_execution"
    <3>1. CASE call' = [call EXCEPT ![t] = Idle]
      BY <1>1, <3>1, IdleFacts
    <3> DEFINE c == call[t]
               accepted == {b \in c.target : Accepts(c.op, b, row[b], c.actor, c.good)}
    <3>2. ASSUME NEW a \in accepted,
                 call' = [call EXCEPT
                    ![t].pc = IF Intent(c.op, row[a], c.good) = "begin_execution"
                              THEN "claim" ELSE "write",
                    ![t].op = Intent(c.op, row[a], c.good),
                    ![t].snap = [b \in accepted |-> row[b]]]
          PROVE  call'[t].pc # "write" \/ call'[t].op # "begin_execution"
      <4> DEFINE intent == Intent(c.op, row[a], c.good)
      <4>1. /\ call'[t].pc = IF intent = "begin_execution" THEN "claim" ELSE "write"
            /\ call'[t].op = intent
        <5> HIDE DEF accepted, intent
        <5> QED
          BY <1>1, <3>2 DEF IsCall, accepted, intent
      <4> HIDE DEF intent
      <4> QED
        BY <4>1
    <3> QED
      BY <1>5, <3>1, <3>2 DEF Read
  <2> QED
    BY <1>2, <2>1, <2>2
<1>6. ASSUME NEW t \in Tasks, DatabaseError(t) PROVE Good
  <2>1. UNCHANGED <<row, execution>> /\ call'[t].pc = "idle" /\ \A s \in Tasks : s # t => call'[s] = call[s]
    BY <1>1, <1>6, IdleFacts DEF DatabaseError, Return
  <2> QED
    BY <1>2, <2>1
<1>7. ASSUME NEW s \in Services, Crash(s) PROVE Good
  <2>1. UNCHANGED <<row, execution>> /\ \A t \in Tasks : call'[t] = call[t] \/ call'[t].pc = "idle"
    BY <1>7, IdleFacts DEF Crash
  <2> QED
    BY <1>2, <2>1
<1>8. CASE Tick \/ SetWrites \/ UNCHANGED vars
  BY <1>2, <1>8 DEF Tick, SetWrites
<1> QED
  BY <1>3, <1>4, <1>5, <1>6, <1>7, <1>8, WriteKeepsClaimed, ClaimKeepsClaimed DEF Next, Step

(* begin_execution: a claim whose call is gone is never taken over, and its
   action never counts as executed. *)
THEOREM SpentClaimsStaySpent == Spec => SpentClaimIsNeverRun
<1> DEFINE Stays == \A a \in Actions : SpentClaim(a) =>
                       SpentClaim(a)' /\ row'[a].status \notin ExecutionStatus
<1>1. Init => ClaimedNeverRan
  BY DEF Init, ClaimedNeverRan
<1>2. IInv /\ ClaimedNeverRan /\ [Next]_vars => ClaimedNeverRan'
  BY SpentClaimStays
<1>3. Spec => []ClaimedNeverRan
  BY <1>1, <1>2, InvariantHolds, PTL DEF Spec
<1>4. IInv /\ ClaimedNeverRan /\ [Next]_vars => [Stays]_vars
  <2> SUFFICES ASSUME IInv, ClaimedNeverRan, [Next]_vars, NEW a \in Actions, SpentClaim(a)
               PROVE  SpentClaim(a)' /\ row'[a].status \notin ExecutionStatus
    OBVIOUS
  <2>1. SpentClaim(a)' /\ ClaimedNeverRan'
    BY SpentClaimStays
  <2> QED
    BY <2>1 DEF SpentClaim, ClaimedNeverRan
<1> QED
  BY <1>3, <1>4, InvariantHolds, PTL DEF Spec, SpentClaimIsNeverRun
-----------------------------------------------------------------------------
(* The abstract view of the rows. *)
StatusOf    == [a \in Actions |-> row[a].status]
RequesterOf == [a \in Actions |-> row[a].requester]
ConfirmedOf == [a \in Actions |-> row[a].confirmed]
ApprovalsOf == [a \in Actions |-> row[a].approvals]

(* The instance of the abstract lifecycle counts with the same statuses. *)
LEMMA SameAlphabet ==
    /\ Lifecycle!ActiveStatus = ActiveStatus
    /\ Lifecycle!Status = Status
    /\ \A S : Lifecycle!Cardinality(S) = Cardinality(S)
BY DEF Lifecycle!Cardinality, Cardinality, Lifecycle!IsFiniteSet, IsFiniteSet, Lifecycle!ActiveStatus, Lifecycle!Status, Lifecycle!ExecutionStatus,
       Lifecycle!FinalStatus, ActiveStatus, Status, ExecutionStatus, FinalStatus

(* One replaced row moves along one edge of the abstract lifecycle. *)
LEMMA WriteImplementsStep ==
    ASSUME IInv, NEW t \in Tasks, NEW a \in Actions, Write(t, a), row' # row
    PROVE  Lifecycle!LifecycleNext
<1> USE SameAlphabet
<1> DEFINE c == call[t]
           r == row[a]
           n == Stored(a, Replacement(c.op, a, r, c.actor, c.good))
<1>1. /\ c.op \in Ops /\ c.good \in BOOLEAN /\ c.actor \in Users \cup {"nobody"}
      /\ Justified(c.op, a, r, c.actor)
      /\ row' = [row EXCEPT ![a] = n]
  BY WriteIsCurrent
<1>2. row \in [Actions -> Row] /\ r \in Row
  BY DEF IInv, TypeOK
<1>3. /\ n.status = Outcome(c.op, a, r, c.good)
      /\ n.requester = r.requester
      /\ n.confirmed = IF c.op = "confirm" THEN TRUE ELSE r.confirmed
      /\ n.approvals = IF c.op = "approve" THEN r.approvals \cup {c.actor} ELSE r.approvals
  <2> DEFINE mine == IF c.op = "approve" THEN r.approvals \cup {c.actor} ELSE r.approvals
             yes == IF c.op = "confirm" THEN TRUE ELSE r.confirmed
             st == Outcome(c.op, a, r, c.good)
             m == Replacement(c.op, a, r, c.actor, c.good)
  <2>1. m = [r EXCEPT !.status = st, !.confirmed = yes, !.approvals = mine,
                      !.version = r.version + 1]
    BY <1>2 DEF Replacement, Row
  <2>2. n = [m EXCEPT !.approvals = r.approvals \cup m.approvals]
    BY <1>2, <2>1 DEF Stored, Row
  <2>3. r.approvals \cup mine = mine
    OBVIOUS
  <2> HIDE DEF st, mine, yes, m, n
  <2>4. m.approvals = mine /\ m.status = st /\ m.requester = r.requester /\ m.confirmed = yes
    BY <1>2, <2>1 DEF Row
  <2>5. DOMAIN m = DOMAIN r
    BY <1>2, <2>1
  <2>6. n.status = st /\ n.requester = r.requester /\ n.confirmed = yes /\ n.approvals = mine
    BY <1>2, <2>2, <2>3, <2>4, <2>5 DEF Row
  <2>7. QED
    BY <2>6 DEF st, mine, yes
<1> HIDE DEF n, r, c
<1>4. /\ StatusOf' = [StatusOf EXCEPT ![a] = n.status]
      /\ RequesterOf' = RequesterOf
      /\ ConfirmedOf' = [ConfirmedOf EXCEPT ![a] = n.confirmed]
      /\ ApprovalsOf' = [ApprovalsOf EXCEPT ![a] = n.approvals]
  BY <1>1, <1>2, <1>3 DEF StatusOf, RequesterOf, ConfirmedOf, ApprovalsOf, r
<1>5. /\ c.op # "confirm" => ConfirmedOf' = ConfirmedOf
      /\ c.op # "approve" => ApprovalsOf' = ApprovalsOf
  BY <1>1, <1>2, <1>3 DEF ConfirmedOf, ApprovalsOf, r
<1>6. /\ StatusOf[a] = r.status /\ RequesterOf[a] = r.requester
      /\ ConfirmedOf[a] = r.confirmed /\ ApprovalsOf[a] = r.approvals
  BY DEF StatusOf, RequesterOf, ConfirmedOf, ApprovalsOf, r
<1>7. CASE c.op = "confirm"
  <2>1. n.status = IF ApprovalsRequired[a] = 0 THEN "APPROVED" ELSE "PENDING"
    BY <1>3, <1>7 DEF Outcome
  <2>2. Lifecycle!Confirm(a)
    BY <1>1, <1>3, <1>4, <1>5, <1>6, <1>7, <2>1
       DEF Lifecycle!Confirm, Lifecycle!Move, Justified, StatusOf, RequesterOf,
           ConfirmedOf, ApprovalsOf
  <2>3. QED
    BY <2>2 DEF Lifecycle!LifecycleNext
<1>8. CASE c.op = "approve"
  <2>1. n.status = IF Cardinality(r.approvals) + 1 >= ApprovalsRequired[a]
                   THEN "APPROVED" ELSE "PARTIALLY_APPROVED"
    BY <1>3, <1>8 DEF Outcome
  <2>2. /\ r.status \in {"PENDING", "PARTIALLY_APPROVED"} /\ r.confirmed
        /\ c.actor \in Approvers[a] \ ({r.requester} \cup r.approvals)
    BY <1>1, <1>8 DEF Justified
  <2>3. PICK u \in Users : u = c.actor
    BY <2>2, CatalogAssumption
  <2>4. Lifecycle!Approve(a, u)
    <3>1. ConfirmedOf[a] /\ u \in Approvers[a] \ ({RequesterOf[a]} \cup ApprovalsOf[a])
      BY <1>6, <2>2, <2>3
    <3>2. StatusOf[a] \in {"PENDING", "PARTIALLY_APPROVED"}
      BY <1>6, <2>2
    <3>3. StatusOf' = [StatusOf EXCEPT ![a] = IF Cardinality(ApprovalsOf[a]) + 1 >= ApprovalsRequired[a]
                                              THEN "APPROVED" ELSE "PARTIALLY_APPROVED"]
      BY <1>4, <1>6, <2>1
    <3>4. ApprovalsOf' = [ApprovalsOf EXCEPT ![a] = @ \cup {u}]
      BY <1>3, <1>4, <1>6, <1>8, <2>3
    <3>5. RequesterOf' = RequesterOf /\ ConfirmedOf' = ConfirmedOf
      BY <1>4, <1>5, <1>8
    <3> QED
      BY <3>1, <3>2, <3>3, <3>4, <3>5 DEF Lifecycle!Approve, Lifecycle!Move,
         StatusOf, RequesterOf, ConfirmedOf, ApprovalsOf
  <2>5. QED
    BY <2>4 DEF Lifecycle!LifecycleNext
<1>9. CASE c.op \in {"reject", "expire_pending", "stale", "begin_execution"}
  <2>1. Lifecycle!Reject(a) \/ Lifecycle!Expire(a) \/ Lifecycle!GoStale(a) \/ Lifecycle!Begin(a)
    <3>1. /\ c.op = "reject" => n.status = "REJECTED"
          /\ c.op = "expire_pending" => n.status = "EXPIRED"
          /\ c.op = "stale" => n.status = "STALE"
          /\ c.op = "begin_execution" => n.status = "EXECUTING"
      BY <1>3 DEF Outcome
    <3>2. QED
      BY <1>1, <1>4, <1>5, <1>6, <1>9, <3>1
         DEF Lifecycle!Reject, Lifecycle!Expire, Lifecycle!GoStale, Lifecycle!Begin,
             Lifecycle!Move, Justified, StatusOf, RequesterOf, ConfirmedOf, ApprovalsOf
  <2>2. QED
    BY <2>1 DEF Lifecycle!LifecycleNext
<1>10. CASE c.op \in {"complete_success", "complete_failure", "reconcile"}
  <2>1. /\ c.op = "complete_success" => n.status \in {"SUCCEEDED", "UNKNOWN"}
        /\ c.op = "complete_failure" => n.status \in {"FAILED", "UNKNOWN"}
        /\ c.op = "reconcile" => n.status \in {"SUCCEEDED", "RECONCILED_NOT_APPLIED"}
    BY <1>3 DEF Outcome
  <2>2. Lifecycle!Complete(a, n.status) \/ Lifecycle!Reconcile(a, n.status)
    BY <1>1, <1>4, <1>5, <1>6, <1>10, <2>1
       DEF Lifecycle!Complete, Lifecycle!Reconcile, Lifecycle!Move, Justified,
           StatusOf, RequesterOf, ConfirmedOf, ApprovalsOf
  <2>3. n.status \in Status
    BY <1>10, <2>1 DEF Status, ExecutionStatus, FinalStatus
  <2>4. QED
    BY <2>2, <2>3 DEF Lifecycle!LifecycleNext
<1>11. QED
  BY <1>1, <1>7, <1>8, <1>9, <1>10 DEF Ops

(* storage.replace and prepare implement the abstract lifecycle of a pending
   action: no interleaving, error or crash rewrites a terminal outcome or
   skips a decision. *)
THEOREM RefinesLifecycle == Spec => ImplementsLifecycle
<1>1. Init => Lifecycle!LifecycleInit
  BY DEF Init, Lifecycle!LifecycleInit, NoRow
<1>2. IInv /\ [Next]_vars => [Lifecycle!LifecycleNext]_(Lifecycle!lifecycleVars)
  <2> SUFFICES ASSUME IInv, [Next]_vars, row' # row PROVE Lifecycle!LifecycleNext
    BY DEF Lifecycle!lifecycleVars
  <2>1. ASSUME NEW a \in Actions, NEW u \in Users, Prepare(a, u)
        PROVE  Lifecycle!LifecycleNext
    <3>1. row \in [Actions -> Row]
      BY DEF IInv, TypeOK
    <3>2. row[a].status = "ABSENT" /\ row[a].approvals = {} /\ row[a].confirmed = FALSE
      BY <2>1 DEF Prepare, IInv, RowInv, NoRow
    <3> DEFINE new == [status |-> "PENDING", requester |-> u, confirmed |-> FALSE,
                       approvals |-> {}, expires |-> now + TTL, version |-> 1]
    <3>3. row' = [row EXCEPT ![a] = new]
      BY <2>1 DEF Prepare
    <3>4. Lifecycle!Prepare(a, u)
      BY <3>1, <3>2, <3>3 DEF Lifecycle!Prepare, Lifecycle!Move
    <3>5. QED
      BY <3>4 DEF Lifecycle!LifecycleNext
  <2>2. ASSUME NEW t \in Tasks, NEW a \in Actions, Write(t, a)
        PROVE  Lifecycle!LifecycleNext
    BY <2>2, WriteImplementsStep
  <2>3. QED
    BY <2>1, <2>2 DEF Next, Step, Enter, Read, Claim, DatabaseError, Crash, Tick, SetWrites
<1>3. QED
  BY <1>1, <1>2, InvariantHolds, PTL DEF Spec, ImplementsLifecycle, Lifecycle!LifecycleSpec
-----------------------------------------------------------------------------
(* Nobody's approval is stored before the requester's confirmation. *)
DecisionInv ==
    /\ \A a \in Actions : ~row[a].confirmed => row[a].approvals = {}
    /\ StatusMatchesDecisions

(* The outcome each operation computes agrees with the approvals it stores. *)
LEMMA WriteKeepsDecisions ==
    ASSUME IInv, DecisionInv, NEW t \in Tasks, NEW a \in Actions, Write(t, a), row' # row
    PROVE  DecisionInv'
<1> DEFINE c == call[t]
           r == row[a]
           people == r.approvals \cup (IF c.op = "approve" THEN r.approvals \cup {c.actor}
                                       ELSE r.approvals)
           n == Stored(a, Replacement(c.op, a, r, c.actor, c.good))
<1>1. /\ c.op \in Ops /\ c.good \in BOOLEAN /\ c.actor \in Users \cup {"nobody"}
      /\ Justified(c.op, a, r, c.actor)
      /\ row' = [row EXCEPT ![a] = n]
  BY WriteIsCurrent
<1>2. row \in [Actions -> Row] /\ r \in Row /\ IsFiniteSet(r.approvals)
  BY DEF IInv, TypeOK, RowInv
<1>3. /\ n.status = Outcome(c.op, a, r, c.good)
      /\ n.confirmed = IF c.op = "confirm" THEN TRUE ELSE r.confirmed
      /\ n.approvals = people
  BY <1>2 DEF Stored, Replacement, Row
<1>4. /\ n.status = "PENDING" => c.op = "confirm"
      /\ n.status = "PARTIALLY_APPROVED" =>
            c.op = "approve" /\ ~(Cardinality(r.approvals) + 1 >= ApprovalsRequired[a])
  BY <1>1, <1>3 DEF Outcome, Ops
<1>5. /\ c.op = "approve" => /\ r.confirmed
                             /\ people = r.approvals \cup {c.actor}
                             /\ c.actor \notin r.approvals
      /\ c.op # "approve" => people = r.approvals
      /\ c.op = "confirm" => r.approvals = {}
  BY <1>1 DEF Justified, DecisionInv
<1>6. c.op = "approve" => Cardinality(people) = Cardinality(r.approvals) + 1
  BY <1>2, <1>5, FS_AddElement
<1>7. Cardinality(r.approvals) \in Nat /\ ApprovalsRequired[a] \in Nat
  BY <1>2, FS_CardinalityType, CatalogAssumption
<1>8. ~r.confirmed => r.approvals = {}
  BY DEF DecisionInv
<1> HIDE DEF n, r, c, people
<1>9. /\ ~n.confirmed => n.approvals = {}
      /\ n.status = "PENDING" => n.approvals = {}
      /\ n.status = "PARTIALLY_APPROVED" =>
            Cardinality(n.approvals) \in 1 .. ApprovalsRequired[a] - 1
  BY <1>3, <1>4, <1>5, <1>6, <1>7, <1>8
<1>10. QED
  BY <1>1, <1>2, <1>9 DEF DecisionInv, StatusMatchesDecisions

(* The persisted status always agrees with the approvals persisted with it. *)
THEOREM DecisionsKept == Spec => []StatusMatchesDecisions
<1>1. Init => DecisionInv
  BY DEF Init, NoRow, DecisionInv, StatusMatchesDecisions
<1>2. IInv /\ DecisionInv /\ [Next]_vars => DecisionInv'
  <2> SUFFICES ASSUME IInv, DecisionInv, [Next]_vars PROVE DecisionInv'
    OBVIOUS
  <2>1. CASE row' = row
    BY <2>1 DEF DecisionInv, StatusMatchesDecisions
  <2>2. ASSUME NEW a \in Actions, NEW u \in Users, Prepare(a, u) PROVE DecisionInv'
    BY <2>2 DEF Prepare, DecisionInv, StatusMatchesDecisions, IInv, TypeOK
  <2>3. ASSUME NEW t \in Tasks, NEW a \in Actions, Write(t, a), row' # row PROVE DecisionInv'
    BY <2>3, WriteKeepsDecisions
  <2>4. QED
    BY <2>1, <2>2, <2>3 DEF Next, Step, Enter, Read, Claim, DatabaseError, Crash, Tick, SetWrites
<1>3. DecisionInv => StatusMatchesDecisions
  BY DEF DecisionInv
<1>4. QED
  BY <1>1, <1>2, <1>3, InvariantHolds, PTL DEF Spec
-----------------------------------------------------------------------------
(* When a claim outlives its call.  One process whose calls all run to their
   end: the mutation lock is then held from a decision to its write. *)
CompleteNext ==
    \/ \E a \in Actions, u \in Users : Prepare(a, u)
    \/ \E t \in Tasks, op \in Ops \ {"stale"}, a \in Actions,
          u \in Users \cup {"nobody"}, good \in BOOLEAN : Enter(t, op, a, u, good)
    \/ \E t \in Tasks : Step(t)
    \/ Tick \/ SetWrites

CompleteSpec == Init /\ [][CompleteNext]_vars

OneProcess == \A s, t \in Tasks : ServiceOf[s] = ServiceOf[t]

Deciding(t) == call[t].pc \in {"claim", "write"}

(* A call that has decided holds the lock, and its copies are the rows. *)
CurrentInv ==
    \A t \in Tasks : Deciding(t) =>
        /\ lock[ServiceOf[t]] = t
        /\ \A a \in DOMAIN call[t].snap : row[a] = call[t].snap[a]
        /\ call[t].pc = "claim" => call[t].op = "begin_execution"

AtomicInv == IInv /\ CurrentInv /\ ClaimIsAtomic

LEMMA OneDecides ==
    ASSUME OneProcess, CurrentInv, NEW s \in Tasks, NEW t \in Tasks, Deciding(s), Deciding(t)
    PROVE  s = t
BY DEF OneProcess, CurrentInv

(* Before the decision: a new row is in no copy, and only a free lock is taken. *)
LEMMA PrepareAtomic ==
    ASSUME AtomicInv, NEW b \in Actions, NEW u \in Users, Prepare(b, u)
    PROVE  CurrentInv' /\ ClaimIsAtomic'
<1>1. /\ UNCHANGED <<execution, call, lock>> /\ row[b].status = "ABSENT"
      /\ row \in [Actions -> Row] /\ \A t \in Tasks : IsCall(call[t])
  BY DEF AtomicInv, IInv, TypeOK, Prepare
<1>2. \A a \in Actions : a # b => row'[a] = row[a]
  BY <1>1 DEF Prepare
<1>3. ASSUME NEW t \in Tasks, Deciding(t) PROVE b \notin DOMAIN call[t].snap
  <2>1. b \in DOMAIN call[t].snap => Justified(call[t].op, b, row[b], call[t].actor)
    BY <1>3 DEF AtomicInv, IInv, SnapInv, CurrentInv
  <2>2. call[t].op \in Ops
    BY <1>1 DEF IsCall
  <2> QED
    BY <1>1, <2>1, <2>2 DEF Justified, Ops, ActiveStatus
<1>4. \A t \in Tasks : DOMAIN call[t].snap \subseteq Actions
  BY <1>1 DEF IsCall
<1> QED
  BY <1>1, <1>2, <1>3, <1>4 DEF AtomicInv, CurrentInv, ClaimIsAtomic, HoldsClaim, Deciding

LEMMA EnterReadAtomic ==
    ASSUME AtomicInv, OneProcess, NEW t \in Tasks,
           Read(t) \/ \E op \in Ops \ {"stale"}, a \in Actions,
                        u \in Users \cup {"nobody"}, good \in BOOLEAN : Enter(t, op, a, u, good)
    PROVE  CurrentInv' /\ ClaimIsAtomic'
<1>1. /\ DOMAIN call = Tasks /\ IsCall(call[t])
      /\ lock \in [Services -> Tasks \cup {"free"}] /\ ServiceOf[t] \in Services
  BY ServiceAssumption DEF AtomicInv, IInv, TypeOK
<1>2. /\ UNCHANGED <<row, execution>> /\ ~Deciding(t)
      /\ \A s \in Tasks : s # t => call'[s] = call[s]
  BY <1>1 DEF Enter, Read, Deciding
<1>3. ClaimIsAtomic'
  BY <1>2 DEF AtomicInv, ClaimIsAtomic, HoldsClaim, Deciding
<1>4. ASSUME NEW op, NEW a, NEW u, NEW good, Enter(t, op, a, u, good) PROVE CurrentInv'
  <2>1. call'[t].pc = "waiting" /\ lock' = lock
    BY <1>1, <1>4 DEF Enter
  <2> QED
    BY <1>2, <2>1 DEF AtomicInv, CurrentInv, Deciding
<1>5. ASSUME Read(t) PROVE CurrentInv'
  <2> DEFINE c == call[t]
             accepted == {b \in c.target : Accepts(c.op, b, row[b], c.actor, c.good)}
  <2>1. ASSUME NEW s \in Tasks PROVE ~Deciding(s)
    <3>1. lock[ServiceOf[s]] = "free"
      BY <1>5 DEF Read, OneProcess
    <3> QED
      BY <3>1, ServiceAssumption DEF AtomicInv, CurrentInv
  <2>2. CASE call' = [call EXCEPT ![t] = Idle] /\ UNCHANGED lock
    BY <1>1, <1>2, <2>1, <2>2, IdleFacts DEF CurrentInv, Deciding
  <2>3. ASSUME NEW a \in accepted,
               call' = [call EXCEPT
                  ![t].pc = IF Intent(c.op, row[a], c.good) = "begin_execution"
                            THEN "claim" ELSE "write",
                  ![t].op = Intent(c.op, row[a], c.good),
                  ![t].snap = [b \in accepted |-> row[b]]],
               lock' = [lock EXCEPT ![ServiceOf[t]] = t]
        PROVE  CurrentInv'
    <3> DEFINE intent == Intent(c.op, row[a], c.good)
    <3>1. /\ call'[t].pc = IF intent = "begin_execution" THEN "claim" ELSE "write"
          /\ call'[t].op = intent /\ call'[t].snap = [b \in accepted |-> row[b]]
      <4> HIDE DEF accepted, intent
      <4> QED
        BY <1>1, <2>3 DEF IsCall, accepted, intent
    <3>2. lock'[ServiceOf[t]] = t
      BY <1>1, <2>3
    <3> HIDE DEF intent, accepted
    <3> QED
      BY <1>2, <2>1, <3>1, <3>2 DEF CurrentInv, Deciding
  <2> QED
    BY <1>5, <2>2, <2>3 DEF Read
<1> QED
  BY <1>3, <1>4, <1>5

(* The claim: its call goes on to write it. *)
LEMMA ClaimAtomic ==
    ASSUME AtomicInv, OneProcess, NEW t \in Tasks, Claim(t)
    PROVE  CurrentInv' /\ ClaimIsAtomic'
<1>1. /\ DOMAIN call = Tasks /\ IsCall(call[t]) /\ UNCHANGED row
      /\ execution \in [Actions -> {"NONE", "CLAIMED"} \cup ExecutionStatus]
  BY DEF AtomicInv, IInv, TypeOK, Claim
<1>2. Deciding(t) /\ call[t].pc = "claim"
  BY DEF Claim, Deciding
<1>3. \A s \in Tasks : s # t => ~Deciding(s)
  BY <1>2, OneDecides DEF AtomicInv
<1>4. \A a \in Actions : execution[a] # "CLAIMED"
  BY <1>2, <1>3 DEF AtomicInv, ClaimIsAtomic, HoldsClaim, Deciding
<1>5. CASE Return(t) /\ UNCHANGED execution
  <2>1. call'[t].pc = "idle" /\ \A s \in Tasks : s # t => call'[s] = call[s]
    BY <1>1, <1>5, IdleFacts DEF Return
  <2> QED
    BY <1>3, <1>4, <1>5, <2>1 DEF CurrentInv, ClaimIsAtomic, Deciding
<1>6. ASSUME NEW b \in DOMAIN call[t].snap, execution' = [execution EXCEPT ![b] = "CLAIMED"],
             call' = [call EXCEPT ![t].pc = "write"], UNCHANGED lock
      PROVE  CurrentInv' /\ ClaimIsAtomic'
  <2>1. /\ call'[t].pc = "write" /\ call'[t].op = call[t].op /\ call'[t].snap = call[t].snap
        /\ \A s \in Tasks : s # t => call'[s] = call[s]
    BY <1>1, <1>6 DEF IsCall
  <2>2. \A a \in Actions : a # b => execution'[a] = execution[a]
    BY <1>1, <1>6
  <2>3. CurrentInv'
    BY <1>1, <1>2, <1>3, <1>6, <2>1 DEF AtomicInv, CurrentInv, Deciding
  <2>4. HoldsClaim(t, b)'
    BY <1>2, <2>1 DEF AtomicInv, CurrentInv, HoldsClaim
  <2> QED
    BY <1>4, <2>2, <2>3, <2>4 DEF ClaimIsAtomic
<1> QED
  BY <1>5, <1>6 DEF Claim

(* The write: nothing came between, so it is stored, and a claim with it. *)
LEMMA WriteAtomic ==
    ASSUME AtomicInv, OneProcess, NEW t \in Tasks, NEW a \in Actions, Write(t, a)
    PROVE  CurrentInv' /\ ClaimIsAtomic'
<1> DEFINE c == call[t]
           new == Replacement(c.op, a, c.snap[a], c.actor, c.good)
           st == Outcome(c.op, a, row[a], c.good)
           rest == DOMAIN c.snap \ {a}
<1>1. /\ DOMAIN call = Tasks /\ IsCall(c) /\ row \in [Actions -> Row]
      /\ execution \in [Actions -> {"NONE", "CLAIMED"} \cup ExecutionStatus]
      /\ Deciding(t) /\ c.pc = "write" /\ a \in DOMAIN c.snap
      /\ SnapInv /\ TargetInv /\ ClaimInv
  BY DEF AtomicInv, IInv, TypeOK, Write, Deciding
<1>2. c.snap[a] = row[a] /\ Justified(c.op, a, row[a], c.actor)
  BY <1>1 DEF AtomicInv, CurrentInv, SnapInv
<1>3. \A s \in Tasks : s # t => ~Deciding(s)
  BY <1>1, OneDecides DEF AtomicInv
<1>4. \A b \in Actions : execution[b] = "CLAIMED" => HoldsClaim(t, b)
  BY <1>3 DEF AtomicInv, ClaimIsAtomic, HoldsClaim, Deciding
<1>5. \A b \in Actions : execution[b] = "CLAIMED" => b = a /\ c.op = "begin_execution"
  BY <1>1, <1>4 DEF HoldsClaim, TargetInv
<1>6. new.status = st /\ (c.op = "begin_execution" => st = "EXECUTING")
  BY <1>1, <1>2 DEF Replacement, Row, Outcome
<1>7. st \in ExecutionStatus => execution[a] # "NONE"
  <2>1. st \in ExecutionStatus => c.op \in {"begin_execution", "complete_success",
                                            "complete_failure", "reconcile"}
    BY <1>1, OutcomeFacts DEF IsCall
  <2>2. c.op = "begin_execution" => execution[a] = "CLAIMED"
    BY <1>1 DEF HoldsClaim, ClaimInv
  <2>3. c.op \in {"complete_success", "complete_failure", "reconcile"} => execution[a] # "NONE"
    BY <1>1, <1>2 DEF Justified, ExecutionStatus, ClaimInv
  <2> QED
    BY <2>1, <2>2, <2>3
<1>8. CanReplace(a, c.snap[a], new)
  BY <1>2, <1>6, <1>7 DEF CanReplace, VersionMatches
<1>9. /\ Replace(a, new)
      /\ \/ Return(t)
         \/ call' = [call EXCEPT ![t].snap = [b \in rest |-> @[b]]] /\ UNCHANGED lock
  BY <1>8 DEF Write
<1> HIDE DEF new, st
<1>10. ClaimIsAtomic'
  <2>1. execution' = IF st \in ExecutionStatus THEN [execution EXCEPT ![a] = st] ELSE execution
    BY <1>6, <1>9 DEF Replace
  <2>2. "EXECUTING" \in ExecutionStatus /\ "CLAIMED" \notin ExecutionStatus
    BY DEF ExecutionStatus
  <2>3. \A b \in Actions : execution'[b] # "CLAIMED"
    BY <1>1, <1>5, <1>6, <2>1, <2>2
  <2> QED
    BY <2>3 DEF ClaimIsAtomic
<1>11. \A b \in Actions : b # a => row'[b] = row[b]
  BY <1>1, <1>9 DEF Replace
<1>12. CASE Return(t)
  <2>1. call'[t].pc = "idle" /\ \A s \in Tasks : s # t => call'[s] = call[s]
    BY <1>1, <1>12, IdleFacts DEF Return
  <2> QED
    BY <1>3, <1>10, <2>1 DEF CurrentInv, Deciding
<1>13. CASE call' = [call EXCEPT ![t].snap = [b \in rest |-> @[b]]] /\ UNCHANGED lock
  <2>1. /\ call'[t].pc = "write" /\ call'[t].snap = [b \in rest |-> c.snap[b]]
        /\ \A s \in Tasks : s # t => call'[s] = call[s]
    BY <1>1, <1>13 DEF IsCall
  <2>2. rest \subseteq Actions \ {a} /\ rest \subseteq DOMAIN c.snap
    BY <1>1 DEF IsCall
  <2> HIDE DEF rest
  <2>3. \A b \in DOMAIN call'[t].snap : row'[b] = call'[t].snap[b]
    BY <1>1, <1>11, <2>1, <2>2 DEF AtomicInv, CurrentInv
  <2>4. lock'[ServiceOf[t]] = t
    BY <1>1, <1>13 DEF AtomicInv, CurrentInv
  <2> QED
    BY <1>3, <1>10, <2>1, <2>3, <2>4 DEF CurrentInv, Deciding
<1> QED
  BY <1>9, <1>12, <1>13

(* "Atomically claim an approved action" (begin_execution): in one process
   whose calls all run to their end, a claim without a running call is an
   execution.  So a second process, a failing transaction and a crash are the
   reasons, and the only ones, for the run that violates ClaimIsAtomic. *)
THEOREM ClaimsAreAtomicInOneProcess ==
    ASSUME OneProcess PROVE CompleteSpec => []ClaimIsAtomic
<1>1. Init => AtomicInv
  <2>1. Init => CurrentInv /\ ClaimIsAtomic
    BY IdleFacts DEF Init, CurrentInv, ClaimIsAtomic, Deciding
  <2> QED
    BY <2>1, InitIInv DEF AtomicInv
<1>2. AtomicInv /\ [CompleteNext]_vars => AtomicInv'
  <2> SUFFICES ASSUME AtomicInv, [CompleteNext]_vars PROVE AtomicInv'
    OBVIOUS
  <2>1. [Next]_vars
    BY DEF CompleteNext, Next
  <2>2. IInv'
    BY <2>1, NextIInv DEF AtomicInv
  <2>3. CASE Tick \/ SetWrites \/ UNCHANGED vars
    <3>1. UNCHANGED <<row, execution, call, lock>>
      BY <2>3 DEF Tick, SetWrites
    <3> QED
      BY <2>2, <3>1 DEF AtomicInv, CurrentInv, ClaimIsAtomic, HoldsClaim, Deciding
  <2> QED
    BY <2>2, <2>3, PrepareAtomic, EnterReadAtomic, ClaimAtomic, WriteAtomic
       DEF AtomicInv, CompleteNext, Step
<1>3. AtomicInv => ClaimIsAtomic
  BY DEF AtomicInv
<1> QED
  BY <1>1, <1>2, <1>3, PTL DEF CompleteSpec
=============================================================================
