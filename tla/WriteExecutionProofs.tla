------------------------ MODULE WriteExecutionProofs ------------------------
(***************************************************************************)
(* Proofs about WriteExecution for any actions, users, targets, catalog    *)
(* and failures.  The argument: where an executor stands determines what   *)
(* the store says of its action and whether its form was submitted; the    *)
(* global lock keeps every other executor out of the section in which a    *)
(* target's fingerprint is compared, written and settled.                  *)
(***************************************************************************)
EXTENDS WriteExecution, FiniteSetTheorems, TLAPS

(* Phases of the critical section, before and after the stored outcome. *)
Executing == {"parameters", "export", "gate", "baseline", "submit", "verify",
              "succeed", "fail", "uncertain"}
Rechecking == {"recheck", "promote"}
Locked == {"fingerprint", "begin"} \cup Executing \cup Rechecking

(* Phases in which the form may have been submitted, and those on the way
   to it. *)
AfterSubmit == {"verify", "succeed", "uncertain", "recheck", "promote", "ended"}
TowardsForm == {"gate", "baseline", "submit", "verify", "succeed", "uncertain",
                "recheck", "promote"}

LockInv == \A a \in Actions : phase[a] \in Locked => globalLock = a

(* What the store says of an action, by the phase of its executor. *)
PhaseInv ==
    \A a \in Actions :
        /\ status[a] \in {"ABSENT", "PENDING", "PARTIALLY_APPROVED"} => phase[a] = "none"
        /\ status[a] = "APPROVED" => confirmed[a]
        /\ phase[a] \in Executing => status[a] = "EXECUTING"
        /\ status[a] = "EXECUTING" => phase[a] \in Executing \cup {"ended"}
        /\ phase[a] \in Rechecking => status[a] = "UNKNOWN"
        /\ phase[a] = "export" => a \in Exports
        /\ phase[a] \in TowardsForm => a \notin Exports

(* A form is submitted once, by an executor that got past the submission,
   and from then on the store does not call it not executed. *)
ClickInv ==
    \A a \in Actions :
        /\ clicks[a] \in {0, 1}
        /\ clicks[a] = 0 => effect[a] = "none"
        /\ clicks[a] = 1 =>
              /\ a \notin Exports
              /\ phase[a] \in AfterSubmit
              /\ status[a] \in {"EXECUTING", "UNKNOWN", "SUCCEEDED"}

(* Where a value that an action wants comes from, once its baseline is read:
   its own click, somebody else, or what the baseline already showed. *)
SourceInv ==
    \A a \in Actions :
        /\ phase[a] \in {"submit", "verify", "succeed", "uncertain", "recheck", "promote"}
        /\ value[TargetOf[a]] \in Wanted[a]
        => \/ effect[a] = "applied" \/ a \in foreign
           \/ a \notin Unbaselined /\ seen[a] = value[TargetOf[a]]

(* What a read-back accepted has a cause, and keeps it. *)
Caused(a) == effect[a] = "applied" \/ a \in foreign

OutcomeInv ==
    \A a \in Actions :
        /\ phase[a] \in {"succeed", "promote"} => Caused(a)
        /\ status[a] = "SUCCEEDED" /\ a \notin Exports => Caused(a)

(* Once the fingerprint was found to be that of the preview, the target is
   what the preview showed or somebody outside the lock has changed it. *)
FingerprintInv ==
    \A a \in Actions :
        \/ phase[a] = "begin" /\ seen[a] = preview[a]
        \/ phase[a] \in {"parameters", "gate", "baseline", "submit"}
        => value[TargetOf[a]] = preview[a] \/ a \in disturbed

(* What a click may rest on: the requester's code and enough approvals of
   eligible people, none of them the requester. *)
Authorised(a) ==
    /\ confirmed[a]
    /\ approvals[a] \subseteq Approvers[a] \ {requester[a]}
    /\ Cardinality(approvals[a]) >= ApprovalsRequired[a]

ClickedMeansAuthorised == \A a \in Actions : clicks[a] > 0 => Authorised(a)

DecisionInv ==
    /\ status \in [Actions -> Status]
    /\ requester \in [Actions -> Users \cup {"nobody"}]
    /\ confirmed \in [Actions -> BOOLEAN]
    /\ approvals \in [Actions -> SUBSET Users]
    /\ \A a \in Actions :
         /\ IsFiniteSet(approvals[a])
         /\ approvals[a] \subseteq Approvers[a] \ {requester[a]}
         /\ status[a] = "ABSENT" => approvals[a] = {}
         /\ status[a] \in {"APPROVED"} \cup ExecutionStatus => Authorised(a)

(* Where an executor that the kill switch caught can still be. *)
Stopped(a) ==
    /\ ~writesEnabled /\ clicks[a] = 0
    /\ phase[a] \in BeforeGate \cup {"export", "fail", "ended"}

WriteInv ==
    /\ ExecutionTypeOK
    /\ LockInv /\ PhaseInv /\ ClickInv /\ SourceInv /\ OutcomeInv /\ FingerprintInv
-----------------------------------------------------------------------------
(* The parts of the invariant, and the helpers the actions are built from. *)
USE ExecutionAssumption
    DEF WriteInv, ExecutionTypeOK, LockInv, PhaseInv, ClickInv, SourceInv, OutcomeInv,
        Caused, FingerprintInv, Executing, Rechecking, Locked, AfterSubmit, TowardsForm,
        Phase, Status, ActiveStatus, ExecutionStatus, FinalStatus, Goto, Leave, Move,
        lifecycleVars, executorVars, remoteVars, historyVars, WritesAllowed

LEMMA InitWriteInv == ExecutionInit => WriteInv
BY DEF ExecutionInit, LifecycleInit

(* People and the clock: no executor runs for an action they still decide. *)
LEMMA PrepareWriteInv ==
    ASSUME WriteInv, NEW a \in Actions, NEW u \in Users, PrepareWrite(a, u)
    PROVE  WriteInv'
BY DEF PrepareWrite, Prepare

LEMMA DecideInv ==
    ASSUME WriteInv, NEW a \in Actions, Decide(a)
    PROVE  WriteInv'
<1>1. CASE Confirm(a)
  BY <1>1 DEF Decide, Confirm
<1>2. ASSUME NEW u \in Users, Approve(a, u) PROVE WriteInv'
  BY <1>2, CatalogAssumption DEF Decide, Approve
<1> QED
  BY <1>1, <1>2 DEF Decide

LEMMA EndBeforeStartInv ==
    ASSUME WriteInv, NEW a \in Actions, RejectWrite(a) \/ TouchOverdue(a)
    PROVE  WriteInv'
BY DEF RejectWrite, TouchOverdue, Reject, Expire
-----------------------------------------------------------------------------
(* Before the claim: the executor only reads, under the global lock. *)
LEMMA BeforeClaimInv ==
    ASSUME WriteInv, NEW a \in Actions, CheckPolicy(a) \/ TakeLock(a) \/ ReadFingerprint(a)
    PROVE  WriteInv'
<1>1. CASE CheckPolicy(a)
  BY <1>1 DEF CheckPolicy
<1>2. CASE TakeLock(a)
  BY <1>2 DEF TakeLock
<1>3. CASE ReadFingerprint(a)
  BY <1>3 DEF ReadFingerprint
<1> QED
  BY <1>1, <1>2, <1>3

(* The claim: from here on FingerprintInv speaks of what was compared. *)
LEMMA BeginExecutionInv ==
    ASSUME WriteInv, NEW a \in Actions, BeginExecution(a)
    PROVE  WriteInv'
BY DEF BeginExecution, Begin, GoStale, Expire, FingerprintMatches

(* From the claim to the submission. *)
LEMMA BeforeSubmitInv ==
    ASSUME WriteInv, NEW a \in Actions,
           ResolveParameters(a) \/ GenerateExport(a) \/ PassGate(a) \/ CaptureBaseline(a)
    PROVE  WriteInv'
<1>1. CASE ResolveParameters(a)
  BY <1>1 DEF ResolveParameters, Refuse
<1>2. CASE GenerateExport(a)
  BY <1>2 DEF GenerateExport, Complete, Refuse
<1>3. CASE PassGate(a)
  BY <1>3 DEF PassGate, Refuse
<1>4. CASE CaptureBaseline(a)
  BY <1>4 DEF CaptureBaseline, Postcondition, Refuse
<1> QED
  BY <1>1, <1>2, <1>3, <1>4

LEMMA SubmitFormInv ==
    ASSUME WriteInv, NEW a \in Actions, SubmitForm(a)
    PROVE  WriteInv'
BY DEF SubmitForm, AfterClick, Refuse

(* From the submission to the stored outcome: a read that finds a value
   the action wants, and another than its baseline's, has found a cause. *)
LEMMA AfterSubmitInv ==
    ASSUME WriteInv, NEW a \in Actions,
           \/ VerifyPostcondition(a) \/ RecordSuccess(a) \/ RecordFailure(a)
           \/ RecordUncertain(a) \/ RecheckPostcondition(a) \/ Promote(a)
    PROVE  WriteInv'
<1>1. /\ phase[a] \in {"verify", "recheck"} /\ Postcondition(a)
      /\ LeftBaseline(a) \/ a \in Unbaselined
      => Caused(a)
  BY DEF Postcondition, LeftBaseline
<1>2. CASE VerifyPostcondition(a)
  BY <1>1, <1>2 DEF VerifyPostcondition
<1>3. CASE RecordSuccess(a)
  <2>1. CASE Complete(a, "SUCCEEDED") /\ Leave(a)
    BY <1>3, <2>1 DEF RecordSuccess, Complete
  <2>2. CASE Goto(a, "uncertain") /\ UNCHANGED <<lifecycleVars, globalLock>>
    BY <1>3, <2>2 DEF RecordSuccess
  <2> QED
    BY <1>3, <2>1, <2>2 DEF RecordSuccess
<1>4. CASE RecordFailure(a)
  BY <1>4 DEF RecordFailure, Complete, FailureStatus
<1>5. CASE RecordUncertain(a)
  <2>1. CASE Complete(a, FailureStatus(TRUE)) /\ Goto(a, "recheck") /\ UNCHANGED globalLock
    BY <1>5, <2>1 DEF RecordUncertain, Complete, FailureStatus
  <2>2. CASE DatabaseErrors /\ Leave(a) /\ UNCHANGED lifecycleVars
    BY <1>5, <2>2 DEF RecordUncertain
  <2> QED
    BY <1>5, <2>1, <2>2 DEF RecordUncertain
<1>6. CASE RecheckPostcondition(a)
  BY <1>1, <1>6 DEF RecheckPostcondition
<1>7. CASE Promote(a)
  BY <1>7 DEF Promote, Reconcile
<1> QED
  BY <1>2, <1>3, <1>4, <1>5, <1>6, <1>7
-----------------------------------------------------------------------------
(* DIC and its other users, the operator, the clock and a crash. *)
LEMMA EnvironmentInv ==
    ASSUME WriteInv, Environment
    PROVE  WriteInv'
<1>1. ASSUME NEW a \in Actions, Apply(a) PROVE WriteInv'
  <2>1. \A b \in Actions \ {a} : phase[b] \in Locked => phase[a] = "ended"
    BY <1>1 DEF Apply
  <2> QED
    BY <1>1, <2>1 DEF Apply, AwaitsClick, AwaitsValue
<1>2. ASSUME NEW a \in Actions, Drop(a) \/ Elapse(a) PROVE WriteInv'
  BY <1>2 DEF Drop, Elapse
<1>3. ASSUME NEW x \in Targets, OutsideEdit(x) PROVE WriteInv'
  BY <1>3 DEF OutsideEdit, AwaitsClick, AwaitsValue
<1>4. CASE ThrowKillSwitch
  BY <1>4 DEF ThrowKillSwitch
<1>5. CASE Crash
  BY <1>5 DEF Crash
<1> QED
  BY <1>1, <1>2, <1>3, <1>4, <1>5 DEF Environment

LEMMA NextWriteInv == WriteInv /\ [ExecutionNext]_vars => WriteInv'
<1> SUFFICES ASSUME WriteInv, [ExecutionNext]_vars PROVE WriteInv'
  OBVIOUS
<1>1. ASSUME NEW a \in Actions, NEW u \in Users, PrepareWrite(a, u) PROVE WriteInv'
  BY ONLY <1>1, WriteInv, PrepareWriteInv
<1>2. ASSUME NEW a \in Actions, Decide(a) \/ RejectWrite(a) \/ TouchOverdue(a) PROVE WriteInv'
  BY ONLY <1>2, WriteInv, DecideInv, EndBeforeStartInv
<1>3. ASSUME NEW a \in Actions, Executor(a) PROVE WriteInv'
  BY ONLY <1>3, WriteInv, BeforeClaimInv, BeginExecutionInv, BeforeSubmitInv, SubmitFormInv,
     AfterSubmitInv DEF Executor
<1>4. CASE Environment
  BY ONLY <1>4, WriteInv, EnvironmentInv
<1>5. CASE UNCHANGED vars
  BY <1>5 DEF vars
<1> QED
  BY ONLY <1>1, <1>2, <1>3, <1>4, <1>5, [ExecutionNext]_vars DEF ExecutionNext
-----------------------------------------------------------------------------
(* The executor's phases, the store and DIC agree in every behaviour. *)
THEOREM WriteInvariantHolds == ExecutionSpec => []WriteInv
BY InitWriteInv, NextWriteInv, PTL DEF ExecutionSpec

(* Type correctness. *)
THEOREM ExecutionTypeCorrect == ExecutionSpec => []ExecutionTypeOK
<1>1. WriteInv => ExecutionTypeOK
  OBVIOUS
<1> QED
  BY <1>1, WriteInvariantHolds, PTL

(* execute_prepared: whatever times out, fails or crashes, the remote form of
   an action is submitted at most once. *)
THEOREM OneDispatch == ExecutionSpec => []AtMostOneDispatch
<1>1. WriteInv => AtMostOneDispatch
  BY DEF AtMostOneDispatch
<1> QED
  BY <1>1, WriteInvariantHolds, PTL

(* complete_failure, reject, expiry and the stale check: an action that is
   recorded as not executed has no click, applied or on its way. *)
THEOREM NotExecutedIsTrue == ExecutionSpec => []NotExecutedMeansNoEffect
<1>1. WriteInv => NotExecutedMeansNoEffect
  BY DEF NotExecutedMeansNoEffect
<1> QED
  BY <1>1, WriteInvariantHolds, PTL

(* The read-backs, complete_success and the promotion after a re-check: what
   is recorded as SUCCEEDED was applied by DIC, or somebody else brought the
   same about after the baseline. *)
THEOREM SuccessIsCaused == ExecutionSpec => []SuccessHasACause
<1>1. WriteInv => SuccessHasACause
  BY DEF SuccessHasACause
<1> QED
  BY <1>1, WriteInvariantHolds, PTL

(* Only SubmitForm clicks. *)
LEMMA OnlySubmitClicks ==
    ASSUME WriteInv, [ExecutionNext]_vars, NEW a \in Actions, clicks'[a] # clicks[a]
    PROVE  SubmitForm(a)
<1>1. ASSUME NEW b \in Actions, SubmitForm(b), b # a PROVE FALSE
  BY <1>1 DEF SubmitForm
<1>2. CASE UNCHANGED clicks
  BY <1>2
<1>3. ASSUME NEW b \in Actions, Executor(b), ~SubmitForm(b) PROVE UNCHANGED clicks
  BY <1>3 DEF Executor, CheckPolicy, TakeLock, ReadFingerprint, BeginExecution,
     ResolveParameters, GenerateExport, PassGate, CaptureBaseline, VerifyPostcondition,
     RecordSuccess, RecordFailure, RecordUncertain, RecheckPostcondition, Promote
<1>4. ASSUME NEW b \in Actions, Decide(b) \/ RejectWrite(b) \/ TouchOverdue(b)
      PROVE UNCHANGED clicks
  BY <1>4 DEF Decide, RejectWrite, TouchOverdue
<1>5. ASSUME NEW b \in Actions, NEW u \in Users, PrepareWrite(b, u) PROVE UNCHANGED clicks
  BY <1>5 DEF PrepareWrite
<1>6. CASE Environment
  BY <1>6 DEF Environment, Apply, Drop, Elapse, OutsideEdit, ThrowKillSwitch, Crash
<1>7. CASE UNCHANGED vars
  BY <1>7 DEF vars
<1> QED
  BY ONLY <1>1, <1>2, <1>3, <1>4, <1>5, <1>6, <1>7, [ExecutionNext]_vars,
     clicks'[a] # clicks[a] DEF ExecutionNext

(* _state_fingerprint and _global_write_lock: a click replaces the value its
   preview showed, unless an edit in DIC or a click that outlived its executor
   changed the target after the fingerprint was read. *)
THEOREM NothingOverwrittenBlindly == ExecutionSpec => NoBlindOverwrite
<1> DEFINE Honoured ==
      \A a \in Actions : clicks'[a] # clicks[a] =>
          value[TargetOf[a]] = preview[a] \/ a \in disturbed
<1>1. WriteInv /\ [ExecutionNext]_vars => [Honoured]_vars
  <2> SUFFICES ASSUME WriteInv, [ExecutionNext]_vars, NEW a \in Actions,
                      clicks'[a] # clicks[a]
               PROVE  value[TargetOf[a]] = preview[a] \/ a \in disturbed
    OBVIOUS
  <2>1. phase[a] = "submit"
    BY OnlySubmitClicks DEF SubmitForm
  <2> QED
    BY <2>1
<1> QED
  BY <1>1, WriteInvariantHolds, PTL DEF ExecutionSpec, NoBlindOverwrite
-----------------------------------------------------------------------------
(* An execution that ended without a stored outcome: its claim is spent. *)
Interrupted(a) == status[a] = "EXECUTING" /\ phase[a] = "ended"

(* A step of one executor or one person concerns one action, and an
   interrupted action has no step left. *)
LEMMA InterruptedStays ==
    ASSUME WriteInv, [ExecutionNext]_vars, NEW a \in Actions, Interrupted(a)
    PROVE  Interrupted(a)'
<1> USE DEF Interrupted
<1>1. ASSUME NEW b \in Actions, Executor(b) PROVE Interrupted(a)'
  <2>1. b # a
    BY <1>1 DEF Executor, CheckPolicy, TakeLock, ReadFingerprint, BeginExecution,
       ResolveParameters, GenerateExport, PassGate, CaptureBaseline, SubmitForm,
       VerifyPostcondition, RecordSuccess, RecordFailure, RecordUncertain,
       RecheckPostcondition, Promote
  <2>2. CASE CheckPolicy(b) \/ TakeLock(b) \/ ReadFingerprint(b)
    BY <2>1, <2>2 DEF CheckPolicy, TakeLock, ReadFingerprint
  <2>3. CASE BeginExecution(b)
    BY <2>1, <2>3 DEF BeginExecution, Expire, GoStale, Begin
  <2>4. CASE ResolveParameters(b) \/ GenerateExport(b) \/ PassGate(b)
    BY <2>1, <2>4 DEF ResolveParameters, GenerateExport, PassGate, Refuse, Complete
  <2>5. CASE CaptureBaseline(b) \/ SubmitForm(b) \/ VerifyPostcondition(b)
    BY <2>1, <2>5 DEF CaptureBaseline, SubmitForm, VerifyPostcondition, Refuse
  <2>6. CASE RecordSuccess(b) \/ RecordFailure(b) \/ RecordUncertain(b)
    <3>1. CASE RecordSuccess(b)
      BY <2>1, <3>1 DEF RecordSuccess, Complete
    <3>2. CASE RecordFailure(b)
      BY <2>1, <3>2 DEF RecordFailure, Complete, FailureStatus
    <3>3. CASE RecordUncertain(b)
      BY <2>1, <3>3 DEF RecordUncertain, Complete, FailureStatus
    <3> QED
      BY ONLY <2>6, <3>1, <3>2, <3>3
  <2>7. CASE RecheckPostcondition(b) \/ Promote(b)
    BY <2>1, <2>7 DEF RecheckPostcondition, Promote, Reconcile
  <2> QED
    BY ONLY <1>1, <2>2, <2>3, <2>4, <2>5, <2>6, <2>7 DEF Executor
<1>2. ASSUME NEW b \in Actions, NEW u \in Users, PrepareWrite(b, u) PROVE Interrupted(a)'
  BY <1>2 DEF PrepareWrite, Prepare
<1>3. ASSUME NEW b \in Actions, Decide(b) PROVE Interrupted(a)'
  <2>1. CASE Confirm(b)
    BY <1>3, <2>1 DEF Decide, Confirm
  <2>2. ASSUME NEW u \in Users, Approve(b, u) PROVE Interrupted(a)'
    BY <1>3, <2>2 DEF Decide, Approve
  <2> QED
    BY <1>3, <2>1, <2>2 DEF Decide
<1>4. ASSUME NEW b \in Actions, RejectWrite(b) \/ TouchOverdue(b) PROVE Interrupted(a)'
  BY <1>4 DEF RejectWrite, TouchOverdue, Reject, Expire
<1>5. CASE Environment
  BY <1>5 DEF Environment, Apply, Drop, Elapse, OutsideEdit, ThrowKillSwitch, Crash
<1>6. CASE UNCHANGED vars
  BY <1>6 DEF vars
<1> QED
  BY ONLY <1>1, <1>2, <1>3, <1>4, <1>5, <1>6, [ExecutionNext]_vars DEF ExecutionNext

(* A crash or a failed store while an action is EXECUTING: nothing starts
   it again and nothing gives it an outcome nobody read from DIC. *)
THEOREM InterruptedIsNotSettled == ExecutionSpec => InterruptedStaysOpen
<1> DEFINE Stays ==
      \A a \in Actions : status[a] = "EXECUTING" /\ phase[a] = "ended" =>
          status'[a] = "EXECUTING" /\ phase'[a] = "ended" /\ clicks'[a] = clicks[a]
<1>1. WriteInv /\ [ExecutionNext]_vars => [Stays]_vars
  <2> SUFFICES ASSUME WriteInv, [ExecutionNext]_vars, NEW a \in Actions, Interrupted(a)
               PROVE  Interrupted(a)' /\ clicks'[a] = clicks[a]
    BY DEF Interrupted
  <2>1. clicks'[a] = clicks[a]
    BY OnlySubmitClicks DEF SubmitForm, Interrupted
  <2> QED
    BY ONLY <2>1, InterruptedStays, WriteInv, [ExecutionNext]_vars, Interrupted(a), a \in Actions
<1> QED
  BY <1>1, WriteInvariantHolds, PTL DEF ExecutionSpec, InterruptedStaysOpen
-----------------------------------------------------------------------------
(* RuntimeFeatureFlags: a write that has not passed the gate of
   DicService.execute when the kill switch is thrown never reaches DIC. *)
THEOREM KillSwitchHolds == ExecutionSpec => KillSwitchStops
<1> SUFFICES ASSUME NEW a \in Actions
             PROVE  ExecutionSpec =>
                      [](~writesEnabled /\ phase[a] \in BeforeGate => [](clicks[a] = 0))
  BY DEF KillSwitchStops
<1>1. WriteInv /\ ~writesEnabled /\ phase[a] \in BeforeGate => Stopped(a)
  BY DEF Stopped, BeforeGate
<1>2. WriteInv /\ Stopped(a) /\ [ExecutionNext]_vars => Stopped(a)'
  <2> SUFFICES ASSUME WriteInv, Stopped(a), [ExecutionNext]_vars PROVE Stopped(a)'
    OBVIOUS
  <2> USE DEF Stopped, BeforeGate
  <2>1. phase[a] # "submit" /\ clicks'[a] = clicks[a]
    BY OnlySubmitClicks DEF SubmitForm
  <2>2. ASSUME NEW b \in Actions, Executor(b) PROVE Stopped(a)'
    <3>1. CASE CheckPolicy(b) \/ TakeLock(b) \/ ReadFingerprint(b) \/ BeginExecution(b)
      BY <2>1, <3>1 DEF CheckPolicy, TakeLock, ReadFingerprint, BeginExecution
    <3>2. CASE ResolveParameters(b) \/ GenerateExport(b) \/ PassGate(b)
      BY <2>1, <3>2 DEF ResolveParameters, GenerateExport, PassGate, Refuse
    <3>3. CASE CaptureBaseline(b) \/ SubmitForm(b) \/ VerifyPostcondition(b)
      BY <2>1, <3>3 DEF CaptureBaseline, SubmitForm, VerifyPostcondition, Refuse
    <3>4. CASE RecordSuccess(b)
      BY <2>1, <3>4 DEF RecordSuccess
    <3>5. CASE RecordFailure(b)
      BY <2>1, <3>5 DEF RecordFailure, Complete, FailureStatus
    <3>6. CASE RecordUncertain(b)
      BY <2>1, <3>6 DEF RecordUncertain, Complete, FailureStatus
    <3>7. CASE RecheckPostcondition(b) \/ Promote(b)
      BY <2>1, <3>7 DEF RecheckPostcondition, Promote
    <3> QED
      BY ONLY <2>2, <3>1, <3>2, <3>3, <3>4, <3>5, <3>6, <3>7 DEF Executor
  <2>3. ASSUME NEW b \in Actions, RejectWrite(b) \/ TouchOverdue(b) PROVE Stopped(a)'
    BY <2>1, <2>3 DEF RejectWrite, TouchOverdue
  <2>4. ASSUME NEW b \in Actions, Decide(b) \/ \E u \in Users : PrepareWrite(b, u) PROVE FALSE
    BY <2>4 DEF Decide, PrepareWrite
  <2>5. CASE Environment
    BY <2>1, <2>5 DEF Environment, Apply, Drop, Elapse, OutsideEdit, ThrowKillSwitch, Crash
  <2>6. CASE UNCHANGED vars
    BY <2>6 DEF vars
  <2> QED
    BY ONLY <2>2, <2>3, <2>4, <2>5, <2>6, [ExecutionNext]_vars DEF ExecutionNext
<1>3. Stopped(a) => clicks[a] = 0
  BY DEF Stopped
<1> QED
  BY <1>1, <1>2, <1>3, WriteInvariantHolds, PTL DEF ExecutionSpec

(* The comment on the lock in _execute_approved: while the store works and
   the process lives, the critical section ends with an outcome stored.  So
   failing stores and crashes are the only reasons for the run that violates
   this property. *)
THEOREM OutcomeStoredWithoutFaults ==
    ASSUME ~DatabaseErrors, ~Crashes
    PROVE  ExecutionSpec => OutcomeStoredBeforeRelease
<1> DEFINE Stored ==
      \A a \in Actions : globalLock = a /\ globalLock' # a => status'[a] # "EXECUTING"
<1>1. WriteInv /\ [ExecutionNext]_vars => [Stored]_vars
  <2> SUFFICES ASSUME WriteInv, [ExecutionNext]_vars, NEW a \in Actions,
                      globalLock = a, globalLock' # a
               PROVE  status'[a] # "EXECUTING"
    OBVIOUS
  <2>1. ASSUME NEW b \in Actions, Executor(b) PROVE status'[a] # "EXECUTING"
    <3>1. phase[b] \in Locked => b = a
      OBVIOUS
    <3>2. CASE CheckPolicy(b) \/ TakeLock(b) \/ ReadFingerprint(b) \/ BeginExecution(b)
      BY <3>1, <3>2 DEF CheckPolicy, TakeLock, ReadFingerprint, BeginExecution, Expire,
         GoStale, Begin
    <3>3. CASE ResolveParameters(b) \/ PassGate(b) \/ CaptureBaseline(b) \/ SubmitForm(b)
      BY <3>3 DEF ResolveParameters, PassGate, CaptureBaseline, SubmitForm, Refuse
    <3>4. CASE GenerateExport(b) \/ RecordSuccess(b) \/ RecordFailure(b) \/ RecordUncertain(b)
      BY <3>1, <3>4 DEF GenerateExport, RecordSuccess, RecordFailure, RecordUncertain,
         Complete, FailureStatus, Refuse
    <3>5. CASE VerifyPostcondition(b) \/ RecheckPostcondition(b) \/ Promote(b)
      BY <3>1, <3>5 DEF VerifyPostcondition, RecheckPostcondition, Promote, Reconcile
    <3> QED
      BY ONLY <2>1, <3>2, <3>3, <3>4, <3>5 DEF Executor
  <2>2. ASSUME NEW b \in Actions, Decide(b) \/ RejectWrite(b) \/ TouchOverdue(b) PROVE FALSE
    BY <2>2 DEF Decide, RejectWrite, TouchOverdue
  <2>3. ASSUME NEW b \in Actions, NEW u \in Users, PrepareWrite(b, u) PROVE FALSE
    BY <2>3 DEF PrepareWrite
  <2>4. ~Environment
    BY DEF Environment, Apply, Drop, Elapse, OutsideEdit, ThrowKillSwitch, Crash
  <2>5. ~UNCHANGED vars
    BY DEF vars
  <2> QED
    BY ONLY <2>1, <2>2, <2>3, <2>4, <2>5, [ExecutionNext]_vars DEF ExecutionNext
<1> QED
  BY <1>1, WriteInvariantHolds, PTL DEF ExecutionSpec, OutcomeStoredBeforeRelease
-----------------------------------------------------------------------------
(* What the executors do to the store are steps of the lifecycle. *)
LEMMA ExecutionFollowsLifecycle == [ExecutionNext]_vars => [LifecycleNext]_lifecycleVars
<1> SUFFICES ASSUME [ExecutionNext]_vars PROVE LifecycleNext \/ UNCHANGED lifecycleVars
  OBVIOUS
<1>1. ASSUME NEW a \in Actions, NEW u \in Users, PrepareWrite(a, u) PROVE LifecycleNext
  BY ONLY <1>1 DEF PrepareWrite, LifecycleNext
<1>2. ASSUME NEW a \in Actions, Decide(a) PROVE LifecycleNext
  BY ONLY <1>2 DEF Decide, LifecycleNext
<1>3. ASSUME NEW a \in Actions, RejectWrite(a) \/ TouchOverdue(a) PROVE LifecycleNext
  BY ONLY <1>3 DEF RejectWrite, TouchOverdue, LifecycleNext
<1>4. ASSUME NEW a \in Actions, Executor(a) PROVE LifecycleNext \/ UNCHANGED lifecycleVars
  <2>1. CASE BeginExecution(a)
    BY ONLY <2>1 DEF BeginExecution, LifecycleNext
  <2>2. CASE GenerateExport(a) \/ RecordSuccess(a) \/ RecordFailure(a) \/ RecordUncertain(a)
    <3>1. {"SUCCEEDED", FailureStatus(FALSE), FailureStatus(TRUE)} \subseteq Status
      BY DEF FailureStatus
    <3> QED
      BY ONLY <2>2, <3>1 DEF GenerateExport, RecordSuccess, RecordFailure, RecordUncertain,
         LifecycleNext
  <2>3. CASE Promote(a)
    <3>1. "SUCCEEDED" \in Status
      OBVIOUS
    <3> QED
      BY ONLY <2>3, <3>1 DEF Promote, LifecycleNext
  <2> QED
    BY ONLY <1>4, <2>1, <2>2, <2>3 DEF Executor, CheckPolicy, TakeLock, ReadFingerprint,
       ResolveParameters, PassGate, CaptureBaseline, SubmitForm, VerifyPostcondition,
       RecheckPostcondition
<1>5. CASE Environment
  BY ONLY <1>5 DEF Environment, Apply, Drop, Elapse, OutsideEdit, ThrowKillSwitch, Crash
<1>6. CASE UNCHANGED vars
  BY ONLY <1>6 DEF vars
<1> QED
  BY ONLY <1>1, <1>2, <1>3, <1>4, <1>5, <1>6, [ExecutionNext]_vars DEF ExecutionNext

(* The write path implements the approval workflow's lifecycle: prepare,
   decisions, claim, outcome and promotion come in its order only. *)
THEOREM ExecutionRefinesLifecycle == ExecutionSpec => LifecycleSpec
<1>1. ExecutionInit => LifecycleInit
  BY DEF ExecutionInit
<1> QED
  BY <1>1, ExecutionFollowsLifecycle, PTL DEF ExecutionSpec, LifecycleSpec

(* A set of approvals grows by one approver who is new and eligible. *)
LEMMA ApproveDecisionInv ==
    ASSUME DecisionInv, NEW a \in Actions, NEW u \in Users, Approve(a, u)
    PROVE  DecisionInv'
<1>1. /\ IsFiniteSet(approvals[a] \cup {u})
      /\ Cardinality(approvals[a] \cup {u}) = Cardinality(approvals[a]) + 1
  BY FS_AddElement DEF DecisionInv, Approve
<1> QED
  BY <1>1 DEF DecisionInv, Approve, Authorised

LEMMA LifecycleDecisionInv == DecisionInv /\ [LifecycleNext]_lifecycleVars => DecisionInv'
<1> SUFFICES ASSUME DecisionInv, [LifecycleNext]_lifecycleVars PROVE DecisionInv'
  OBVIOUS
<1> USE DEF DecisionInv, Authorised
<1>1. ASSUME NEW a \in Actions, NEW u \in Users, Prepare(a, u) PROVE DecisionInv'
  BY <1>1 DEF Prepare
<1>2. ASSUME NEW a \in Actions, NEW u \in Users, Approve(a, u) PROVE DecisionInv'
  BY ONLY <1>2, DecisionInv, ApproveDecisionInv
<1>3. ASSUME NEW a \in Actions, Confirm(a) PROVE DecisionInv'
  <2>1. Cardinality(approvals[a]) \in Nat
    BY FS_CardinalityType
  <2> QED
    BY <1>3, <2>1 DEF Confirm
<1>4. ASSUME NEW a \in Actions, Reject(a) \/ Expire(a) \/ GoStale(a) \/ Begin(a)
      PROVE  DecisionInv'
  BY <1>4 DEF Reject, Expire, GoStale, Begin
<1>5. ASSUME NEW a \in Actions, NEW s \in Status, Complete(a, s) \/ Reconcile(a, s)
      PROVE  DecisionInv'
  BY <1>5 DEF Complete, Reconcile
<1>6. CASE UNCHANGED lifecycleVars
  BY <1>6
<1> QED
  BY ONLY <1>1, <1>2, <1>3, <1>4, <1>5, <1>6, [LifecycleNext]_lifecycleVars DEF LifecycleNext

(* The composition of store and executors: no form of DIC is submitted for an
   action that its requester did not confirm, or that too few eligible people,
   or the requester, approved. *)
THEOREM NoClickWithoutApproval == ExecutionSpec => []ClickedMeansAuthorised
<1>1. ExecutionInit => DecisionInv
  BY FS_EmptySet DEF ExecutionInit, LifecycleInit, DecisionInv
<1>2. WriteInv /\ DecisionInv => ClickedMeansAuthorised
  BY DEF DecisionInv, ClickedMeansAuthorised
<1> QED
  BY <1>1, <1>2, ExecutionFollowsLifecycle, LifecycleDecisionInv, WriteInvariantHolds, PTL
     DEF ExecutionSpec
=============================================================================
