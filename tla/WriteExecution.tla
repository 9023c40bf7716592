--------------------------- MODULE WriteExecution ---------------------------
(***************************************************************************)
(* The approved-write path: BhDicApplication.approve / _execute_approved / *)
(* _execute_write_critical_section, DicService.execute and the Playwright  *)
(* adapter's execute_prepared and reconcile, in one bot process.           *)
(*                                                                         *)
(* The durable operations of the approval store are the steps of           *)
(* ApprovalLifecycle, which Approvals implements.  Around them this module *)
(* adds one executor per approved action, the global write lock, the       *)
(* fingerprint check, the single click on the remote form and the          *)
(* read-backs that decide what is recorded.  The remote system (DIC) may   *)
(* apply a click at any later time or never, and people edit it.           *)
(*                                                                         *)
(* Data: a target has one value, all that its page shows; Wanted[a] are    *)
(* the values under which the postcondition of action a holds.  People and *)
(* other actions may bring about the very same, and nothing in a read      *)
(* tells who did.  A fingerprint or a baseline is the value read.          *)
(* The per-target lock is left out: it is only ever taken inside the       *)
(* global lock, so it is never contended.                                  *)
(***************************************************************************)
EXTENDS ApprovalLifecycle

CONSTANTS
    Targets,        \* employees, resources
    TargetOf,       \* the target each action writes
    Values,         \* values of a target; "initial" is what it has at first
    Wanted,         \* the values each action's postcondition accepts
    Uploads,        \* actions that consume a quarantined file (EMP-DOC-002)
    Exports,        \* actions that only generate a file (EMP-EXPORT-001)
    Unbaselined,    \* actions verified without a baseline (EMP-BAL-002, EMP-RBAC-002)
    DatabaseErrors, \* whether the store may fail
    Crashes         \* whether the process may die

ASSUME ExecutionAssumption ==
    /\ TargetOf \in [Actions -> Targets] /\ Wanted \in [Actions -> SUBSET Values]
    /\ "initial" \in Values /\ "UNSTABLE" \notin Values /\ "free" \notin Actions
    /\ Uploads \subseteq Actions /\ Exports \subseteq Actions /\ Unbaselined \subseteq Actions
    /\ DatabaseErrors \in BOOLEAN /\ Crashes \in BOOLEAN

VARIABLES
    phase,          \* where the executor of each action stands
    globalLock,     \* _global_write_lock: the action holding it or "free"
    preview,        \* the fingerprint stored with the pending action
    seen,           \* the executor's last reading of the target
    clicks,         \* how often the remote form was submitted
    effect,         \* DIC's side of a click
    value,          \* DIC: the value of each target
    foreign,        \* history: whose goal somebody else reached (below)
    disturbed,      \* history: whose target changed since its fingerprint (below)
    writesEnabled,  \* ENABLE_WRITE_ACTIONS
    overdue         \* actions whose approval TTL elapsed

executorVars == <<phase, globalLock, seen>>
historyVars  == <<foreign, disturbed>>
remoteVars   == <<clicks, effect, value, historyVars>>
vars == <<lifecycleVars, executorVars, remoteVars, preview, writesEnabled, overdue>>

Phase == {"none", "policy", "lock", "fingerprint", "begin", "parameters", "export", "gate",
          "baseline", "submit", "verify", "succeed", "fail", "uncertain", "recheck",
          "promote", "ended"}

ExecutionInit ==
    /\ LifecycleInit
    /\ phase = [a \in Actions |-> "none"]
    /\ globalLock = "free"
    /\ preview = [a \in Actions |-> "initial"]
    /\ seen = [a \in Actions |-> "initial"]
    /\ clicks = [a \in Actions |-> 0]
    /\ effect = [a \in Actions |-> "none"]
    /\ value = [x \in Targets |-> "initial"]
    /\ foreign = {} /\ disturbed = {}
    /\ writesEnabled = TRUE
    /\ overdue = {}

Goto(a, p) == phase' = [phase EXCEPT ![a] = p]

(* The two history variables record what the environment did and are read by
   no action.  foreign: the actions in whose target, between their baseline and
   their end, somebody else put a value they want, and those without a baseline
   that found one there.  disturbed: the actions whose target was
   changed between their fingerprint and their click, by an edit in DIC itself
   or by a click that DIC applied after the executor that made it had ended. *)
AwaitsClick(x) == {a \in Actions : TargetOf[a] = x /\ phase[a] \in
    {"begin", "parameters", "gate", "baseline", "submit"}}
AwaitsValue(x, v) == {a \in Actions : TargetOf[a] = x /\ v \in Wanted[a] /\ phase[a] \in
    {"submit", "verify", "succeed", "uncertain", "recheck", "promote"}}

LeaveKeepingLock(a) == Goto(a, "ended") /\ UNCHANGED globalLock   \* fault: no release

(* The critical section returns or raises: "async with" frees the lock. *)
Leave(a) == Goto(a, "ended") /\ globalLock' = "free"

AlwaysAllowed == TRUE    \* fault: the kill switch is not consulted

WritesAllowed == writesEnabled
-----------------------------------------------------------------------------
(* _prepare_write: the preview is computed from the target's state. *)
PrepareWrite(a, u) ==
    /\ WritesAllowed
    /\ Prepare(a, u)
    /\ preview' = [preview EXCEPT ![a] = value[TargetOf[a]]]
    /\ UNCHANGED <<executorVars, remoteVars, writesEnabled, overdue>>

(* approve: the decision that completes the approval also executes, in the
   same call; nothing else ever starts an executor. *)
Decide(a) ==
    /\ WritesAllowed
    /\ a \notin overdue
    /\ Confirm(a) \/ \E u \in Users : Approve(a, u)
    /\ Goto(a, IF status'[a] = "APPROVED" THEN "policy" ELSE phase[a])
    /\ UNCHANGED <<globalLock, seen, preview, remoteVars, writesEnabled, overdue>>

RejectWrite(a) ==
    /\ a \notin overdue
    /\ Reject(a)
    /\ UNCHANGED <<executorVars, preview, remoteVars, writesEnabled, overdue>>

(* Any call that touches an overdue action expires it. *)
TouchOverdue(a) ==
    /\ a \in overdue
    /\ Expire(a)
    /\ UNCHANGED <<executorVars, preview, remoteVars, writesEnabled, overdue>>
-----------------------------------------------------------------------------
(* Payload decoding, requester binding and the policy are evaluated again,
   outside the lock. *)
CheckPolicy(a) ==
    /\ phase[a] = "policy"
    /\ Goto(a, "lock") \/ Goto(a, "ended")
    /\ UNCHANGED <<lifecycleVars, globalLock, seen, preview, remoteVars, writesEnabled, overdue>>

TakeLock(a) ==
    /\ phase[a] = "lock"
    /\ globalLock = "free"
    /\ globalLock' = a
    /\ Goto(a, "fingerprint")
    /\ UNCHANGED <<lifecycleVars, seen, preview, remoteVars, writesEnabled, overdue>>

(* _state_fingerprint: two digests of the target; when they differ the
   fingerprint is "UNSTABLE"; a failing read ends the call. *)
ReadFingerprint(a) ==
    /\ phase[a] = "fingerprint"
    /\ \/ /\ \E v \in {value[TargetOf[a]], "UNSTABLE"} : seen' = [seen EXCEPT ![a] = v]
          /\ Goto(a, "begin")
          /\ UNCHANGED globalLock
       \/ Leave(a) /\ UNCHANGED seen
    /\ disturbed' = disturbed \ {a}
    /\ UNCHANGED <<lifecycleVars, preview, clicks, effect, value, foreign, writesEnabled, overdue>>

AnyFingerprint(a) == TRUE    \* fault: the preview's fingerprint is not compared

FingerprintMatches(a) == seen[a] = preview[a]

(* begin_execution *)
BeginExecution(a) ==
    /\ phase[a] = "begin"
    /\ LET eligible == WritesAllowed /\ status[a] = "APPROVED" IN
       \/ ~eligible /\ Leave(a) /\ UNCHANGED lifecycleVars
       \/ eligible /\ a \in overdue /\ Expire(a) /\ Leave(a)
       \/ eligible /\ a \notin overdue /\ ~FingerprintMatches(a) /\ GoStale(a) /\ Leave(a)
       \/ /\ eligible /\ a \notin overdue /\ FingerprintMatches(a)
          /\ Begin(a) /\ Goto(a, "parameters") /\ UNCHANGED globalLock
       \/ DatabaseErrors /\ Leave(a) /\ UNCHANGED lifecycleVars
    /\ UNCHANGED <<seen, preview, remoteVars, writesEnabled, overdue>>

RefuseUnrecorded(a) == Leave(a)    \* fault: the claim is dropped on the floor

(* A deterministic failure before dispatch: complete_failure comes next. *)
Refuse(a) == Goto(a, "fail") /\ UNCHANGED globalLock

(* _execution_parameters: an upload is claimed now and may be gone. *)
ResolveParameters(a) ==
    /\ phase[a] = "parameters"
    /\ \/ Goto(a, IF a \in Exports THEN "export" ELSE "gate") /\ UNCHANGED globalLock
       \/ a \in Uploads /\ Refuse(a)
    /\ UNCHANGED <<lifecycleVars, seen, preview, remoteVars, writesEnabled, overdue>>

(* _generate_employee_export, then complete_success; a failure of either is
   recorded as deterministic, since nothing was written remotely. *)
GenerateExport(a) ==
    /\ phase[a] = "export"
    /\ \/ Complete(a, "SUCCEEDED") /\ Leave(a)
       \/ Refuse(a) /\ UNCHANGED lifecycleVars
    /\ UNCHANGED <<seen, preview, remoteVars, writesEnabled, overdue>>

(* DicService._build_prepared: flags and expiry once more. *)
PassGate(a) ==
    /\ phase[a] = "gate"
    /\ IF WritesAllowed /\ a \notin overdue
       THEN Goto(a, "baseline") /\ UNCHANGED globalLock
       ELSE Refuse(a)
    /\ UNCHANGED <<lifecycleVars, seen, preview, remoteVars, writesEnabled, overdue>>

(* The postcondition holds on the live page. *)
Postcondition(a) == value[TargetOf[a]] \in Wanted[a]

(* _capture_write_baseline: a read that may fail.  Where nothing would change
   most writes refuse; the others see no transition afterwards. *)
CaptureBaseline(a) ==
    /\ phase[a] = "baseline"
    /\ \/ /\ seen' = [seen EXCEPT ![a] = value[TargetOf[a]]]
          /\ foreign' = IF a \in Unbaselined /\ Postcondition(a)
                        THEN foreign \cup {a} ELSE foreign \ {a}
          /\ Goto(a, "submit") /\ UNCHANGED globalLock
       \/ Refuse(a) /\ UNCHANGED <<seen, foreign>>
    /\ UNCHANGED <<lifecycleVars, preview, clicks, effect, value, disturbed, writesEnabled, overdue>>

RetriedLikeARead == {"verify", "submit"}    \* fault: a timed-out write is retried
UnhandledOutcome == {"reconcile"}           \* fault: a phase nobody handles

(* Success, timeout, connection error and UI error after the click all lead
   to a read-back, never to another click. *)
AfterClick == {"verify"}

(* run_write: an open circuit, a lost session or invalid parameters raise
   before the click; a timeout or UI error may also come before it. *)
SubmitForm(a) ==
    /\ phase[a] = "submit"
    /\ \/ Refuse(a) /\ UNCHANGED remoteVars
       \/ Goto(a, "verify") /\ UNCHANGED <<globalLock, remoteVars>>
       \/ /\ clicks' = [clicks EXCEPT ![a] = @ + 1]
          /\ effect' = [effect EXCEPT ![a] = "inflight"]
          /\ \E p \in AfterClick : Goto(a, p)
          /\ UNCHANGED <<globalLock, value, historyVars>>
    /\ UNCHANGED <<lifecycleVars, seen, preview, writesEnabled, overdue>>

BaselineNotCompared(a) == TRUE    \* fault: what held before passes for the effect

(* _reconcile_direct: the page has left the baseline, where there is one. *)
LeftBaseline(a) == a \in Unbaselined \/ value[TargetOf[a]] # seen[a]

(* _reconcile_after_dispatch: the postcondition and the transition; a failing
   read proves nothing. *)
VerifyPostcondition(a) ==
    /\ phase[a] = "verify"
    /\ \/ Postcondition(a) /\ LeftBaseline(a) /\ Goto(a, "succeed")
       \/ Goto(a, "uncertain")
    /\ UNCHANGED <<lifecycleVars, globalLock, seen, preview, remoteVars, writesEnabled, overdue>>

(* complete_success; when it cannot be stored the outcome is uncertain. *)
RecordSuccess(a) ==
    /\ phase[a] = "succeed"
    /\ \/ Complete(a, "SUCCEEDED") /\ Leave(a)
       \/ DatabaseErrors /\ Goto(a, "uncertain") /\ UNCHANGED <<lifecycleVars, globalLock>>
    /\ UNCHANGED <<seen, preview, remoteVars, writesEnabled, overdue>>

FailedEvenIfUncertain(uncertain) == "FAILED"    \* fault: outcome_uncertain is ignored

(* complete_failure's outcome_uncertain argument. *)
FailureStatus(uncertain) == IF uncertain THEN "UNKNOWN" ELSE "FAILED"

RecordFailure(a) ==
    /\ phase[a] = "fail"
    /\ \/ Complete(a, FailureStatus(FALSE)) /\ Leave(a)
       \/ DatabaseErrors /\ Leave(a) /\ UNCHANGED lifecycleVars
    /\ UNCHANGED <<seen, preview, remoteVars, writesEnabled, overdue>>

(* _persist_uncertain_and_reconcile: UNKNOWN first, then one more read-back
   without a baseline, and only a positive one is promoted. *)
RecordUncertain(a) ==
    /\ phase[a] = "uncertain"
    /\ \/ /\ Complete(a, FailureStatus(TRUE))
          /\ Goto(a, "recheck") /\ UNCHANGED globalLock
       \/ DatabaseErrors /\ Leave(a) /\ UNCHANGED lifecycleVars
    /\ UNCHANGED <<seen, preview, remoteVars, writesEnabled, overdue>>

RecheckPostcondition(a) ==
    /\ phase[a] = "recheck"
    /\ \/ /\ a \in Unbaselined /\ Postcondition(a)
          /\ Goto(a, "promote") /\ UNCHANGED globalLock
       \/ Leave(a)
    /\ UNCHANGED <<lifecycleVars, seen, preview, remoteVars, writesEnabled, overdue>>

Promote(a) ==
    /\ phase[a] = "promote"
    /\ \/ Reconcile(a, "SUCCEEDED")
       \/ DatabaseErrors /\ UNCHANGED lifecycleVars
    /\ Leave(a)
    /\ UNCHANGED <<seen, preview, remoteVars, writesEnabled, overdue>>
-----------------------------------------------------------------------------
(* DIC processes a click late, or never. *)
Apply(a) ==
    /\ effect[a] = "inflight"
    /\ effect' = [effect EXCEPT ![a] = "applied"]
    /\ \E v \in Wanted[a] :
         /\ value' = [value EXCEPT ![TargetOf[a]] = v]
         /\ foreign' = foreign \cup (AwaitsValue(TargetOf[a], v) \ {a})
    /\ disturbed' = IF phase[a] = "ended" THEN disturbed \cup AwaitsClick(TargetOf[a])
                    ELSE disturbed
    /\ UNCHANGED <<lifecycleVars, executorVars, clicks, preview, writesEnabled, overdue>>

Drop(a) ==
    /\ effect[a] = "inflight"
    /\ effect' = [effect EXCEPT ![a] = "dropped"]
    /\ UNCHANGED <<lifecycleVars, executorVars, clicks, value, historyVars, preview,
                   writesEnabled, overdue>>

(* Somebody edits the target in DIC itself, perhaps to what an action wants. *)
OutsideEdit(x) ==
    /\ \E v \in Values \ {value[x]} :
         /\ value' = [value EXCEPT ![x] = v]
         /\ foreign' = foreign \cup AwaitsValue(x, v)
    /\ disturbed' = disturbed \cup AwaitsClick(x)
    /\ UNCHANGED <<lifecycleVars, executorVars, clicks, effect, preview, writesEnabled, overdue>>

Elapse(a) ==
    /\ status[a] \in ActiveStatus \cup {"EXECUTING"} /\ a \notin overdue
    /\ overdue' = overdue \cup {a}
    /\ UNCHANGED <<lifecycleVars, executorVars, remoteVars, preview, writesEnabled>>

(* RuntimeFeatureFlags.set_runtime: the kill switch is thrown for good. *)
ThrowKillSwitch ==
    /\ writesEnabled
    /\ writesEnabled' = FALSE
    /\ UNCHANGED <<lifecycleVars, executorVars, remoteVars, preview, overdue>>

(* The process dies: every executor is gone and none is started again. *)
Crash ==
    /\ Crashes
    /\ \E a \in Actions : phase[a] \notin {"none", "ended"}
    /\ phase' = [a \in Actions |-> IF phase[a] = "none" THEN "none" ELSE "ended"]
    /\ globalLock' = "free"
    /\ UNCHANGED <<lifecycleVars, seen, remoteVars, preview, writesEnabled, overdue>>

Executor(a) ==
    \/ CheckPolicy(a) \/ TakeLock(a) \/ ReadFingerprint(a) \/ BeginExecution(a)
    \/ ResolveParameters(a) \/ GenerateExport(a) \/ PassGate(a) \/ CaptureBaseline(a)
    \/ SubmitForm(a) \/ VerifyPostcondition(a) \/ RecordSuccess(a) \/ RecordFailure(a)
    \/ RecordUncertain(a) \/ RecheckPostcondition(a) \/ Promote(a)

Environment ==
    \/ \E a \in Actions : Apply(a) \/ Drop(a) \/ Elapse(a)
    \/ \E x \in Targets : OutsideEdit(x)
    \/ ThrowKillSwitch \/ Crash

ExecutionNext ==
    \/ \E a \in Actions, u \in Users : PrepareWrite(a, u)
    \/ \E a \in Actions : Decide(a) \/ RejectWrite(a) \/ TouchOverdue(a) \/ Executor(a)
    \/ Environment

ExecutionSpec == ExecutionInit /\ [][ExecutionNext]_vars

(* asyncio runs every ready executor; each read, click and database call is
   bounded by a timeout, so none of its steps waits forever. *)
FairExecutionSpec == ExecutionSpec /\ \A a \in Actions : WF_vars(Executor(a))
-----------------------------------------------------------------------------
(* Type invariant: the rows of the actions, the state of every executor, the
   lock, the target values and the effects of the clicks. *)
ExecutionTypeOK ==
    /\ status \in [Actions -> Status]
    /\ requester \in [Actions -> Users \cup {"nobody"}]
    /\ confirmed \in [Actions -> BOOLEAN]
    /\ approvals \in [Actions -> SUBSET Users]
    /\ phase \in [Actions -> Phase]
    /\ globalLock \in Actions \cup {"free"}
    /\ preview \in [Actions -> Values]
    /\ seen \in [Actions -> Values \cup {"UNSTABLE"}]
    /\ clicks \in [Actions -> Nat]
    /\ effect \in [Actions -> {"none", "inflight", "applied", "dropped"}]
    /\ value \in [Targets -> Values]
    /\ foreign \subseteq Actions /\ disturbed \subseteq Actions
    /\ writesEnabled \in BOOLEAN
    /\ overdue \subseteq Actions

(* execute_prepared and docs/SECURITY_ARCHITECTURE.md: whatever times out,
   fails or crashes, the remote form of an action is submitted at most once. *)
AtMostOneDispatch == \A a \in Actions : clicks[a] <= 1

(* An action recorded as not executed was not executed and will not be: no
   click of it is on its way when FAILED, REJECTED, EXPIRED or STALE is
   stored, however late DIC applies what it received. *)
NotExecutedMeansNoEffect ==
    \A a \in Actions :
        status[a] \in {"FAILED", "REJECTED", "EXPIRED", "STALE"} => effect[a] = "none"

(* The read-backs and what is recorded after them: SUCCEEDED is stored only if
   DIC applied the click or somebody else has made the same change since the
   baseline.  A value that was there before, another value, or a change this
   action did not ask for never passes for its success. *)
SuccessHasACause ==
    \A a \in Actions \ Exports :
        status[a] = "SUCCEEDED" => effect[a] = "applied" \/ a \in foreign

(* Fingerprint check and global lock: a click replaces the value its preview
   showed, unless the target was changed after the fingerprint was read by
   somebody in DIC or by a click that outlived its executor.  No edit made
   before, and no write that is still executing, is overwritten unseen. *)
NoBlindOverwrite ==
    [][\A a \in Actions : clicks'[a] # clicks[a] =>
          value[TargetOf[a]] = preview[a] \/ a \in disturbed]_vars

(* An execution that was cut short, by a crash or by a store that could not
   take its outcome, is neither started again nor given an outcome nobody
   read from DIC: whatever is expired, rejected, approved or executed later,
   it stays EXECUTING for the operator, with the click it may have made. *)
InterruptedStaysOpen ==
    [][\A a \in Actions : status[a] = "EXECUTING" /\ phase[a] = "ended" =>
          status'[a] = "EXECUTING" /\ phase'[a] = "ended" /\ clicks'[a] = clicks[a]]_vars

(* The kill switch stops every write that has not passed the gate of
   DicService.execute yet, including those waiting for the lock. *)
BeforeGate == {"none", "policy", "lock", "fingerprint", "begin", "parameters", "gate"}

KillSwitchStops ==
    \A a \in Actions :
        [](~writesEnabled /\ phase[a] \in BeforeGate => [](clicks[a] = 0))

(* Every started executor ends and releases the lock for the next one, and
   while the store works and the process lives no action stays EXECUTING. *)
ExecutorsFinish ==
    \A a \in Actions :
        /\ phase[a] = "policy" ~> phase[a] = "ended"
        /\ status[a] = "EXECUTING" ~> status[a] # "EXECUTING"

(* The comment on the lock in _execute_approved: the critical section "ends
   only after a durable terminal/UNKNOWN outcome (including reconciliation)
   is stored". *)
OutcomeStoredBeforeRelease ==
    [][\A a \in Actions : globalLock = a /\ globalLock' # a => status'[a] # "EXECUTING"]_vars
=============================================================================
