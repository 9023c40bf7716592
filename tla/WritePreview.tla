----------------------------- MODULE WritePreview -----------------------------
(***************************************************************************)
(* What approvers decide on: the preparation of a write, from the request  *)
(* to its preview and fingerprint (_prepare_write, _target_snapshot), and  *)
(* the way from the last decision to the gate of its execution             *)
(* (_execute_approved, _state_fingerprint).  Approvals has the decisions   *)
(* between, WriteExecution what follows.                                   *)
(*                                                                         *)
(* The preview is read between two digests of the target's page; people    *)
(* edit DIC and change the roles of Discord in between.                    *)
(*                                                                         *)
(* Data: the target has one value, "asked" is what the write wants.  A     *)
(* digest is of a page that may not show the whole of its list.  Roles and *)
(* entitlements are one right to the function.  The flags stay as they     *)
(* are: nothing in src/ sets them at run time (WriteExecution throws the   *)
(* kill switch).                                                           *)
(***************************************************************************)
EXTENDS Naturals

CONSTANTS
    Requester,     \* who prepares the write
    Approver,      \* who may decide last in the requester's place
    Looks,         \* values of the target, besides the one asked for
    TargetEdits,   \* edits by people that are looked at
    GrantChanges   \* changes of roles that are looked at

ASSUME PreviewAssumption ==
    /\ Requester # Approver /\ {"asked", "absent"} \cap Looks = {}
    /\ TargetEdits \in Nat /\ GrantChanges \in Nat

VARIABLES
    target,    \* DIC: the value of the target
    granted,   \* Discord: who has the right to the function
    write,     \* program counter, what was read and what is stored of the write
    moved,     \* edits of the target while its preview was read
    entitled,  \* the requester had the right at some time since the last decision
    editsLeft, grantsLeft

previewVars == <<target, granted, write, moved, entitled, editsLeft, grantsLeft>>

WriteOps == {"edit", "delete"}
TargetValues == Looks \cup {"asked", "absent"}
NoDigest == [value |-> "absent", whole |-> FALSE]

(* live: roles are asked of Discord again; without a resolver those stored
   with the write are used. *)
NoWrite == [pc |-> "idle", op |-> "edit", live |-> TRUE, first |-> NoDigest, before |-> "absent",
            fingerprint |-> NoDigest, decider |-> Requester, found |-> NoDigest]

PreviewInit(asked) ==
    /\ target \in IF asked THEN Looks ELSE {"absent"}
    /\ granted = {Requester, Approver}
    /\ write = NoWrite /\ moved = 0 /\ entitled = FALSE
    /\ editsLeft = IF asked THEN TargetEdits ELSE 0
    /\ grantsLeft = IF asked THEN GrantChanges ELSE 0
-----------------------------------------------------------------------------
EditTarget(v) ==
    /\ editsLeft > 0 /\ v # target /\ target # "absent"
    /\ target' = v /\ editsLeft' = editsLeft - 1
    /\ moved' = IF write.pc \in {"read", "second"} THEN moved + 1 ELSE moved
    /\ UNCHANGED <<granted, write, entitled, grantsLeft>>

ChangeGrant(u) ==
    /\ grantsLeft > 0 /\ grantsLeft' = grantsLeft - 1
    /\ granted' = IF u \in granted THEN granted \ {u} ELSE granted \cup {u}
    /\ entitled' = (entitled \/ Requester \in granted')
    /\ UNCHANGED <<target, write, moved, editsLeft>>
-----------------------------------------------------------------------------
WriteAt(pc) == write' = [write EXCEPT !.pc = pc]

(* PolicyEngine.evaluate denies whoever has not the right, with the roles of
   the request's own interaction. *)
StartPreview(op, live) ==
    /\ write.pc = "idle" /\ editsLeft > 0
    /\ Requester \in granted
    /\ write' = [NoWrite EXCEPT !.pc = "first", !.op = op, !.live = live]
    /\ moved' = 0
    /\ UNCHANGED <<target, granted, entitled, editsLeft, grantsLeft>>

(* _state_digest_direct finds something to do. *)
Digestible == target # "absent" /\ (write.op = "edit" => target # "asked")

Digests == {[value |-> target, whole |-> w] : w \in BOOLEAN}

(* An ApplicationError: nothing is stored. *)
DropPreview == write' = NoWrite

TakeFirst ==
    /\ write.pc = "first"
    /\ IF Digestible THEN \E d \in Digests : write' = [write EXCEPT !.pc = "read", !.first = d]
       ELSE DropPreview
    /\ UNCHANGED <<target, granted, moved, entitled, editsLeft, grantsLeft>>

(* _write_resource_snapshot: what the preview shows as the present value. *)
ReadBefore ==
    /\ write.pc = "read"
    /\ IF target = "absent" THEN DropPreview
       ELSE write' = [write EXCEPT !.pc = "second", !.before = target]
    /\ UNCHANGED <<target, granted, moved, entitled, editsLeft, grantsLeft>>

Unwatched(d) == TRUE    \* fault: the digests are not compared

Stable(d) == d = write.first

ChangesResource == write.op = "delete" \/ write.before # "asked"

TakeSecond ==
    /\ write.pc = "second"
    /\ \E d \in Digests :
         IF Digestible /\ Stable(d) /\ ChangesResource
         THEN write' = [write EXCEPT !.pc = "awaiting", !.fingerprint = d]
         ELSE DropPreview
    /\ UNCHANGED <<target, granted, moved, entitled, editsLeft, grantsLeft>>

(* The decision that makes the action APPROVED, whoever gives it. *)
DecideLast(u) ==
    /\ write.pc = "awaiting" /\ u \in granted
    /\ write' = [write EXCEPT !.pc = "authorise", !.decider = u]
    /\ entitled' = (Requester \in granted)
    /\ UNCHANGED <<target, granted, moved, editsLeft, grantsLeft>>

StoredRoles == TRUE                           \* fault: the roles of the preparation are used
DeciderRoles == write.decider \in granted     \* fault: the decider's are

(* resolve_requester and the policy's EXECUTE phase. *)
Authorised == write.live => Requester \in granted

AuthoriseRequester ==
    /\ write.pc = "authorise"
    /\ WriteAt(IF Authorised THEN "digest" ELSE "over")
    /\ UNCHANGED <<target, granted, moved, entitled, editsLeft, grantsLeft>>

(* Once more, now under the locks; what cannot be read is UNAVAILABLE. *)
TakeAgain ==
    /\ write.pc = "digest"
    /\ IF Digestible THEN \E d \in Digests : write' = [write EXCEPT !.pc = "begin", !.first = d]
       ELSE WriteAt("over")
    /\ UNCHANGED <<target, granted, moved, entitled, editsLeft, grantsLeft>>

(* Two digests that differ are UNSTABLE; begin_execution refuses whatever is
   not the stored fingerprint. *)
BeginWrite ==
    /\ write.pc = "begin"
    /\ \E d \in Digests :
         IF Digestible /\ d = write.first /\ d = write.fingerprint
         THEN write' = [write EXCEPT !.pc = "begun", !.found = d]
         ELSE WriteAt("over")
    /\ UNCHANGED <<target, granted, moved, entitled, editsLeft, grantsLeft>>

FailPreview ==
    /\ \/ write.pc \in {"first", "read", "second"} /\ DropPreview
       \/ write.pc \in {"authorise", "digest", "begin"} /\ WriteAt("over")
    /\ UNCHANGED <<target, granted, moved, entitled, editsLeft, grantsLeft>>

PreviewNext ==
    \/ \E v \in TargetValues : EditTarget(v)
    \/ \E u \in {Requester, Approver} : ChangeGrant(u) \/ DecideLast(u)
    \/ \E op \in WriteOps, live \in BOOLEAN : StartPreview(op, live)
    \/ TakeFirst \/ ReadBefore \/ TakeSecond
    \/ AuthoriseRequester \/ TakeAgain \/ BeginWrite \/ FailPreview
-----------------------------------------------------------------------------
PreviewTypeOK ==
    /\ target \in TargetValues /\ granted \subseteq {Requester, Approver}
    /\ write.pc \in {"idle", "first", "read", "second", "awaiting", "authorise", "digest", "begin",
                     "begun", "over"}
    /\ {write.first, write.fingerprint, write.found} \subseteq [value : TargetValues, whole : BOOLEAN]
    /\ moved \in 0..TargetEdits /\ entitled \in BOOLEAN
    /\ editsLeft \in 0..TargetEdits /\ grantsLeft \in 0..GrantChanges

(* "changed while preparing its preview": a write goes ahead on the very
   value its preview showed to the approvers, unless the target changed and
   changed back while the preview was read. *)
PreviewIsTrue == write.pc = "begun" /\ moved < 2 => write.before = write.found.value

(* "Approver roles never substitute for the requester's authorization": where
   Discord can be asked, a write goes ahead only if its requester had the
   right at some time since the last decision. *)
AuthorityIsCurrent == write.pc = "begun" /\ write.live => entitled

PreviewIsHonoured == PreviewIsTrue /\ AuthorityIsCurrent
=============================================================================
