----------------------------- MODULE UploadStore -----------------------------
(***************************************************************************)
(* The quarantine pipeline: FileService (ingest, claim_clean_upload) in    *)
(* the bot process and FileRetentionService.purge_expired in the separate  *)
(* CLI process, over one metadata table and four directories on disk.      *)
(*                                                                         *)
(* A metadata row and the bytes it describes are two stores: every move of *)
(* a file and the UPDATE that records it are separate steps, and the other *)
(* process, a failure or a crash may come between them.                    *)
(*                                                                         *)
(* Data: a file is its upload identifier and its content digest.  What the *)
(* size limit, MIME and extension checks and the scanner say of a content  *)
(* is chosen nondeterministically.                                         *)
(***************************************************************************)
EXTENDS Integers, FiniteSets

CONSTANTS
    Uploads,        \* upload identifiers (random, never reused)
    Digests,        \* SHA-256 values
    DigestOf,       \* the digest of each upload's content
    ClamavRequired, \* the CLAMAV_REQUIRED setting
    Failures,       \* whether the database and the disk may refuse an operation
    Crashes         \* whether the two processes may die

ASSUME UploadAssumption ==
    /\ DigestOf \in [Uploads -> Digests]
    /\ ClamavRequired \in BOOLEAN /\ Failures \in BOOLEAN /\ Crashes \in BOOLEAN
    /\ "none" \notin Uploads

VARIABLES
    row,        \* uploaded_files table
    place,      \* the directory that holds each upload's bytes
    ingest,     \* where the ingest call of each upload stands
    claims,     \* _process_claims: the upload that owns each digest
    delivery,   \* the call holding _delivery_lock
    purge,      \* the purge run: its snapshot of the rows still to purge
    overdue,    \* uploads whose expires_at has passed
    delivered   \* how often each upload's path was handed out

vars == <<row, place, ingest, claims, delivery, purge, overdue, delivered>>

Bucket == {"quarantine", "clean", "processed", "rejected"}
Verdict == {"unscanned", "CLEAN", "INFECTED", "UNAVAILABLE", "ERROR"}
UploadStatus == {"QUARANTINED", "CLEAN", "REJECTED", "PROCESSED", "DELETED"}
Row == [status : UploadStatus \cup {"ABSENT"}, bucket : Bucket \cup {"none"},
        antivirus : Verdict, version : Nat]

NoRow == [status |-> "ABSENT", bucket |-> "none", antivirus |-> "unscanned", version |-> 0]
NoCall == [pc |-> "idle", id |-> "none", old |-> NoRow]
NoRun == [pc |-> "idle", id |-> "none", rows |-> [u \in {} |-> NoRow]]

Init ==
    /\ row = [u \in Uploads |-> NoRow]
    /\ place = [u \in Uploads |-> "nowhere"]
    /\ ingest = [u \in Uploads |-> "new"]
    /\ claims = [d \in Digests |-> "none"]
    /\ delivery = NoCall
    /\ purge = NoRun
    /\ overdue = {}
    /\ delivered = [u \in Uploads |-> 0]

(* repository.replace: compare-and-swap on the version. *)
AnyVersion(u, old) == TRUE    \* fault: UPDATE without the version condition

SameVersion(u, old) == row[u].version = old.version

Replace(u, old, new) ==
    /\ SameVersion(u, old)
    /\ row' = [row EXCEPT ![u] = [new EXCEPT !.version = old.version + 1]]

(* store.move: an atomic os.replace, which needs its source. *)
MoveFile(u, from, to) ==
    /\ place[u] = from
    /\ place' = [place EXCEPT ![u] = to]
-----------------------------------------------------------------------------
(* ingest.  Nobody else touches the row or the bytes of a running ingest: it
   takes seconds and the earliest purge is UPLOAD_RETENTION_HOURS away, so
   the record it holds is the row itself. *)
Proceed(u, pc) == ingest' = [ingest EXCEPT ![u] = pc]

(* The outcome of an _update: the next step, or an exception that ends the call. *)
Update(u, new, pc) ==
    \/ Replace(u, row[u], new) /\ Proceed(u, pc)
    \/ Failures /\ Proceed(u, "ended") /\ UNCHANGED row

(* insert; an unsafe file name is rejected at once, without bytes. *)
StartIngest(u) ==
    /\ ingest[u] = "new"
    /\ \/ /\ row' = [row EXCEPT ![u] = [NoRow EXCEPT !.status = "QUARANTINED",
                                            !.bucket = "quarantine", !.version = 1]]
          /\ Proceed(u, "write")
       \/ /\ row' = [row EXCEPT ![u] = [NoRow EXCEPT !.status = "REJECTED", !.version = 1]]
          /\ Proceed(u, "ended")
    /\ UNCHANGED <<place, claims, delivery, purge, overdue, delivered>>

(* store.write: a failed write removes its file, an oversized one leaves it. *)
WriteBytes(u) ==
    /\ ingest[u] = "write"
    /\ \/ place' = [place EXCEPT ![u] = "quarantine"] /\ Proceed(u, "measure")
       \/ Proceed(u, "discard") /\ UNCHANGED place
    /\ UNCHANGED <<row, claims, delivery, purge, overdue, delivered>>

(* Size and digest are recorded; oversized and empty files are rejected. *)
Measure(u) ==
    /\ ingest[u] = "measure"
    /\ \E pc \in {"detect", "discard"} : Update(u, row[u], pc)
    /\ UNCHANGED <<place, claims, delivery, purge, overdue, delivered>>

(* MIME detection, recorded unless it fails, and the MIME policy. *)
DetectMime(u) ==
    /\ ingest[u] = "detect"
    /\ \/ \E pc \in {"scan", "discard"} : Update(u, row[u], pc)
       \/ Proceed(u, "discard") /\ UNCHANGED row
    /\ UNCHANGED <<place, claims, delivery, purge, overdue, delivered>>

Accepted(verdict) ==
    \/ verdict = "CLEAN"
    \/ verdict \in {"UNAVAILABLE", "ERROR"} /\ ~ClamavRequired

(* The antivirus verdict is recorded first; a scanner that raises is an ERROR
   and rejected even where the scanner is optional. *)
Scan(u) ==
    /\ ingest[u] = "scan"
    /\ \E verdict \in Verdict \ {"unscanned"}, raised \in BOOLEAN :
         /\ raised => verdict = "ERROR"
         /\ Update(u, [row[u] EXCEPT !.antivirus = verdict],
                   IF Accepted(verdict) /\ ~raised THEN "claim" ELSE "discard")
    /\ UNCHANGED <<place, claims, delivery, purge, overdue, delivered>>

(* find_by_sha256 looks only at these rows. *)
Usable == {u \in Uploads : row[u].status \in {"CLEAN", "PROCESSED"}}

LiveDigest(u) == \E v \in Usable \ {u} : DigestOf[v] = DigestOf[u]

TableOnly(u) == ~LiveDigest(u)    \* fault: concurrent ingests are not looked at

DigestIsNew(u) ==
    LET owner == claims[DigestOf[u]] IN
    IF owner # "none" THEN owner = u ELSE ~LiveDigest(u)

(* claim_sha256, under _claim_lock. *)
ClaimDigest(u) ==
    /\ ingest[u] = "claim"
    /\ \/ /\ DigestIsNew(u)
          /\ claims' = [claims EXCEPT ![DigestOf[u]] = u]
          /\ Proceed(u, "move")
       \/ ~DigestIsNew(u) /\ Proceed(u, "discard") /\ UNCHANGED claims
       \/ Failures /\ Proceed(u, "ended") /\ UNCHANGED claims
    /\ UNCHANGED <<row, place, delivery, purge, overdue, delivered>>

MoveToClean(u) ==
    /\ ingest[u] = "move"
    /\ \/ MoveFile(u, "quarantine", "clean") /\ Proceed(u, "commit")
       \/ Failures /\ Proceed(u, "ended") /\ UNCHANGED place
    /\ UNCHANGED <<row, claims, delivery, purge, overdue, delivered>>

RecordClean(u) ==
    /\ ingest[u] = "commit"
    /\ Update(u, [row[u] EXCEPT !.status = "CLEAN", !.bucket = "clean"], "ended")
    /\ UNCHANGED <<place, claims, delivery, purge, overdue, delivered>>

RejectInPlace == "quarantine"         \* fault: rejected bytes are not moved away
RejectUnderStatusName == "REJECTED"   \* fault: a directory outside _BUCKETS

(* _reject: the bytes, if any, are moved away, then the row is updated. *)
RejectBucket == "rejected"

Discard(u) ==
    /\ ingest[u] = "discard"
    /\ \/ MoveFile(u, "quarantine", RejectBucket) /\ Proceed(u, "reject")
       \/ place[u] # "quarantine" /\ Proceed(u, "reject") /\ UNCHANGED place
       \/ Failures /\ Proceed(u, "ended") /\ UNCHANGED place
    /\ UNCHANGED <<row, claims, delivery, purge, overdue, delivered>>

RecordRejected(u) ==
    /\ ingest[u] = "reject"
    /\ Update(u, [row[u] EXCEPT !.status = "REJECTED",
                     !.bucket = IF place[u] = RejectBucket THEN "rejected" ELSE "none"], "ended")
    /\ UNCHANGED <<place, claims, delivery, purge, overdue, delivered>>
-----------------------------------------------------------------------------
(* claim_clean_upload *)
EligibleWithoutVerdict(u) ==    \* fault: an unscanned file accepted at ingest is handed out
    row[u].status = "CLEAN" /\ row[u].bucket = "clean" /\ u \notin overdue

EligibleForDelivery(u) ==
    /\ row[u].status = "CLEAN" /\ row[u].bucket = "clean"
    /\ u \notin overdue
    /\ row[u].antivirus = "CLEAN"

StartClaim(u) ==
    /\ delivery.pc = "idle"
    /\ EligibleForDelivery(u)
    /\ delivery' = [pc |-> "verify", id |-> u, old |-> row[u]]
    /\ UNCHANGED <<row, place, ingest, claims, purge, overdue, delivered>>

(* _verify_stored_record, in a thread: the file is opened where the record
   says and hashed.  One step here: the move that follows needs it there. *)
VerifyStored ==
    /\ delivery.pc = "verify"
    /\ delivery' = IF place[delivery.id] = "clean" THEN [delivery EXCEPT !.pc = "move"] ELSE NoCall
    /\ UNCHANGED <<row, place, ingest, claims, purge, overdue, delivered>>

MoveToProcessed ==
    /\ delivery.pc = "move"
    /\ \/ /\ MoveFile(delivery.id, "clean", "processed")
          /\ delivery' = [delivery EXCEPT !.pc = "record"]
       \/ /\ place[delivery.id] # "clean" \/ Failures
          /\ delivery' = NoCall /\ UNCHANGED place
    /\ UNCHANGED <<row, ingest, claims, purge, overdue, delivered>>

(* A failing update leaves the bytes in "processed", never back in "clean". *)
RecordProcessed ==
    /\ delivery.pc = "record"
    /\ LET u == delivery.id IN
       \/ /\ Replace(u, delivery.old,
                     [delivery.old EXCEPT !.status = "PROCESSED", !.bucket = "processed"])
          /\ delivery' = [delivery EXCEPT !.pc = "open"]
       \/ ~SameVersion(u, delivery.old) /\ delivery' = NoCall /\ UNCHANGED row
       \/ Failures /\ delivery' = NoCall /\ UNCHANGED row
    /\ UNCHANGED <<place, ingest, claims, purge, overdue, delivered>>

(* _verify_stored_record once more, where the file lies now.  An open file is
   hashed to its end and handed out although a purge unlinks it meanwhile. *)
OpenProcessed ==
    /\ delivery.pc = "open"
    /\ delivery' = IF place[delivery.id] = "processed"
                   THEN [delivery EXCEPT !.pc = "handout"] ELSE NoCall
    /\ UNCHANGED <<row, place, ingest, claims, purge, overdue, delivered>>

HandOut ==
    /\ delivery.pc = "handout"
    /\ delivered' = [delivered EXCEPT ![delivery.id] = @ + 1]
    /\ delivery' = NoCall
    /\ UNCHANGED <<row, place, ingest, claims, purge, overdue>>
-----------------------------------------------------------------------------
(* purge_expired, in its own process *)
Purgeable == {u \in overdue : row[u].status \notin {"ABSENT", "DELETED"}}

Keep(rows, u) == [v \in DOMAIN rows \ {u} |-> rows[v]]

StartPurge ==
    /\ purge.pc = "idle"
    /\ Purgeable # {}
    /\ purge' = [pc |-> "delete", id |-> "none", rows |-> [u \in Purgeable |-> row[u]]]
    /\ UNCHANGED <<row, place, ingest, claims, delivery, overdue, delivered>>

UnlinkPresent(u, bucket) ==    \* fault: unlink without missing_ok
    place[u] = bucket /\ place' = [place EXCEPT ![u] = "nowhere"]

(* store.delete: nothing to delete is no error. *)
Unlink(u, bucket) ==
    place' = [place EXCEPT ![u] = IF @ = bucket THEN "nowhere" ELSE @]

PurgeBytes(u) ==
    /\ purge.pc = "delete"
    /\ u \in DOMAIN purge.rows
    /\ Unlink(u, purge.rows[u].bucket)
    /\ purge' = [purge EXCEPT !.pc = "record", !.id = u]
    /\ UNCHANGED <<row, ingest, claims, delivery, overdue, delivered>>

(* A conflicting update raises out of the loop: the run is over. *)
PurgeRow(u) ==
    /\ purge.pc = "record" /\ purge.id = u
    /\ LET old == purge.rows[u]
           rest == Keep(purge.rows, u)
       IN \/ /\ Replace(u, old, [old EXCEPT !.status = "DELETED", !.bucket = "none"])
             /\ purge' = IF rest = NoRun.rows THEN NoRun
                         ELSE [pc |-> "delete", id |-> "none", rows |-> rest]
          \/ ~SameVersion(u, old) /\ purge' = NoRun /\ UNCHANGED row
    /\ UNCHANGED <<place, ingest, claims, delivery, overdue, delivered>>

(* The directory or the database refuses, or the run is killed. *)
AbortPurge ==
    /\ purge.pc # "idle"
    /\ Failures \/ Crashes
    /\ purge' = NoRun
    /\ UNCHANGED <<row, place, ingest, claims, delivery, overdue, delivered>>
-----------------------------------------------------------------------------
Elapse(u) ==
    /\ ingest[u] = "ended" /\ u \notin overdue
    /\ overdue' = overdue \cup {u}
    /\ UNCHANGED <<row, place, ingest, claims, delivery, purge, delivered>>

(* The bot dies and restarts: calls and in-memory claims are gone. *)
Crash ==
    /\ Crashes
    /\ ingest' = [u \in Uploads |-> IF ingest[u] = "new" THEN "new" ELSE "ended"]
    /\ claims' = [d \in Digests |-> "none"]
    /\ delivery' = NoCall
    /\ UNCHANGED <<row, place, purge, overdue, delivered>>

Ingest(u) ==
    \/ StartIngest(u) \/ WriteBytes(u) \/ Measure(u) \/ DetectMime(u) \/ Scan(u)
    \/ ClaimDigest(u) \/ MoveToClean(u) \/ RecordClean(u) \/ Discard(u) \/ RecordRejected(u)

Claim ==
    \/ \E u \in Uploads : StartClaim(u)
    \/ VerifyStored \/ MoveToProcessed \/ RecordProcessed \/ OpenProcessed \/ HandOut

Next ==
    \/ \E u \in Uploads : Ingest(u) \/ PurgeBytes(u) \/ PurgeRow(u) \/ Elapse(u)
    \/ Claim \/ StartPurge \/ AbortPurge \/ Crash

Spec == Init /\ [][Next]_vars

(* docs/FILE_HANDLING.md has a scheduled job call purge "frequently enough";
   runs that are killed or fail do not do so for ever at the same place. *)
FairSpec ==
    /\ Spec
    /\ WF_vars(StartPurge)
    /\ \A u \in Uploads : SF_vars(PurgeBytes(u)) /\ SF_vars(PurgeRow(u))
-----------------------------------------------------------------------------
(* Type invariant: rows, places of the bytes, ingests, the delivery and the
   purge with the copies of the rows it read. *)
UploadTypeOK ==
    /\ row \in [Uploads -> Row]
    /\ place \in [Uploads -> Bucket \cup {"nowhere"}]
    /\ ingest \in [Uploads -> {"new", "write", "measure", "detect", "scan", "claim", "move",
                               "commit", "discard", "reject", "ended"}]
    /\ claims \in [Digests -> Uploads \cup {"none"}]
    /\ delivery \in [pc : {"idle", "verify", "move", "record", "open", "handout"},
                     id : Uploads \cup {"none"}, old : Row]
    /\ DOMAIN purge.rows \subseteq Uploads /\ purge.rows \in [DOMAIN purge.rows -> Row]
    /\ purge = [pc |-> purge.pc, id |-> purge.id, rows |-> purge.rows]
    /\ purge.pc \in {"idle", "delete", "record"} /\ purge.id \in Uploads \cup {"none"}
    /\ overdue \subseteq Uploads
    /\ delivered \in [Uploads -> Nat]

(* claim_sha256: two uploads of the same content are never both usable,
   although the claim is in memory, the table only shows finished ingests and
   a crash forgets the claim between the two. *)
OneLiveCopyPerDigest ==
    \A u, v \in Usable : DigestOf[u] = DigestOf[v] => u = v

(* _reject: rejected content has left the pipeline's directories for good. *)
RejectedStaysAway ==
    \A u \in Uploads : row[u].status = "REJECTED" => place[u] \in {"rejected", "nowhere"}

(* "No rejected or uncertain file may be uploaded to DIC": whatever was
   handed out once was found clean by the scanner, also where a deployment
   makes the scanner optional, and was handed out only that once; and no
   rejected bytes lie where deliverable files do, whichever step failed. *)
OnlyVettedDelivered ==
    /\ \A u \in Uploads : delivered[u] > 0 => row[u].antivirus = "CLEAN" /\ delivered[u] = 1
    /\ RejectedStaysAway

(* claim_clean_upload opens what it will hand out only while the row says
   PROCESSED: a purge that copied the row before the claim cannot record the
   deletion under it, and after a purge that did record it there is nothing to
   open.  A deletion recorded later, while the open file is hashed, is not
   noticed: a path is then handed out that the adapter no longer finds. *)
OpenedWhileRecorded ==
    [][delivery'.pc = "handout" /\ delivery.pc # "handout" =>
          row[delivery'.id].status = "PROCESSED"]_vars

(* Retention: an upload past its deadline is recorded as deleted in the end,
   however often a purge run dies between unlink and update or loses its
   compare-and-swap to a claim. *)
ExpiredIsDeleted == \A u \in Uploads : u \in overdue ~> row[u].status = "DELETED"

(* The purge command: "Delete expired artifacts and retain only deletion
   metadata."  A row that says DELETED has no bytes left on the disk. *)
DeletedMeansErased ==
    \A u \in Uploads : row[u].status = "DELETED" => place[u] = "nowhere"
=============================================================================
