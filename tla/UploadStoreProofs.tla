-------------------------- MODULE UploadStoreProofs --------------------------
(***************************************************************************)
(* Proofs about UploadStore for any uploads, contents, failures and        *)
(* crashes.  The argument: a running ingest owns its row and its bytes;    *)
(* afterwards the delivery and the purge change a row only under its       *)
(* version, and a copy with the row's version is the row.                  *)
(***************************************************************************)
EXTENDS UploadStore, TLAPS

Scanned == {"measure", "detect", "scan", "claim", "move"}
Running == {"write", "commit", "discard", "reject"} \cup Scanned
Claiming == {"verify", "move", "record"}
Delivering == {"open", "handout"}

(* A running ingest: the row is still QUARANTINED, the deadline is far away,
   and the bytes are where its next step expects them. *)
Stage(u) ==
    /\ ingest[u] = "new" => row[u].status = "ABSENT" /\ place[u] = "nowhere"
    /\ ingest[u] \in Running => row[u].status = "QUARANTINED"
    /\ u \in overdue => ingest[u] = "ended"
    /\ ingest[u] = "write" => place[u] = "nowhere"
    /\ ingest[u] \in Scanned => place[u] = "quarantine"
    /\ ingest[u] = "commit" => place[u] = "clean"
    /\ ingest[u] = "discard" => place[u] \in {"nowhere", "quarantine"}
    /\ ingest[u] = "reject" => place[u] \in {"nowhere", "rejected"}

IngestInv == \A u \in Uploads : Stage(u)

(* The owner of a digest is the only upload of that content that is or
   becomes usable. *)
ClaimInv ==
    /\ \A u \in Uploads : ingest[u] \in {"move", "commit"} => claims[DigestOf[u]] = u
    /\ \A d \in Digests : claims[d] # "none" =>
         /\ DigestOf[claims[d]] = d
         /\ ~LiveDigest(claims[d])

(* A copy is never newer than its row, and is the row if it is as new. *)
Copies(u, old) ==
    /\ old.version <= row[u].version
    /\ old.version = row[u].version => old = row[u]

(* The upload a claim holds is vetted and was not handed out yet; if the
   purge records it as deleted meanwhile, its bytes are gone as well. *)
DeliveryInv ==
    LET u == delivery.id IN
    /\ delivery.pc # "idle" =>
         /\ u \in Uploads /\ ingest[u] = "ended" /\ delivered[u] = 0
         /\ row[u].antivirus = "CLEAN"
    /\ delivery.pc \in Claiming =>
         /\ Copies(u, delivery.old)
         /\ delivery.old.status = "CLEAN" /\ row[u].status \in {"CLEAN", "DELETED"}
         /\ row[u].status = "CLEAN" => row[u].bucket = "clean"
    /\ delivery.pc \in Delivering =>
         /\ row[u].status \in {"PROCESSED", "DELETED"}
         /\ row[u].status = "PROCESSED" => row[u].bucket = "processed"
         /\ row[u].status = "DELETED" => place[u] # "processed"

DeliveredInv ==
    \A u \in Uploads : delivered[u] > 0 =>
        /\ delivered[u] = 1
        /\ ingest[u] = "ended" /\ row[u].antivirus = "CLEAN"
        /\ row[u].status \in {"PROCESSED", "DELETED"}

(* The purge holds copies of overdue rows; the bytes of the row it is about
   to record are gone from the directory of its copy, or the copy is old. *)
PurgeInv ==
    /\ \A u \in DOMAIN purge.rows : u \in overdue /\ Copies(u, purge.rows[u])
    /\ purge.pc = "record" =>
         /\ purge.id \in DOMAIN purge.rows
         /\ purge.rows[purge.id].version = row[purge.id].version =>
              place[purge.id] # row[purge.id].bucket

DeletedHaveNoBucket == \A u \in Uploads : row[u].status = "DELETED" => row[u].bucket = "none"

UploadInv ==
    /\ UploadTypeOK
    /\ IngestInv /\ ClaimInv /\ DeliveryInv /\ DeliveredInv /\ PurgeInv
    /\ OneLiveCopyPerDigest /\ RejectedStaysAway /\ DeletedHaveNoBucket
-----------------------------------------------------------------------------
USE UploadAssumption DEF UploadInv, Scanned, Running, Claiming, Delivering, Proceed

LEMMA InitUploadInv == Init => UploadInv
BY DEF UploadTypeOK, Row, Bucket, Verdict, UploadStatus, Init, NoRow, NoCall, NoRun, IngestInv,
   Stage, ClaimInv, DeliveryInv, DeliveredInv, PurgeInv, OneLiveCopyPerDigest, Usable, RejectedStaysAway, DeletedHaveNoBucket

DeliveryType ==
    [pc : {"idle"} \cup Claiming \cup Delivering, id : Uploads \cup {"none"}, old : Row]

LEMMA NoCallType == NoRow \in Row /\ NoCall \in DeliveryType
BY DEF NoRow, NoCall, Row, Bucket, UploadStatus, Verdict, DeliveryType

(* A step of the ingest of one upload, as far as others can tell. *)
OwnStep(u) ==
    /\ ingest[u] \in {"new"} \cup Running
    /\ row' \in [Uploads -> Row]
    /\ place' \in [Uploads -> Bucket \cup {"nowhere"}]
    /\ ingest' \in [Uploads -> {"new", "ended"} \cup Running]
    /\ \A v \in Uploads \ {u} :
         row'[v] = row[v] /\ place'[v] = place[v] /\ ingest'[v] = ingest[v]
    /\ UNCHANGED <<delivery, purge, overdue, delivered>>

(* No delivery and no purge knows an upload whose ingest runs. *)
LEMMA OwnStepUnseen ==
    ASSUME UploadInv, NEW u \in Uploads, OwnStep(u)
    PROVE  DeliveryInv' /\ DeliveredInv' /\ PurgeInv'
<1> USE DEF OwnStep
<1>1. u \notin overdue /\ delivered[u] = 0
  BY DEF IngestInv, Stage, DeliveredInv, UploadTypeOK
<1>2. DeliveryInv'
  <2>1. delivery.pc # "idle" => delivery.id \in Uploads \ {u}
    BY DEF DeliveryInv
  <2>2. delivery.pc \in Claiming \cup Delivering => delivery.pc # "idle"
    OBVIOUS
  <2> QED
    BY <2>1, <2>2 DEF DeliveryInv, Copies
<1>3. DeliveredInv'
  BY <1>1 DEF DeliveredInv
<1>4. PurgeInv'
  BY <1>1 DEF PurgeInv, Copies, UploadTypeOK
<1> QED
  BY <1>2, <1>3, <1>4

(* Such a step that makes nothing usable keeps the invariant. *)
LEMMA OwnStepInv ==
    ASSUME UploadInv, NEW u \in Uploads, OwnStep(u), Stage(u)', claims' = claims,
           row'[u].status \in {"QUARANTINED", "REJECTED"},
           row'[u].status = "REJECTED" => place'[u] \in {"rejected", "nowhere"},
           ingest'[u] \in {"move", "commit"} => claims[DigestOf[u]] = u
    PROVE  UploadInv'
<1>1. UploadTypeOK'
  BY DEF OwnStep, UploadTypeOK
<1>2. IngestInv'
  <2>1. ASSUME NEW v \in Uploads \ {u} PROVE Stage(v)'
    BY <2>1 DEF OwnStep, IngestInv, Stage
  <2> QED
    BY <2>1 DEF IngestInv
<1>3. row[u].status \in {"ABSENT", "QUARANTINED"}
  BY DEF OwnStep, IngestInv, Stage
<1>4. Usable' = Usable
  BY <1>3 DEF OwnStep, Usable
<1>5. ClaimInv'
  <2>1. \A v \in Uploads : ingest'[v] \in {"move", "commit"} => claims[DigestOf[v]] = v
    BY DEF OwnStep, ClaimInv
  <2> QED
    BY <1>4, <2>1 DEF ClaimInv, LiveDigest
<1>6. OneLiveCopyPerDigest'
  BY <1>4 DEF OneLiveCopyPerDigest
<1>7. RejectedStaysAway' /\ DeletedHaveNoBucket'
  BY DEF OwnStep, RejectedStaysAway, DeletedHaveNoBucket
<1> QED
  BY <1>1, <1>2, <1>5, <1>6, <1>7, OwnStepUnseen

(* _update: the row is replaced under its own version, or the call ends. *)
LEMMA UpdateOutcome ==
    ASSUME UploadInv, NEW u \in Uploads, NEW new \in Row, NEW pc, Update(u, new, pc)
    PROVE  /\ row' \in [Uploads -> Row]
           /\ \A v \in Uploads \ {u} : row'[v] = row[v]
           /\ \/ /\ ingest' = [ingest EXCEPT ![u] = pc]
                 /\ row'[u].status = new.status
                 /\ row'[u].bucket = new.bucket
                 /\ row'[u].antivirus = new.antivirus
              \/ ingest' = [ingest EXCEPT ![u] = "ended"] /\ row' = row
<1>1. new.version \in Nat /\ row[u].version \in Nat /\ row \in [Uploads -> Row]
  BY DEF UploadTypeOK, Row
<1>2. CASE Replace(u, row[u], new) /\ Proceed(u, pc)
  <2>1. [new EXCEPT !.version = row[u].version + 1] \in Row
    BY <1>1 DEF Row
  <2> QED
    BY <1>1, <1>2, <2>1 DEF Replace, Row
<1>3. CASE Failures /\ Proceed(u, "ended") /\ UNCHANGED row
  BY <1>1, <1>3
<1> QED
  BY <1>2, <1>3 DEF Update
-----------------------------------------------------------------------------
(* The steps of an ingest. *)
LEMMA StartIngestInv ==
    ASSUME UploadInv, NEW u \in Uploads, StartIngest(u)
    PROVE  UploadInv'
<1> DEFINE received == [NoRow EXCEPT !.status = "QUARANTINED", !.bucket = "quarantine",
                                      !.version = 1]
           refused  == [NoRow EXCEPT !.status = "REJECTED", !.version = 1]
<1>1. received \in Row /\ received.status = "QUARANTINED"
  BY DEF Row, NoRow, Bucket, UploadStatus, Verdict
<1>2. refused \in Row /\ refused.status = "REJECTED"
  BY DEF Row, NoRow, Bucket, UploadStatus, Verdict
<1>3. \/ row' = [row EXCEPT ![u] = received] /\ ingest' = [ingest EXCEPT ![u] = "write"]
      \/ row' = [row EXCEPT ![u] = refused] /\ ingest' = [ingest EXCEPT ![u] = "ended"]
  BY DEF StartIngest
<1> HIDE DEF received, refused
<1>4. /\ row' \in [Uploads -> Row]
      /\ \A v \in Uploads \ {u} : row'[v] = row[v]
      /\ row'[u].status = IF ingest'[u] = "write" THEN "QUARANTINED" ELSE "REJECTED"
      /\ ingest'[u] \in {"write", "ended"}
  BY <1>1, <1>2, <1>3 DEF UploadTypeOK
<1>5. OwnStep(u)
  BY <1>4 DEF StartIngest, OwnStep, UploadTypeOK
<1>6. place[u] = "nowhere" /\ u \notin overdue
  BY DEF StartIngest, IngestInv, Stage
<1> QED
  BY <1>4, <1>5, <1>6, OwnStepInv DEF StartIngest, Stage

LEMMA WriteBytesInv ==
    ASSUME UploadInv, NEW u \in Uploads, WriteBytes(u)
    PROVE  UploadInv'
<1>1. OwnStep(u)
  BY DEF WriteBytes, OwnStep, UploadTypeOK, Bucket
<1>2. Stage(u)' /\ ingest'[u] \in {"measure", "discard"} /\ row'[u].status = "QUARANTINED"
  BY DEF WriteBytes, IngestInv, Stage, UploadTypeOK, Bucket
<1> QED
  BY <1>1, <1>2, OwnStepInv DEF WriteBytes

LEMMA MeasureDetectInv ==
    ASSUME UploadInv, NEW u \in Uploads, Measure(u) \/ DetectMime(u)
    PROVE  UploadInv'
<1>1. row[u] \in Row /\ row[u].status = "QUARANTINED" /\ ingest[u] \in {"measure", "detect"}
  BY DEF Measure, DetectMime, UploadTypeOK, IngestInv, Stage
<1>2. UNCHANGED <<place, claims, delivery, purge, overdue, delivered>>
  BY DEF Measure, DetectMime
<1> DEFINE Read ==
      /\ row' \in [Uploads -> Row]
      /\ \A v \in Uploads \ {u} : row'[v] = row[v]
      /\ row'[u].status = "QUARANTINED"
      /\ \E pc \in {"detect", "scan", "discard", "ended"} : ingest' = [ingest EXCEPT ![u] = pc]
<1>3. Read
  <2>1. ASSUME NEW pc \in {"detect", "scan", "discard"}, Update(u, row[u], pc) PROVE Read
    BY <1>1, <2>1, UpdateOutcome
  <2>2. CASE Proceed(u, "discard") /\ UNCHANGED row
    BY <1>1, <2>2 DEF UploadTypeOK
  <2> QED
    BY <2>1, <2>2 DEF Measure, DetectMime
<1>4. OwnStep(u)
  BY <1>1, <1>2, <1>3 DEF OwnStep, UploadTypeOK
<1>5. Stage(u)' /\ ingest'[u] \notin {"move", "commit"}
  BY <1>1, <1>2, <1>3 DEF IngestInv, Stage, UploadTypeOK
<1> QED
  BY <1>2, <1>3, <1>4, <1>5, OwnStepInv

LEMMA ScanInv ==
    ASSUME UploadInv, NEW u \in Uploads, Scan(u)
    PROVE  UploadInv'
<1>1. row[u] \in Row /\ row[u].status = "QUARANTINED" /\ ingest[u] = "scan"
  BY DEF Scan, UploadTypeOK, IngestInv, Stage
<1>2. UNCHANGED <<place, claims, delivery, purge, overdue, delivered>>
  BY DEF Scan
<1>3. /\ row' \in [Uploads -> Row]
      /\ \A v \in Uploads \ {u} : row'[v] = row[v]
      /\ row'[u].status = "QUARANTINED"
      /\ \E pc \in {"claim", "discard", "ended"} : ingest' = [ingest EXCEPT ![u] = pc]
  <2>1. PICK verdict \in Verdict, pc \in {"claim", "discard"} :
          Update(u, [row[u] EXCEPT !.antivirus = verdict], pc)
    BY DEF Scan
  <2> DEFINE new == [row[u] EXCEPT !.antivirus = verdict]
  <2>2. new \in Row /\ new.status = "QUARANTINED" /\ Update(u, new, pc)
    BY <1>1, <2>1 DEF Row
  <2> HIDE DEF new
  <2> QED
    BY <1>1, <2>2, UpdateOutcome DEF UploadTypeOK
<1>4. OwnStep(u)
  BY <1>1, <1>2, <1>3 DEF OwnStep, UploadTypeOK
<1>5. Stage(u)' /\ ingest'[u] \notin {"move", "commit"}
  BY <1>1, <1>2, <1>3 DEF IngestInv, Stage, UploadTypeOK
<1> QED
  BY <1>2, <1>3, <1>4, <1>5, OwnStepInv

(* claim_sha256: a digest without an owner is claimed only if the table shows
   no usable upload of it. *)
LEMMA ClaimDigestInv ==
    ASSUME UploadInv, NEW u \in Uploads, ClaimDigest(u)
    PROVE  UploadInv'
<1>1. /\ UNCHANGED <<row, place, delivery, purge, overdue, delivered>>
      /\ row[u].status = "QUARANTINED" /\ ingest[u] = "claim"
  BY DEF ClaimDigest, IngestInv, Stage
<1>2. CASE DigestIsNew(u) /\ claims' = [claims EXCEPT ![DigestOf[u]] = u] /\ Proceed(u, "move")
  <2>1. OwnStep(u)
    BY <1>1, <1>2 DEF OwnStep, UploadTypeOK
  <2>2. ~LiveDigest(u)
    BY <1>2 DEF DigestIsNew, ClaimInv, UploadTypeOK
  <2>3. \A v \in Uploads : ingest[v] \in {"move", "commit"} => DigestOf[v] # DigestOf[u]
    BY <1>1, <1>2 DEF DigestIsNew, ClaimInv, UploadTypeOK
  <2>4. /\ ingest'[u] = "move" /\ \A v \in Uploads \ {u} : ingest'[v] = ingest[v]
        /\ claims' \in [Digests -> Uploads \cup {"none"}] /\ DigestOf[u] \in Digests
        /\ claims'[DigestOf[u]] = u /\ \A d \in Digests \ {DigestOf[u]} : claims'[d] = claims[d]
    BY <1>2 DEF UploadTypeOK
  <2>5. \A v \in Uploads : LiveDigest(v)' <=> LiveDigest(v)
    BY <1>1 DEF LiveDigest, Usable
  <2>6. ClaimInv'
    BY <2>2, <2>3, <2>4, <2>5 DEF ClaimInv, UploadTypeOK
  <2>7. IngestInv'
    <3>1. Stage(u)'
      BY <1>1, <2>4 DEF IngestInv, Stage
    <3>2. ASSUME NEW v \in Uploads \ {u} PROVE Stage(v)'
      BY <1>1, <2>4, <3>2 DEF IngestInv, Stage
    <3> QED
      BY <3>1, <3>2 DEF IngestInv
  <2>8. UploadTypeOK'
    BY <2>1, <2>4 DEF OwnStep, UploadTypeOK
  <2>9. OneLiveCopyPerDigest' /\ RejectedStaysAway' /\ DeletedHaveNoBucket'
    BY <1>1 DEF OneLiveCopyPerDigest, Usable, RejectedStaysAway, DeletedHaveNoBucket
  <2> QED
    BY <2>1, <2>6, <2>7, <2>8, <2>9, OwnStepUnseen
<1>3. CASE UNCHANGED claims /\ (Proceed(u, "discard") \/ Proceed(u, "ended"))
  <2>1. OwnStep(u) /\ Stage(u)' /\ ingest'[u] \notin {"move", "commit"}
    BY <1>1, <1>3 DEF OwnStep, UploadTypeOK, IngestInv, Stage
  <2> QED
    BY <1>1, <1>3, <2>1, OwnStepInv
<1> QED
  BY <1>2, <1>3 DEF ClaimDigest

LEMMA MoveToCleanInv ==
    ASSUME UploadInv, NEW u \in Uploads, MoveToClean(u)
    PROVE  UploadInv'
<1>1. OwnStep(u)
  BY DEF MoveToClean, MoveFile, OwnStep, UploadTypeOK, Bucket
<1>2. Stage(u)' /\ row'[u].status = "QUARANTINED"
  BY DEF MoveToClean, MoveFile, IngestInv, Stage, UploadTypeOK, Bucket
<1>3. claims[DigestOf[u]] = u
  BY DEF MoveToClean, ClaimInv
<1> QED
  BY <1>1, <1>2, <1>3, OwnStepInv DEF MoveToClean

(* The only step that makes an upload usable: it owns its digest, so no other
   upload of the same content is usable. *)
LEMMA RecordCleanInv ==
    ASSUME UploadInv, NEW u \in Uploads, RecordClean(u)
    PROVE  UploadInv'
<1>1. /\ UNCHANGED <<place, claims, delivery, purge, overdue, delivered>>
      /\ row[u] \in Row /\ row[u].status = "QUARANTINED" /\ ingest[u] = "commit"
      /\ claims[DigestOf[u]] = u
  BY DEF RecordClean, IngestInv, Stage, ClaimInv, UploadTypeOK
<1> DEFINE new == [row[u] EXCEPT !.status = "CLEAN", !.bucket = "clean"]
<1>2. new \in Row /\ new.status = "CLEAN" /\ Update(u, new, "ended")
  BY <1>1 DEF RecordClean, Row, UploadStatus, Bucket
<1> HIDE DEF new
<1>3. /\ row' \in [Uploads -> Row]
      /\ \A v \in Uploads \ {u} : row'[v] = row[v]
      /\ ingest' = [ingest EXCEPT ![u] = "ended"]
      /\ row'[u].status = "CLEAN" \/ row' = row
  BY <1>2, UpdateOutcome
<1>4. OwnStep(u)
  BY <1>1, <1>3 DEF OwnStep, UploadTypeOK
<1>5. CASE row' = row
  BY <1>1, <1>3, <1>4, <1>5, OwnStepInv DEF IngestInv, Stage, UploadTypeOK
<1>6. CASE row'[u].status = "CLEAN"
  <2>1. ~LiveDigest(u) /\ DigestOf[u] \in Digests
    BY <1>1 DEF ClaimInv
  <2>2. Usable' = Usable \cup {u}
    BY <1>3, <1>6 DEF Usable
  <2>3. OneLiveCopyPerDigest'
    BY <2>1, <2>2 DEF OneLiveCopyPerDigest, LiveDigest
  <2>4. ClaimInv'
    <3>1. \A v \in Uploads : ingest'[v] \in {"move", "commit"} => claims[DigestOf[v]] = v
      BY <1>3 DEF ClaimInv, UploadTypeOK
    <3>2. ASSUME NEW d \in Digests, claims[d] # "none"
          PROVE  DigestOf[claims[d]] = d /\ ~LiveDigest(claims[d])'
      BY <1>1, <2>2, <3>2 DEF ClaimInv, LiveDigest
    <3> QED
      BY <1>1, <3>1, <3>2 DEF ClaimInv
  <2>5. IngestInv'
    <3>1. Stage(u)'
      BY <1>1, <1>3 DEF IngestInv, Stage, UploadTypeOK
    <3>2. ASSUME NEW v \in Uploads \ {u} PROVE Stage(v)'
      BY <1>1, <1>3, <3>2 DEF IngestInv, Stage, UploadTypeOK
    <3> QED
      BY <3>1, <3>2 DEF IngestInv
  <2>6. UploadTypeOK'
    BY <1>1, <1>4 DEF OwnStep, UploadTypeOK
  <2>7. RejectedStaysAway' /\ DeletedHaveNoBucket'
    BY <1>1, <1>3, <1>6 DEF RejectedStaysAway, DeletedHaveNoBucket
  <2> QED
    BY <1>4, <2>3, <2>4, <2>5, <2>6, <2>7, OwnStepUnseen
<1> QED
  BY <1>3, <1>5, <1>6

LEMMA DiscardInv ==
    ASSUME UploadInv, NEW u \in Uploads, Discard(u)
    PROVE  UploadInv'
<1>1. OwnStep(u)
  BY DEF Discard, MoveFile, RejectBucket, OwnStep, UploadTypeOK, Bucket
<1>2. Stage(u)' /\ row'[u].status = "QUARANTINED" /\ ingest'[u] \in {"reject", "ended"}
  BY DEF Discard, MoveFile, RejectBucket, IngestInv, Stage, UploadTypeOK, Bucket
<1> QED
  BY <1>1, <1>2, OwnStepInv DEF Discard

LEMMA RecordRejectedInv ==
    ASSUME UploadInv, NEW u \in Uploads, RecordRejected(u)
    PROVE  UploadInv'
<1>1. /\ UNCHANGED <<place, claims, delivery, purge, overdue, delivered>>
      /\ row[u] \in Row /\ row[u].status = "QUARANTINED" /\ ingest[u] = "reject"
      /\ place[u] \in {"nowhere", "rejected"}
  BY DEF RecordRejected, IngestInv, Stage, UploadTypeOK
<1> DEFINE new == [row[u] EXCEPT !.status = "REJECTED",
                       !.bucket = IF place[u] = RejectBucket THEN "rejected" ELSE "none"]
<1>2. new \in Row /\ new.status = "REJECTED" /\ Update(u, new, "ended")
  BY <1>1 DEF RecordRejected, Row, UploadStatus, Bucket
<1> HIDE DEF new
<1>3. /\ row' \in [Uploads -> Row]
      /\ \A v \in Uploads \ {u} : row'[v] = row[v]
      /\ ingest' = [ingest EXCEPT ![u] = "ended"]
      /\ row'[u].status \in {"QUARANTINED", "REJECTED"}
  BY <1>1, <1>2, UpdateOutcome
<1>4. OwnStep(u)
  BY <1>1, <1>3 DEF OwnStep, UploadTypeOK
<1>5. Stage(u)' /\ ingest'[u] = "ended"
  BY <1>1, <1>3 DEF IngestInv, Stage, UploadTypeOK
<1> QED
  BY <1>1, <1>3, <1>4, <1>5, OwnStepInv
-----------------------------------------------------------------------------
(* The delivery.  Nothing it does concerns an ingest or a claimed digest. *)
LEMMA StartClaimInv ==
    ASSUME UploadInv, NEW u \in Uploads, StartClaim(u)
    PROVE  UploadInv'
<1>1. /\ UNCHANGED <<row, place, ingest, claims, purge, overdue, delivered>>
      /\ delivery' = [pc |-> "verify", id |-> u, old |-> row[u]]
      /\ row[u].status = "CLEAN" /\ row[u].bucket = "clean" /\ row[u].antivirus = "CLEAN"
  BY DEF StartClaim, EligibleForDelivery
<1>2. UploadTypeOK'
  BY <1>1 DEF UploadTypeOK
<1>3. ingest[u] = "ended" /\ delivered[u] = 0
  BY <1>1 DEF IngestInv, Stage, DeliveredInv, UploadTypeOK
<1>4. row[u].version \in Nat
  BY DEF UploadTypeOK, Row
<1>5. DeliveryInv'
  BY <1>1, <1>3, <1>4 DEF DeliveryInv, Copies
<1> QED
  BY <1>1, <1>2, <1>5 DEF IngestInv, Stage, ClaimInv, LiveDigest, DeliveredInv, PurgeInv, Copies,
     OneLiveCopyPerDigest, Usable, RejectedStaysAway, DeletedHaveNoBucket

LEMMA VerifyStoredInv == UploadInv /\ VerifyStored => UploadInv'
<1> SUFFICES ASSUME UploadInv, VerifyStored PROVE UploadInv'
  OBVIOUS
<1>1. /\ UNCHANGED <<row, place, ingest, claims, purge, overdue, delivered>>
      /\ delivery.pc = "verify" /\ delivery' \in {[delivery EXCEPT !.pc = "move"], NoCall}
  BY DEF VerifyStored
<1>2. delivery \in DeliveryType
  BY DEF UploadTypeOK, DeliveryType
<1>3. UploadTypeOK'
  BY <1>1, <1>2, NoCallType DEF UploadTypeOK, DeliveryType
<1>4. DeliveryInv'
  BY <1>1, <1>2 DEF DeliveryType, NoCall, DeliveryInv, Copies
<1> QED
  BY <1>1, <1>3, <1>4 DEF IngestInv, Stage, ClaimInv, LiveDigest, DeliveredInv, PurgeInv, Copies,
     OneLiveCopyPerDigest, Usable, RejectedStaysAway, DeletedHaveNoBucket

(* The bytes move out of "clean", which the copy of a purge that is as new as
   the row still names. *)
LEMMA MoveToProcessedInv == UploadInv /\ MoveToProcessed => UploadInv'
<1> SUFFICES ASSUME UploadInv, MoveToProcessed PROVE UploadInv'
  OBVIOUS
<1> DEFINE u == delivery.id
<1>1. /\ UNCHANGED <<row, ingest, claims, purge, overdue, delivered>>
      /\ delivery.pc = "move" /\ u \in Uploads
      /\ delivery' \in {[delivery EXCEPT !.pc = "record"], NoCall}
      /\ place' \in {[place EXCEPT ![u] = "processed"], place}
  BY DEF MoveToProcessed, MoveFile, DeliveryInv
<1>2. UploadTypeOK'
  BY <1>1, NoCallType DEF UploadTypeOK, DeliveryType, Bucket
<1>3. DeliveryInv'
  BY <1>1 DEF UploadTypeOK, NoCall, DeliveryInv, Copies
<1>4. /\ ingest[u] = "ended" /\ row[u].status \in {"CLEAN", "DELETED"}
      /\ row[u].bucket # "processed"
  BY <1>1 DEF DeliveryInv, DeletedHaveNoBucket
<1>5. /\ place'[u] \in {"processed", place[u]}
      /\ \A v \in Uploads \ {u} : place'[v] = place[v]
  BY <1>1 DEF UploadTypeOK
<1> HIDE DEF u
<1>6. IngestInv' /\ RejectedStaysAway'
  BY <1>1, <1>4, <1>5 DEF IngestInv, Stage, RejectedStaysAway
<1>7. PurgeInv'
  <2>1. \A v \in DOMAIN purge.rows : v \in overdue /\ Copies(v, purge.rows[v])'
    BY <1>1 DEF PurgeInv, Copies
  <2>2. ASSUME purge.pc = "record", purge.rows[purge.id].version = row[purge.id].version
        PROVE  purge.id \in DOMAIN purge.rows /\ place'[purge.id] # row[purge.id].bucket
    BY <1>1, <1>4, <1>5, <2>2 DEF PurgeInv, UploadTypeOK
  <2> QED
    BY <1>1, <2>1, <2>2 DEF PurgeInv
<1> QED
  BY <1>1, <1>2, <1>3, <1>6, <1>7 DEF ClaimInv, LiveDigest, DeliveredInv, OneLiveCopyPerDigest,
     Usable, DeletedHaveNoBucket

LEMMA OpenProcessedInv == UploadInv /\ OpenProcessed => UploadInv'
<1> SUFFICES ASSUME UploadInv, OpenProcessed PROVE UploadInv'
  OBVIOUS
<1>1. /\ UNCHANGED <<row, place, ingest, claims, purge, overdue, delivered>>
      /\ delivery.pc = "open" /\ delivery' \in {[delivery EXCEPT !.pc = "handout"], NoCall}
  BY DEF OpenProcessed
<1>2. delivery \in DeliveryType
  BY DEF UploadTypeOK, DeliveryType
<1>3. UploadTypeOK'
  BY <1>1, <1>2, NoCallType DEF UploadTypeOK, DeliveryType
<1>4. DeliveryInv'
  BY <1>1, <1>2 DEF DeliveryType, NoCall, DeliveryInv, Copies
<1> QED
  BY <1>1, <1>3, <1>4 DEF IngestInv, Stage, ClaimInv, LiveDigest, DeliveredInv, PurgeInv, Copies,
     OneLiveCopyPerDigest, Usable, RejectedStaysAway, DeletedHaveNoBucket

LEMMA HandOutInv == UploadInv /\ HandOut => UploadInv'
<1> SUFFICES ASSUME UploadInv, HandOut PROVE UploadInv'
  OBVIOUS
<1> DEFINE u == delivery.id
<1>1. /\ UNCHANGED <<row, place, ingest, claims, purge, overdue>>
      /\ delivery.pc = "handout" /\ delivery' = NoCall
      /\ delivered' = [delivered EXCEPT ![u] = @ + 1]
  BY DEF HandOut
<1>2. /\ u \in Uploads /\ ingest[u] = "ended" /\ delivered[u] = 0
      /\ row[u].antivirus = "CLEAN" /\ row[u].status \in {"PROCESSED", "DELETED"}
  BY <1>1 DEF DeliveryInv
<1> HIDE DEF u
<1>3. UploadTypeOK'
  BY <1>1, <1>2, NoCallType DEF UploadTypeOK, DeliveryType
<1>4. DeliveryInv'
  BY <1>1 DEF NoCall, DeliveryInv
<1>5. DeliveredInv'
  BY <1>1, <1>2 DEF UploadTypeOK, DeliveredInv
<1> QED
  BY <1>1, <1>3, <1>4, <1>5 DEF IngestInv, Stage, ClaimInv, LiveDigest, PurgeInv, Copies,
     OneLiveCopyPerDigest, Usable, RejectedStaysAway, DeletedHaveNoBucket

(* repository.replace under the version of a copy replaces the copied row,
   and makes every other copy old. *)
LEMMA ReplaceRow ==
    ASSUME UploadInv, NEW u \in Uploads, NEW old \in Row, NEW new \in Row,
           Copies(u, old), Replace(u, old, new)
    PROVE  /\ old = row[u]
           /\ row' \in [Uploads -> Row]
           /\ \A v \in Uploads \ {u} : row'[v] = row[v]
           /\ row'[u].status = new.status /\ row'[u].bucket = new.bucket
           /\ row'[u].antivirus = new.antivirus
           /\ row'[u].version = row[u].version + 1
           /\ \A copy \in Row : copy.version <= row[u].version =>
                 copy.version <= row'[u].version /\ copy.version # row'[u].version
<1>1. old = row[u]
  BY DEF Replace, SameVersion, Copies
<1>2. row \in [Uploads -> Row] /\ old.version \in Nat
  BY DEF UploadTypeOK, Row
<1>3. [new EXCEPT !.version = old.version + 1] \in Row
  BY <1>2 DEF Row
<1>4. /\ row' \in [Uploads -> Row]
      /\ \A v \in Uploads \ {u} : row'[v] = row[v]
      /\ row'[u] = [new EXCEPT !.version = old.version + 1]
  BY <1>2, <1>3 DEF Replace
<1>5. /\ row'[u].status = new.status /\ row'[u].bucket = new.bucket
      /\ row'[u].antivirus = new.antivirus /\ row'[u].version = old.version + 1
  BY <1>4 DEF Row
<1>6. \A copy \in Row : copy.version \in Nat
  BY DEF Row
<1> QED
  BY <1>1, <1>2, <1>4, <1>5, <1>6

LEMMA RecordProcessedInv == UploadInv /\ RecordProcessed => UploadInv'
<1> SUFFICES ASSUME UploadInv, RecordProcessed PROVE UploadInv'
  OBVIOUS
<1> DEFINE u == delivery.id
           old == delivery.old
           new == [old EXCEPT !.status = "PROCESSED", !.bucket = "processed"]
<1>1. /\ UNCHANGED <<place, ingest, claims, purge, overdue, delivered>>
      /\ delivery.pc = "record" /\ delivery \in DeliveryType
  BY DEF RecordProcessed, UploadTypeOK, DeliveryType
<1>2. /\ u \in Uploads /\ ingest[u] = "ended" /\ delivered[u] = 0 /\ row[u].antivirus = "CLEAN"
      /\ old \in Row /\ old.status = "CLEAN" /\ Copies(u, old)
  BY <1>1 DEF DeliveryInv, DeliveryType
<1>3. CASE Replace(u, old, new) /\ delivery' = [delivery EXCEPT !.pc = "open"]
  <2>1. /\ new \in Row /\ new.status = "PROCESSED" /\ new.bucket = "processed"
        /\ new.antivirus = old.antivirus
    BY <1>2 DEF Row, UploadStatus, Bucket
  <2>2. /\ delivery'.pc = "open" /\ delivery'.id = u /\ delivery' \in DeliveryType
    BY <1>1, <1>3 DEF DeliveryType
  <2> HIDE DEF u, old, new
  <2>3. /\ old = row[u]
        /\ row' \in [Uploads -> Row]
        /\ \A v \in Uploads \ {u} : row'[v] = row[v]
        /\ row'[u].status = "PROCESSED" /\ row'[u].bucket = "processed"
        /\ row'[u].antivirus = "CLEAN"
        /\ \A copy \in Row : copy.version <= row[u].version =>
              copy.version <= row'[u].version /\ copy.version # row'[u].version
    BY <1>2, <1>3, <2>1, ReplaceRow
  <2>4. UploadTypeOK'
    BY <1>1, <2>2, <2>3 DEF UploadTypeOK, DeliveryType
  <2>5. Usable' = Usable
    BY <1>2, <2>3 DEF Usable
  <2>6. ClaimInv' /\ OneLiveCopyPerDigest'
    BY <1>1, <2>5 DEF ClaimInv, LiveDigest, OneLiveCopyPerDigest
  <2>7. IngestInv' /\ RejectedStaysAway' /\ DeletedHaveNoBucket'
    BY <1>1, <1>2, <2>3 DEF IngestInv, Stage, RejectedStaysAway, DeletedHaveNoBucket
  <2>8. DeliveryInv' /\ DeliveredInv'
    BY <1>1, <1>2, <2>2, <2>3 DEF DeliveryInv, DeliveredInv
  <2>9. PurgeInv'
    BY <1>1, <2>3 DEF PurgeInv, Copies, UploadTypeOK
  <2> QED
    BY <2>4, <2>6, <2>7, <2>8, <2>9
<1>4. CASE delivery' = NoCall /\ UNCHANGED row
  <2>1. UploadTypeOK'
    BY <1>1, <1>4, NoCallType DEF UploadTypeOK, DeliveryType
  <2>2. DeliveryInv'
    BY <1>4 DEF DeliveryInv, NoCall
  <2> QED
    BY <1>1, <1>4, <2>1, <2>2 DEF IngestInv, Stage, ClaimInv, LiveDigest, DeliveredInv, PurgeInv,
       Copies, OneLiveCopyPerDigest, Usable, RejectedStaysAway, DeletedHaveNoBucket
<1> QED
  BY <1>3, <1>4 DEF RecordProcessed
-----------------------------------------------------------------------------
(* The purge.  It touches overdue uploads only, whose ingest has ended. *)
LEMMA StartPurgeInv == UploadInv /\ StartPurge => UploadInv'
<1> SUFFICES ASSUME UploadInv, StartPurge PROVE UploadInv'
  OBVIOUS
<1>1. /\ UNCHANGED <<row, place, ingest, claims, delivery, overdue, delivered>>
      /\ purge' = [pc |-> "delete", id |-> "none", rows |-> [u \in Purgeable |-> row[u]]]
      /\ Purgeable \subseteq overdue
  BY DEF StartPurge, Purgeable
<1>2. UploadTypeOK'
  BY <1>1 DEF UploadTypeOK
<1>3. \A u \in Uploads : row[u].version \in Nat
  BY DEF UploadTypeOK, Row
<1>4. PurgeInv'
  BY <1>1, <1>3 DEF PurgeInv, Copies, UploadTypeOK
<1> QED
  BY <1>1, <1>2, <1>4 DEF IngestInv, Stage, ClaimInv, LiveDigest, DeliveryInv, DeliveredInv, Copies,
     OneLiveCopyPerDigest, Usable, RejectedStaysAway, DeletedHaveNoBucket

LEMMA AbortPurgeInv == UploadInv /\ AbortPurge => UploadInv'
<1> SUFFICES ASSUME UploadInv, AbortPurge PROVE UploadInv'
  OBVIOUS
<1>1. /\ UNCHANGED <<row, place, ingest, claims, delivery, overdue, delivered>>
      /\ purge' = NoRun
  BY DEF AbortPurge
<1>2. UploadTypeOK' /\ PurgeInv'
  BY <1>1 DEF UploadTypeOK, NoRun, PurgeInv
<1> QED
  BY <1>1, <1>2 DEF IngestInv, Stage, ClaimInv, LiveDigest, DeliveryInv, DeliveredInv, Copies,
     OneLiveCopyPerDigest, Usable, RejectedStaysAway, DeletedHaveNoBucket

LEMMA PurgeBytesInv ==
    ASSUME UploadInv, NEW u \in Uploads, PurgeBytes(u)
    PROVE  UploadInv'
<1>1. /\ UNCHANGED <<row, ingest, claims, delivery, overdue, delivered>>
      /\ u \in DOMAIN purge.rows /\ u \in overdue /\ ingest[u] = "ended"
      /\ purge'.pc = "record" /\ purge'.id = u /\ purge'.rows = purge.rows
      /\ purge' = [pc |-> purge'.pc, id |-> purge'.id, rows |-> purge'.rows]
  BY DEF PurgeBytes, PurgeInv, IngestInv, Stage, UploadTypeOK
<1>2. /\ place' \in [Uploads -> Bucket \cup {"nowhere"}]
      /\ place'[u] \in {place[u], "nowhere"} /\ place'[u] # purge.rows[u].bucket
      /\ \A v \in Uploads \ {u} : place'[v] = place[v]
  <2>1. purge.rows[u].bucket # "nowhere"
    BY <1>1 DEF UploadTypeOK, Row, Bucket
  <2> QED
    BY <2>1 DEF PurgeBytes, Unlink, UploadTypeOK
<1>3. UploadTypeOK'
  BY <1>1, <1>2 DEF UploadTypeOK
<1>4. IngestInv' /\ RejectedStaysAway'
  BY <1>1, <1>2 DEF IngestInv, Stage, RejectedStaysAway
<1>5. DeliveryInv'
  BY <1>1, <1>2 DEF DeliveryInv, Copies
<1>6. PurgeInv'
  BY <1>1, <1>2 DEF PurgeInv, Copies
<1> QED
  BY <1>1, <1>3, <1>4, <1>5, <1>6 DEF ClaimInv, LiveDigest, DeliveredInv, OneLiveCopyPerDigest,
     Usable, DeletedHaveNoBucket

(* The update that records a deletion: the copy was the row, and the bytes
   are gone from the directory the row names. *)
LEMMA PurgeRowInv ==
    ASSUME UploadInv, NEW u \in Uploads, PurgeRow(u)
    PROVE  UploadInv'
<1> DEFINE old == purge.rows[u]
           new == [old EXCEPT !.status = "DELETED", !.bucket = "none"]
           rest == Keep(purge.rows, u)
<1>1. /\ UNCHANGED <<place, ingest, claims, delivery, overdue, delivered>>
      /\ purge.pc = "record" /\ purge.id = u /\ u \in DOMAIN purge.rows
      /\ u \in overdue /\ ingest[u] = "ended" /\ old \in Row /\ Copies(u, old)
      /\ old.version = row[u].version => place[u] # row[u].bucket
  BY DEF PurgeRow, PurgeInv, IngestInv, Stage, UploadTypeOK
<1>2. CASE /\ Replace(u, old, new)
           /\ purge' = IF rest = NoRun.rows THEN NoRun
                       ELSE [pc |-> "delete", id |-> "none", rows |-> rest]
  <2>1. /\ new \in Row /\ new.status = "DELETED" /\ new.bucket = "none"
        /\ new.antivirus = old.antivirus
    BY <1>1 DEF Row, UploadStatus, Bucket
  <2>2. /\ purge'.pc \in {"idle", "delete"} /\ purge'.id = "none"
        /\ purge' = [pc |-> purge'.pc, id |-> purge'.id, rows |-> purge'.rows]
        /\ DOMAIN purge'.rows \subseteq DOMAIN purge.rows
        /\ purge'.rows = [v \in DOMAIN purge'.rows |-> purge.rows[v]]
    BY <1>2 DEF NoRun, Keep
  <2> HIDE DEF old, new, rest
  <2>3. /\ old = row[u]
        /\ row' \in [Uploads -> Row]
        /\ \A v \in Uploads \ {u} : row'[v] = row[v]
        /\ row'[u].status = "DELETED" /\ row'[u].bucket = "none"
        /\ row'[u].antivirus = row[u].antivirus
        /\ \A copy \in Row : copy.version <= row[u].version =>
              copy.version <= row'[u].version /\ copy.version # row'[u].version
    BY <1>1, <1>2, <2>1, ReplaceRow
  <2>4. UploadTypeOK'
    BY <1>1, <2>2, <2>3 DEF UploadTypeOK
  <2>5. Usable' = Usable \ {u}
    BY <2>3 DEF Usable
  <2>6. ClaimInv' /\ OneLiveCopyPerDigest'
    BY <1>1, <2>5 DEF ClaimInv, LiveDigest, OneLiveCopyPerDigest
  <2>7. IngestInv' /\ RejectedStaysAway' /\ DeletedHaveNoBucket'
    BY <1>1, <2>3 DEF IngestInv, Stage, RejectedStaysAway, DeletedHaveNoBucket
  <2>8. DeliveryInv'
    <3>1. delivery.id # u => DeliveryInv'
      BY <1>1, <2>3 DEF DeliveryInv, Copies
    <3>2. delivery.id = u => DeliveryInv'
      <4>1. delivery.old \in Row
        BY DEF UploadTypeOK
      <4> QED
        BY <1>1, <2>3, <4>1 DEF DeliveryInv, Copies, old
    <3> QED
      BY <3>1, <3>2
  <2>9. DeliveredInv'
    BY <1>1, <2>3 DEF DeliveredInv
  <2>10. PurgeInv'
    <3>1. \A v \in DOMAIN purge'.rows :
            /\ v \in DOMAIN purge.rows /\ v \in Uploads
            /\ purge'.rows[v] = purge.rows[v] /\ purge.rows[v] \in Row
      BY <2>2 DEF UploadTypeOK
    <3>2. \A v \in DOMAIN purge'.rows : v \in overdue' /\ Copies(v, purge.rows[v])'
      BY <1>1, <2>3, <3>1 DEF PurgeInv, Copies
    <3> QED
      BY <2>2, <3>1, <3>2 DEF PurgeInv, Copies
  <2> QED
    BY <2>4, <2>6, <2>7, <2>8, <2>9, <2>10
<1>3. CASE purge' = NoRun /\ UNCHANGED row
  <2>1. UploadTypeOK' /\ PurgeInv'
    BY <1>1, <1>3 DEF UploadTypeOK, NoRun, PurgeInv
  <2> QED
    BY <1>1, <1>3, <2>1 DEF IngestInv, Stage, ClaimInv, LiveDigest, DeliveryInv, DeliveredInv,
       Copies, OneLiveCopyPerDigest, Usable, RejectedStaysAway, DeletedHaveNoBucket
<1> QED
  BY <1>2, <1>3 DEF PurgeRow
-----------------------------------------------------------------------------
LEMMA ElapseInv ==
    ASSUME UploadInv, NEW u \in Uploads, Elapse(u)
    PROVE  UploadInv'
<1>1. /\ UNCHANGED <<row, place, ingest, claims, delivery, purge, delivered>>
      /\ ingest[u] = "ended" /\ overdue' = overdue \cup {u}
  BY DEF Elapse
<1>2. UploadTypeOK' /\ IngestInv' /\ PurgeInv'
  BY <1>1 DEF UploadTypeOK, IngestInv, Stage, PurgeInv, Copies
<1> QED
  BY <1>1, <1>2 DEF ClaimInv, LiveDigest, DeliveryInv, DeliveredInv, Copies,
     OneLiveCopyPerDigest, Usable, RejectedStaysAway, DeletedHaveNoBucket

(* A crash ends every ingest and forgets the claims with them, so no digest
   is left without an owner that is about to become usable. *)
LEMMA CrashInv == UploadInv /\ Crash => UploadInv'
<1> SUFFICES ASSUME UploadInv, Crash PROVE UploadInv'
  OBVIOUS
<1>1. /\ UNCHANGED <<row, place, purge, overdue, delivered>>
      /\ delivery' = NoCall
      /\ ingest' = [u \in Uploads |-> IF ingest[u] = "new" THEN "new" ELSE "ended"]
      /\ claims' = [d \in Digests |-> "none"]
  BY DEF Crash
<1>2. UploadTypeOK'
  BY <1>1, NoCallType DEF UploadTypeOK, DeliveryType
<1>3. IngestInv' /\ ClaimInv' /\ DeliveredInv'
  BY <1>1 DEF IngestInv, Stage, ClaimInv, DeliveredInv
<1>4. DeliveryInv' /\ PurgeInv'
  BY <1>1 DEF DeliveryInv, NoCall, PurgeInv, Copies
<1> QED
  BY <1>1, <1>2, <1>3, <1>4 DEF OneLiveCopyPerDigest, Usable, RejectedStaysAway,
     DeletedHaveNoBucket

LEMMA NextUploadInv == UploadInv /\ [Next]_vars => UploadInv'
<1> SUFFICES ASSUME UploadInv, [Next]_vars PROVE UploadInv'
  OBVIOUS
<1>1. ASSUME NEW u \in Uploads, Ingest(u) PROVE UploadInv'
  BY ONLY <1>1, UploadInv, StartIngestInv, WriteBytesInv, MeasureDetectInv, ScanInv,
     ClaimDigestInv, MoveToCleanInv, RecordCleanInv, DiscardInv, RecordRejectedInv DEF Ingest
<1>2. CASE Claim
  BY ONLY <1>2, UploadInv, StartClaimInv, VerifyStoredInv, MoveToProcessedInv,
     RecordProcessedInv, OpenProcessedInv, HandOutInv DEF Claim
<1>3. ASSUME NEW u \in Uploads, PurgeBytes(u) \/ PurgeRow(u) \/ Elapse(u) PROVE UploadInv'
  BY ONLY <1>3, UploadInv, PurgeBytesInv, PurgeRowInv, ElapseInv
<1>4. CASE StartPurge \/ AbortPurge \/ Crash
  BY ONLY <1>4, UploadInv, StartPurgeInv, AbortPurgeInv, CrashInv
<1>5. CASE UNCHANGED vars
  BY <1>5 DEF vars, UploadTypeOK, IngestInv, Stage, ClaimInv, LiveDigest, DeliveryInv,
     DeliveredInv, PurgeInv, Copies, OneLiveCopyPerDigest, Usable, RejectedStaysAway,
     DeletedHaveNoBucket
<1> QED
  BY ONLY <1>1, <1>2, <1>3, <1>4, <1>5, [Next]_vars DEF Next
-----------------------------------------------------------------------------
(* Rows, bytes, claims, the delivery and the purge agree in every behaviour. *)
THEOREM UploadInvariantHolds == Spec => []UploadInv
BY InitUploadInv, NextUploadInv, PTL DEF Spec

(* Type correctness. *)
THEOREM UploadTypeCorrect == Spec => []UploadTypeOK
<1>1. UploadInv => UploadTypeOK
  OBVIOUS
<1> QED
  BY <1>1, UploadInvariantHolds, PTL

(* claim_sha256 with its in-memory claims: two uploads of one content are
   never both usable, whatever crashes forget. *)
THEOREM OneUsableCopy == Spec => []OneLiveCopyPerDigest
<1>1. UploadInv => OneLiveCopyPerDigest
  OBVIOUS
<1> QED
  BY <1>1, UploadInvariantHolds, PTL

(* claim_clean_upload and _reject: what was handed out was vetted, and handed
   out once; the bytes of a REJECTED row are in none of the directories from
   which files are delivered. *)
THEOREM OnlyVettedHandedOut == Spec => []OnlyVettedDelivered
<1>1. UploadInv => OnlyVettedDelivered
  BY DEF DeliveredInv, OnlyVettedDelivered
<1> QED
  BY <1>1, UploadInvariantHolds, PTL

(* claim_clean_upload and the purge: whatever the purge has copied of the row
   and whenever it comes, the claim opens a file to hand it out only while the
   row says PROCESSED. *)
THEOREM OpenedAsRecorded == Spec => OpenedWhileRecorded
<1> DEFINE Recorded ==
      delivery'.pc = "handout" /\ delivery.pc # "handout" =>
          row[delivery'.id].status = "PROCESSED"
<1>1. UploadInv /\ [Next]_vars => [Recorded]_vars
  <2> SUFFICES ASSUME UploadInv, Next, delivery'.pc = "handout", delivery.pc # "handout"
               PROVE  row[delivery'.id].status = "PROCESSED"
    BY DEF vars
  <2> USE DEF NoCall
  <2>1. ASSUME NEW v \in Uploads, Ingest(v) PROVE FALSE
    BY <2>1 DEF Ingest, StartIngest, WriteBytes, Measure, DetectMime, Scan, ClaimDigest,
       MoveToClean, RecordClean, Discard, RecordRejected
  <2>2. ASSUME NEW v \in Uploads, PurgeBytes(v) \/ PurgeRow(v) \/ Elapse(v) PROVE FALSE
    BY <2>2 DEF PurgeBytes, PurgeRow, Elapse
  <2>3. CASE StartPurge \/ AbortPurge \/ Crash
    BY <2>3 DEF StartPurge, AbortPurge, Crash
  <2>4. ASSUME Claim, ~OpenProcessed PROVE FALSE
    BY <2>4 DEF Claim, StartClaim, VerifyStored, MoveToProcessed, RecordProcessed, HandOut,
       UploadTypeOK
  <2>5. CASE OpenProcessed
    BY <2>5 DEF OpenProcessed, DeliveryInv, UploadTypeOK
  <2> QED
    BY ONLY <2>1, <2>2, <2>3, <2>4, <2>5, Next DEF Next, Claim
<1> QED
  BY <1>1, UploadInvariantHolds, PTL DEF Spec, OpenedWhileRecorded
-----------------------------------------------------------------------------
(* Why a row may say DELETED while its bytes are still there.  While nothing
   fails or dies, the bytes of a finished upload lie where its row says or
   nowhere; the one exception is a file that a claim has moved and not yet
   recorded, which is the row the claim read. *)
Moved(u) == delivery.pc = "record" /\ delivery.id = u

PlacedInv ==
    /\ \A u \in Uploads :
         ingest[u] = "ended" /\ ~Moved(u) => place[u] \in {row[u].bucket, "nowhere"}
    /\ delivery.pc \in Claiming =>
         row[delivery.id] = delivery.old \/ row[delivery.id].status = "DELETED"
    /\ delivery.pc = "record" =>
         \/ place[delivery.id] = "nowhere"
         \/ place[delivery.id] = "processed" /\ row[delivery.id] = delivery.old

(* No purge records the deletion of a file between the claim's move and its
   update of the row. *)
Undisturbed == delivery.pc = "record" => row'[delivery.id].status # "DELETED"
ClaimUndisturbed == [][Undisturbed]_vars

LEMMA UpdateSucceeds ==
    ASSUME UploadInv, ~Failures, NEW u \in Uploads, NEW new \in Row, NEW pc, Update(u, new, pc)
    PROVE  /\ \A v \in Uploads \ {u} : row'[v] = row[v]
           /\ row'[u].bucket = new.bucket
           /\ ingest' = [ingest EXCEPT ![u] = pc]
<1>1. row \in [Uploads -> Row]
  BY DEF UploadTypeOK
<1>2. row' = [row EXCEPT ![u] = [new EXCEPT !.version = row[u].version + 1]]
  BY DEF Update, Replace
<1> QED
  BY <1>1, <1>2 DEF Update, Row

(* An ingest leaves its file where the row it leaves says. *)
LEMMA IngestPlaces ==
    ASSUME UploadInv, ~Failures, NEW u \in Uploads, Ingest(u)
    PROVE  /\ ingest[u] # "ended"
           /\ ingest'[u] = "ended" => place'[u] \in {row'[u].bucket, "nowhere"}
           /\ \A v \in Uploads \ {u} :
                row'[v] = row[v] /\ place'[v] = place[v] /\ ingest'[v] = ingest[v]
           /\ delivery' = delivery
<1> DEFINE Good ==
      /\ ingest[u] # "ended"
      /\ ingest'[u] = "ended" => place'[u] \in {row'[u].bucket, "nowhere"}
      /\ \A v \in Uploads \ {u} :
           row'[v] = row[v] /\ place'[v] = place[v] /\ ingest'[v] = ingest[v]
      /\ delivery' = delivery
<1>1. /\ row[u] \in Row /\ Stage(u)
      /\ DOMAIN ingest = Uploads /\ DOMAIN place = Uploads /\ DOMAIN row = Uploads
  BY DEF UploadTypeOK, IngestInv
<1>2. CASE StartIngest(u)
  BY <1>1, <1>2 DEF StartIngest, Stage
<1>3. CASE WriteBytes(u) \/ ClaimDigest(u) \/ MoveToClean(u) \/ Discard(u)
  BY <1>1, <1>3 DEF WriteBytes, ClaimDigest, MoveToClean, Discard, MoveFile
<1>4. CASE Measure(u) \/ DetectMime(u)
  <2>1. /\ UNCHANGED <<place, delivery>> /\ ingest[u] \in {"measure", "detect"}
        /\ \/ \E pc \in {"detect", "scan", "discard"} : Update(u, row[u], pc)
           \/ ingest' = [ingest EXCEPT ![u] = "discard"] /\ UNCHANGED row
    BY <1>4 DEF Measure, DetectMime
  <2>2. ASSUME NEW pc \in {"detect", "scan", "discard"}, Update(u, row[u], pc) PROVE Good
    BY <1>1, <2>1, <2>2, UpdateSucceeds
  <2> QED
    BY <1>1, <2>1, <2>2
<1>5. CASE Scan(u)
  <2>1. PICK verdict \in Verdict, pc \in {"claim", "discard"} :
          Update(u, [row[u] EXCEPT !.antivirus = verdict], pc)
    BY <1>5 DEF Scan
  <2>2. [row[u] EXCEPT !.antivirus = verdict] \in Row
    BY <1>1 DEF Row
  <2>3. /\ \A v \in Uploads \ {u} : row'[v] = row[v]
        /\ ingest' = [ingest EXCEPT ![u] = pc]
    BY <2>1, <2>2, UpdateSucceeds
  <2> QED
    BY <1>1, <1>5, <2>3 DEF Scan
<1>6. CASE RecordClean(u)
  <2> DEFINE new == [row[u] EXCEPT !.status = "CLEAN", !.bucket = "clean"]
  <2>1. new \in Row /\ new.bucket = "clean" /\ Update(u, new, "ended")
    BY <1>1, <1>6 DEF RecordClean, Row, UploadStatus, Bucket
  <2> HIDE DEF new
  <2>2. /\ \A v \in Uploads \ {u} : row'[v] = row[v]
        /\ row'[u].bucket = "clean"
        /\ ingest' = [ingest EXCEPT ![u] = "ended"]
    BY <2>1, UpdateSucceeds
  <2>3. UNCHANGED <<place, delivery>> /\ ingest[u] = "commit"
    BY <1>6 DEF RecordClean
  <2> QED
    BY <1>1, <2>2, <2>3 DEF Stage
<1>7. CASE RecordRejected(u)
  <2> DEFINE new == [row[u] EXCEPT !.status = "REJECTED",
                       !.bucket = IF place[u] = RejectBucket THEN "rejected" ELSE "none"]
  <2>1. /\ new \in Row /\ Update(u, new, "ended")
        /\ new.bucket = IF place[u] = "rejected" THEN "rejected" ELSE "none"
    BY <1>1, <1>7 DEF RecordRejected, RejectBucket, Row, UploadStatus, Bucket
  <2> HIDE DEF new
  <2>2. /\ \A v \in Uploads \ {u} : row'[v] = row[v]
        /\ row'[u].bucket = IF place[u] = "rejected" THEN "rejected" ELSE "none"
        /\ ingest' = [ingest EXCEPT ![u] = "ended"]
    BY <2>1, UpdateSucceeds
  <2>3. UNCHANGED <<place, delivery>> /\ ingest[u] = "reject"
    BY <1>7 DEF RecordRejected
  <2> QED
    BY <1>1, <2>2, <2>3 DEF Stage
<1> QED
  BY ONLY <1>2, <1>3, <1>4, <1>5, <1>6, <1>7, Ingest(u) DEF Ingest

LEMMA IngestPlaced ==
    ASSUME UploadInv, PlacedInv, ~Failures, NEW u \in Uploads, Ingest(u)
    PROVE  PlacedInv'
<1>1. delivery.pc \in Claiming => delivery.id \in Uploads /\ ingest[delivery.id] = "ended"
  BY DEF DeliveryInv
<1>2. delivery.pc \in Claiming => delivery.id \in Uploads \ {u}
  BY <1>1, IngestPlaces
<1>3. /\ \A v \in Uploads \ {u} :
           row'[v] = row[v] /\ place'[v] = place[v] /\ ingest'[v] = ingest[v]
      /\ ingest'[u] = "ended" => place'[u] \in {row'[u].bucket, "nowhere"}
      /\ delivery' = delivery
  BY IngestPlaces
<1> QED
  BY ONLY <1>2, <1>3, PlacedInv DEF PlacedInv, Moved, Claiming
-----------------------------------------------------------------------------
(* A claim whose bytes were found holds the row as it is: a deleted row would
   have none. *)
LEMMA ClaimPlaced ==
    ASSUME UploadInv, PlacedInv, ~Failures, Claim
    PROVE  PlacedInv'
<1> USE DEF PlacedInv, Moved
<1>1. /\ delivery \in DeliveryType /\ DOMAIN row = Uploads /\ DOMAIN place = Uploads
      /\ delivery.pc # "idle" => delivery.id \in Uploads
      /\ delivery.pc \in Claiming =>
           /\ delivery.old.status = "CLEAN" /\ delivery.old.bucket \in Bucket \cup {"none"}
           /\ ingest[delivery.id] = "ended"
           /\ row[delivery.id].status = "CLEAN" => row[delivery.id].bucket = "clean"
  BY DEF UploadTypeOK, DeliveryType, DeliveryInv, Row
<1>2. \A u \in Uploads : row[u].status = "DELETED" => row[u].bucket = "none"
  BY DEF DeletedHaveNoBucket
<1>3. ASSUME NEW u \in Uploads, StartClaim(u) PROVE PlacedInv'
  BY <1>3 DEF StartClaim
<1>4. CASE VerifyStored
  BY <1>1, <1>4 DEF VerifyStored, DeliveryType, NoCall
<1>5. CASE MoveToProcessed
  <2> DEFINE u == delivery.id
  <2>1. CASE /\ MoveFile(u, "clean", "processed")
             /\ delivery' = [delivery EXCEPT !.pc = "record"]
    <3>1. row[u] = delivery.old
      BY <1>1, <1>2, <1>5, <2>1 DEF MoveToProcessed, MoveFile
    <3>2. /\ place'[u] = "processed" /\ \A v \in Uploads \ {u} : place'[v] = place[v]
          /\ delivery'.pc = "record" /\ delivery'.id = u /\ delivery'.old = delivery.old
          /\ UNCHANGED <<row, ingest>> /\ u \in Uploads
      BY <1>1, <1>5, <2>1 DEF MoveToProcessed, MoveFile, DeliveryType
    <3> QED
      BY <1>5, <3>1, <3>2 DEF MoveToProcessed
  <2>2. CASE delivery' = NoCall /\ UNCHANGED place
    BY <1>5, <2>2 DEF MoveToProcessed, NoCall
  <2> QED
    BY <1>5, <2>1, <2>2 DEF MoveToProcessed
<1>6. CASE RecordProcessed
  <2> DEFINE u == delivery.id
             old == delivery.old
             new == [old EXCEPT !.status = "PROCESSED", !.bucket = "processed"]
  <2>1. /\ UNCHANGED <<place, ingest>> /\ delivery.pc = "record"
        /\ u \in Uploads /\ place[u] \in {"processed", "nowhere"}
    BY <1>1, <1>6 DEF RecordProcessed
  <2>2. CASE Replace(u, old, new) /\ delivery' = [delivery EXCEPT !.pc = "open"]
    <3>1. delivery'.pc = "open"
      BY <1>1, <2>2 DEF DeliveryType
    <3>2. old \in Row /\ Copies(u, old)
      BY <1>1, <2>1 DEF DeliveryType, DeliveryInv
    <3>3. new \in Row /\ new.bucket = "processed"
      BY <3>2 DEF Row, UploadStatus, Bucket
    <3> HIDE DEF u, old, new
    <3>4. row'[u].bucket = "processed" /\ \A v \in Uploads \ {u} : row'[v] = row[v]
      BY <2>1, <2>2, <3>2, <3>3, ReplaceRow
    <3>5. \A v \in Uploads \ {u} : ~Moved(v)
      BY DEF u
    <3> QED
      BY <2>1, <3>1, <3>4, <3>5
  <2>3. CASE ~SameVersion(u, old) /\ delivery' = NoCall /\ UNCHANGED row
    <3>1. row[u] # old
      BY <2>3 DEF SameVersion
    <3> QED
      BY <2>1, <2>3, <3>1 DEF NoCall
  <2> QED
    BY <1>6, <2>2, <2>3 DEF RecordProcessed
<1>7. CASE OpenProcessed \/ HandOut
  BY <1>1, <1>7 DEF OpenProcessed, HandOut, DeliveryType, NoCall
<1> QED
  BY ONLY <1>3, <1>4, <1>5, <1>6, <1>7, Claim DEF Claim

(* The purge unlinks what the row names, so a row it records as deleted has
   no bytes, unless a claim has moved them. *)
LEMMA PurgePlaced ==
    ASSUME UploadInv, PlacedInv, NEW u \in Uploads, PurgeBytes(u) \/ PurgeRow(u), Undisturbed
    PROVE  PlacedInv'
<1> USE DEF PlacedInv, Moved
<1>1. DOMAIN row = Uploads /\ DOMAIN place = Uploads
  BY DEF UploadTypeOK
<1>2. CASE PurgeBytes(u)
  <2>1. /\ UNCHANGED <<row, ingest, delivery>> /\ place'[u] \in {place[u], "nowhere"}
        /\ \A v \in Uploads \ {u} : place'[v] = place[v]
    BY <1>1, <1>2 DEF PurgeBytes, Unlink
  <2>2. delivery.pc \in Claiming => delivery.id \in Uploads
    BY DEF DeliveryInv
  <2> QED
    BY <2>1, <2>2
<1>3. CASE PurgeRow(u) /\ UNCHANGED row
  BY <1>3 DEF PurgeRow
<1>4. CASE PurgeRow(u) /\ row' # row
  <2> DEFINE old == purge.rows[u]
             new == [old EXCEPT !.status = "DELETED", !.bucket = "none"]
  <2>1. /\ UNCHANGED <<place, ingest, delivery>> /\ Replace(u, old, new)
        /\ old \in Row /\ Copies(u, old)
        /\ old.version = row[u].version => place[u] # row[u].bucket
    BY <1>4 DEF PurgeRow, PurgeInv, UploadTypeOK
  <2>2. new \in Row /\ new.status = "DELETED" /\ new.bucket = "none"
    BY <2>1 DEF Row, UploadStatus, Bucket
  <2> HIDE DEF old, new
  <2>3. /\ old = row[u] /\ row'[u].status = "DELETED"
        /\ \A v \in Uploads \ {u} : row'[v] = row[v]
    BY <2>1, <2>2, ReplaceRow
  <2>4. ~Moved(u)
    BY <2>3 DEF Undisturbed
  <2>5. ingest[u] = "ended" => place[u] = "nowhere"
    BY <2>1, <2>3, <2>4
  <2>6. delivery.pc \in Claiming => delivery.id \in Uploads
    BY DEF DeliveryInv
  <2> QED
    BY <2>1, <2>3, <2>4, <2>5, <2>6
<1> QED
  BY <1>2, <1>3, <1>4

LEMMA NextPlaced ==
    ASSUME UploadInv, PlacedInv, ~Failures, ~Crashes, [Next]_vars, [Undisturbed]_vars
    PROVE  PlacedInv'
<1>1. ASSUME NEW u \in Uploads, PurgeBytes(u) \/ PurgeRow(u) PROVE PlacedInv'
  <2>1. CASE Undisturbed
    BY <1>1, <2>1, PurgePlaced
  <2>2. CASE UNCHANGED vars
    BY <2>2 DEF vars, PlacedInv, Moved
  <2> QED
    BY <2>1, <2>2
<1>2. ASSUME NEW u \in Uploads, Elapse(u) PROVE PlacedInv'
  BY <1>2 DEF Elapse, PlacedInv, Moved
<1>3. CASE StartPurge \/ AbortPurge \/ Crash \/ UNCHANGED vars
  BY <1>3 DEF StartPurge, AbortPurge, Crash, vars, PlacedInv, Moved
<1> QED
  BY ONLY <1>1, <1>2, <1>3, UploadInv, PlacedInv, ~Failures, [Next]_vars, IngestPlaced,
     ClaimPlaced DEF Next

(* "retain only deletion metadata": without failures and crashes the only way
   to a DELETED row with bytes left on the disk is a purge that records the
   deletion between the two steps of a claim.  So those are the reasons, and
   the only ones, for the run that violates this property. *)
THEOREM ErasedWithoutFaults ==
    ASSUME ~Failures, ~Crashes
    PROVE  Spec /\ ClaimUndisturbed => []DeletedMeansErased
<1>1. Init => PlacedInv
  BY DEF Init, PlacedInv, NoCall
<1>2. UploadInv /\ PlacedInv /\ [Next]_vars /\ [Undisturbed]_vars => PlacedInv'
  BY NextPlaced
<1>3. UploadInv /\ PlacedInv => DeletedMeansErased
  <2> SUFFICES ASSUME UploadInv, PlacedInv, NEW u \in Uploads, row[u].status = "DELETED"
               PROVE  place[u] = "nowhere"
    BY DEF DeletedMeansErased
  <2>1. row[u].bucket = "none" /\ place[u] # "none"
    BY DEF DeletedHaveNoBucket, UploadTypeOK, Bucket
  <2>2. ingest[u] = "ended"
    BY DEF IngestInv, Stage, UploadTypeOK
  <2>3. Moved(u) => delivery.old.status = "CLEAN"
    BY DEF Moved, DeliveryInv
  <2> QED
    BY <2>1, <2>2, <2>3 DEF PlacedInv, Moved
<1> QED
  BY <1>1, <1>2, <1>3, UploadInvariantHolds, PTL DEF Spec, ClaimUndisturbed
=============================================================================
