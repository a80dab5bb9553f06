---------------------------- MODULE MediaLibrary ----------------------------
(***************************************************************************)
(* The media library (domain/media/service.py): quarantined uploads, their *)
(* scan by a worker, human review, licence revisions, the references to an *)
(* asset from contents, image plans and jobs, and deletion.                *)
(*                                                                         *)
(* Rows change when a transaction commits, objects in the private storage  *)
(* at once: a transaction that is lost leaves what it did to the objects.  *)
(* A request that refers to an asset reads the asset and its licence       *)
(* without a lock and inserts its row later (`reading').                   *)
(***************************************************************************)
EXTENDS Integers, Sequences, FiniteSets

CONSTANTS
  Assets,             \* MediaAsset rows
  NoReading,          \* no request is between its checks and its insert
  MaxRevisions,       \* bound: licence revisions of an asset
  MaxReferences,      \* bound: references
  LibraryMaxCrashes   \* bound: transactions lost before or after their commit

VARIABLES
  assets,             \* MediaAsset rows, with the latest MediaInspection
  revisions,          \* per asset, its MediaLicenseRevision rows
  quarantine,         \* assets whose quarantined object exists
  sanitized,          \* assets whose sanitized object exists
  expired,            \* assets whose quarantine_expires_at has passed
  references,         \* MediaUsage rows, selected plan items and job sources
  reading,            \* the request that has checked an asset
  scans,              \* deliveries of media.scan_upload per asset
  blocking,           \* uploads whose scan raised and is to be recorded
  torn,               \* rejections lost after the object was deleted
  stuck,              \* uploads whose delivery was lost for good
  overtaken,          \* assets deleted while a request that had checked them was
                      \* on its way
  libraryCrashes

libraryVars == <<assets, revisions, quarantine, sanitized, expired, references, reading,
                 scans, blocking, torn, stuck, overtaken, libraryCrashes>>

objects == <<quarantine, sanitized>>

\* ref: quarantine_object_ref is set; version: the original version exists.
NoAsset ==
  [state |-> "NONE", ref |-> FALSE, version |-> FALSE, inspection |-> "NONE",
   approved |-> FALSE]

LibraryInit ==
  /\ assets = [a \in Assets |-> NoAsset]
  /\ revisions = [a \in Assets |-> <<>>]
  /\ quarantine = {} /\ sanitized = {} /\ expired = {}
  /\ references = {}
  /\ reading = NoReading
  /\ scans = [a \in Assets |-> 0]
  /\ blocking = {} /\ torn = {} /\ stuck = {} /\ overtaken = {}
  /\ libraryCrashes = 0

Live(a) == assets[a].state \notin {"NONE", "DELETED"}

-----------------------------------------------------------------------------
(* Uploads.                                                                *)

InitiateUpload(a) ==
  /\ assets[a] = NoAsset
  /\ assets' = [assets EXCEPT ![a].state = "AWAITING_UPLOAD", ![a].ref = TRUE]
  /\ UNCHANGED <<overtaken, revisions, objects, expired, references, reading, scans, blocking, torn,
                 stuck, libraryCrashes>>

\* The client stores the object with the upload grant.
PutObject(a) ==
  /\ assets[a].state = "AWAITING_UPLOAD"
  /\ quarantine' = quarantine \cup {a}
  /\ UNCHANGED <<overtaken, assets, revisions, sanitized, expired, references, reading, scans, blocking,
                 torn, stuck, libraryCrashes>>

BlockedRow(row) == [row EXCEPT !.state = "BLOCKED", !.ref = FALSE]

\* An upload that expired, or differs from its declaration, is blocked.  The
\* worker is told after the commit, and the telling may be lost.
CompleteUpload(a) ==
  \E blocked \in BOOLEAN :
    /\ assets[a].state = "AWAITING_UPLOAD" /\ assets[a].ref
    /\ IF a \in expired THEN blocked ELSE a \in quarantine
    /\ assets' = [assets EXCEPT ![a] = IF blocked THEN BlockedRow(@)
                                       ELSE [@ EXCEPT !.state = "QUARANTINED"]]
    /\ quarantine' = IF blocked THEN quarantine \ {a} ELSE quarantine
    /\ \/ /\ scans' = [scans EXCEPT ![a] = IF blocked THEN @ ELSE @ + 1]
          /\ UNCHANGED stuck
       \/ /\ ~blocked
          /\ stuck' = stuck \cup {a}
          /\ UNCHANGED scans
    /\ UNCHANGED <<overtaken, revisions, sanitized, expired, references, reading, blocking, torn,
                   libraryCrashes>>

QuarantineExpires(a) ==
  /\ assets[a].state \in {"AWAITING_UPLOAD", "QUARANTINED"} /\ a \notin expired
  /\ expired' = expired \cup {a}
  /\ UNCHANGED <<overtaken, assets, revisions, objects, references, reading, scans, blocking, torn, stuck,
                 libraryCrashes>>

\* Deviation: blocked uploads are scanned as well.
ScannableAnyway(a) == assets[a].state \in {"QUARANTINED", "BLOCKED"}

\* SCANNING and INSPECTING are never committed.
Scannable(a) == assets[a].state = "QUARANTINED" /\ assets[a].ref

\* What a scan may come to: the upload expired, hash or malware scan refuse it,
\* the inspection blocks it, finds something to review, or finds it safe.
ScanOutcomes(a) ==
  IF a \in expired THEN {"EXPIRED"}
  ELSE IF a \in quarantine THEN {"REFUSED", "UNSAFE", "REVIEW", "SAFE"} ELSE {}

PromoteOriginal(row) == [row EXCEPT !.state = "READY", !.version = TRUE]

ScannedRow(row, o) ==
  CASE o \in {"EXPIRED", "REFUSED"} -> BlockedRow(row)
    [] o = "UNSAFE" -> [BlockedRow(row) EXCEPT !.inspection = "BLOCKED"]
    [] o = "REVIEW" -> [row EXCEPT !.state = "NEEDS_REVIEW", !.inspection = "NEEDS_REVIEW"]
    [] o = "SAFE" -> [PromoteOriginal(row) EXCEPT !.inspection = "SAFE", !.ref = FALSE]

\* put_immutable comes before the quarantined object is deleted.
StoreOutcome(a, o) ==
  /\ sanitized' = IF o \in {"REVIEW", "SAFE"} THEN sanitized \cup {a} ELSE sanitized
  /\ quarantine' = IF o = "REVIEW" THEN quarantine ELSE quarantine \ {a}

LibraryCrash ==
  /\ libraryCrashes < LibraryMaxCrashes
  /\ libraryCrashes' = libraryCrashes + 1

AcknowledgeScan(a) ==
  \/ scans' = [scans EXCEPT ![a] = @ - 1] /\ UNCHANGED libraryCrashes
  \/ LibraryCrash /\ UNCHANGED scans

ProcessQuarantinedUpload(a) ==
  \E o \in ScanOutcomes(a) :
    /\ scans[a] > 0
    /\ Scannable(a)
    /\ assets' = [assets EXCEPT ![a] = ScannedRow(@, o)]
    /\ StoreOutcome(a, o)
    /\ AcknowledgeScan(a)
    /\ UNCHANGED <<overtaken, revisions, expired, references, reading, blocking, torn, stuck>>

\* The worker is lost after it changed the objects and before it committed.
ScanLost(a) ==
  \E o \in ScanOutcomes(a) :
    /\ scans[a] > 0
    /\ Scannable(a)
    /\ StoreOutcome(a, o)
    /\ LibraryCrash
    /\ UNCHANGED <<overtaken, assets, revisions, expired, references, reading, scans, blocking, torn, stuck>>

\* The state is not one to scan, or the file or its inspection is refused with
\* an AppError: rolled back, to be recorded in a transaction of its own.
ScanRefused(a) ==
  /\ scans[a] > 0 /\ a \notin blocking
  /\ Live(a)
  /\ ~Scannable(a) \/ a \in quarantine \ expired
  /\ scans' = [scans EXCEPT ![a] = @ - 1]
  /\ blocking' = blocking \cup {a}
  /\ UNCHANGED <<overtaken, assets, revisions, objects, expired, references, reading, torn, stuck,
                 libraryCrashes>>

\* The object is gone, or the row deleted: the storage's own exception, or the
\* lookup in _block_upload, ends the task and acknowledges the delivery.
ScanAborted(a) ==
  /\ scans[a] > 0
  /\ ~Live(a) \/ (Scannable(a) /\ a \notin quarantine \cup expired)
  /\ scans' = [scans EXCEPT ![a] = @ - 1]
  /\ stuck' = stuck \cup {a}
  /\ UNCHANGED <<overtaken, assets, revisions, objects, expired, references, reading, blocking, torn,
                 libraryCrashes>>

\* The worker may be lost before the delivery is acknowledged.
BlockQuarantinedUpload(a) ==
  /\ a \in blocking
  /\ blocking' = blocking \ {a}
  /\ assets' = [assets EXCEPT ![a].state =
                  IF @ \in {"NONE", "READY", "BLOCKED", "DELETED"} THEN @ ELSE "BLOCKED"]
  /\ \/ UNCHANGED <<scans, libraryCrashes>>
     \/ LibraryCrash /\ scans' = [scans EXCEPT ![a] = @ + 1]
  /\ UNCHANGED <<overtaken, revisions, objects, expired, references, reading, torn, stuck>>

ReviewedRow(row, approve) ==
  IF approve THEN [PromoteOriginal(row) EXCEPT !.ref = FALSE, !.approved = TRUE]
  ELSE BlockedRow(row)

ReviewObjects(a, approve) ==
  /\ sanitized' = IF approve THEN sanitized ELSE sanitized \ {a}
  /\ quarantine' = quarantine \ {a}

ReviewSensitiveUpload(a) ==
  \E approve \in BOOLEAN :
    /\ assets[a].state = "NEEDS_REVIEW"
    /\ assets' = [assets EXCEPT ![a] = ReviewedRow(@, approve)]
    /\ ReviewObjects(a, approve)
    /\ UNCHANGED <<overtaken, revisions, expired, references, reading, scans, blocking, torn, stuck,
                   libraryCrashes>>

\* The same request, lost before its commit.
ReviewLost(a) ==
  \E approve \in BOOLEAN :
    /\ assets[a].state = "NEEDS_REVIEW"
    /\ ReviewObjects(a, approve)
    /\ torn' = IF approve THEN torn ELSE torn \cup {a}
    /\ LibraryCrash
    /\ UNCHANGED <<overtaken, assets, revisions, expired, references, reading, scans, blocking, stuck>>

-----------------------------------------------------------------------------
(* Licences, references and deletion.                                      *)

Scopes == SUBSET {"COMMERCIAL", "EDITORIAL"} \ {{}}

AddLicenseRevision(a) ==
  \E state \in {"ACTIVE", "REVOKED"}, modes \in Scopes :
    /\ Live(a) /\ Len(revisions[a]) < MaxRevisions
    /\ revisions' = [revisions EXCEPT ![a] = Append(@, [state |-> state, modes |-> modes])]
    /\ UNCHANGED <<overtaken, assets, objects, expired, references, reading, scans, blocking, torn, stuck,
                   libraryCrashes>>

CurrentLicense(a) == revisions[a][Len(revisions[a])]

EvaluateUsageRights(rights, mode) == rights.state = "ACTIVE" /\ mode \in rights.modes

Licensed(a) == Live(a) /\ assets[a].version /\ Len(revisions[a]) > 0

UsagePermitted(a, mode) == Licensed(a) /\ EvaluateUsageRights(CurrentLicense(a), mode)

PlanAssetSelectable(a, mode) ==
  assets[a].state = "READY" /\ Licensed(a) /\ EvaluateUsageRights(CurrentLicense(a), mode)

\* A job only asks whether the licence is active and allows derivatives; the
\* mode of use does not matter.
JobSourceUsable(a) ==
  assets[a].state = "READY" /\ Licensed(a) /\ CurrentLicense(a).state = "ACTIVE"

MayRefer(a, kind, mode) ==
  CASE kind = "USAGE" -> UsagePermitted(a, mode)
    [] kind = "PLAN" -> PlanAssetSelectable(a, mode)
    [] kind = "JOB" -> JobSourceUsable(a)

CheckReference(a) ==
  \E kind \in {"USAGE", "PLAN", "JOB"}, mode \in {"COMMERCIAL", "EDITORIAL"} :
    /\ reading = NoReading /\ Cardinality(references) < MaxReferences
    /\ MayRefer(a, kind, mode)
    /\ reading' = [asset |-> a, kind |-> kind, mode |-> mode, revision |-> Len(revisions[a])]
    /\ UNCHANGED <<overtaken, assets, revisions, objects, expired, references, scans, blocking, torn, stuck,
                   libraryCrashes>>

InsertReference ==
  /\ reading # NoReading
  /\ references' = references \cup {reading}
  /\ reading' = NoReading
  /\ UNCHANGED <<overtaken, assets, revisions, objects, expired, scans, blocking, torn, stuck,
                 libraryCrashes>>

DeleteAsset(a) ==
  /\ Live(a)
  /\ \A r \in references : r.asset # a
  /\ assets' = [assets EXCEPT ![a].state = "DELETED"]
  /\ overtaken' = IF reading # NoReading /\ reading.asset = a THEN overtaken \cup {a}
                  ELSE overtaken
  /\ UNCHANGED <<revisions, objects, expired, references, reading, scans, blocking, torn, stuck,
                 libraryCrashes>>

-----------------------------------------------------------------------------
RunUpload(a) ==
  \/ ProcessQuarantinedUpload(a) \/ ScanLost(a) \/ ScanRefused(a) \/ ScanAborted(a)
  \/ BlockQuarantinedUpload(a)

LibraryRequest(a) ==
  \/ InitiateUpload(a) \/ CompleteUpload(a)
  \/ ReviewSensitiveUpload(a) \/ ReviewLost(a)
  \/ AddLicenseRevision(a) \/ CheckReference(a) \/ DeleteAsset(a)

LibraryNext ==
  \/ \E a \in Assets : LibraryRequest(a) \/ RunUpload(a) \/ PutObject(a) \/ QuarantineExpires(a)
  \/ InsertReference

-----------------------------------------------------------------------------
(* Properties.                                                             *)

\* Every row has its columns' types and a revision number names a revision.
LibraryTypeOK ==
  /\ assets \in [Assets ->
       [state : {"NONE", "AWAITING_UPLOAD", "QUARANTINED", "NEEDS_REVIEW", "READY", "BLOCKED",
                 "DELETED"},
        ref : BOOLEAN, version : BOOLEAN,
        inspection : {"NONE", "SAFE", "NEEDS_REVIEW", "BLOCKED"}, approved : BOOLEAN]]
  /\ \A r \in references : r.revision \in 1..Len(revisions[r.asset])
  /\ \A a \in Assets : scans[a] \in 0..1

\* Whatever is redelivered, lost or reviewed late, an image that can be used was
\* found safe by the inspection or approved by a person
\* (process_quarantined_upload, review_sensitive_upload).
ReadyWasCleared ==
  \A a \in Assets : assets[a].version =>
    assets[a].inspection = "SAFE" \/ (assets[a].inspection = "NEEDS_REVIEW" /\ assets[a].approved)

\* A usable image has its sanitized object, although objects are written and
\* deleted before the commit.  The one way to lose it is a rejection that deleted
\* the object and was rolled back before somebody approved the image.
ReadyHasObject ==
  \A a \in Assets : assets[a].state = "READY" => a \in sanitized \cup torn

\* An upload in quarantine is still to be scanned, unless the enqueue was lost or
\* a lost worker had deleted the object already.
NoUploadForgotten ==
  \A a \in Assets : assets[a].state = "QUARANTINED" =>
    scans[a] > 0 \/ a \in blocking \cup stuck

\* Every use of an image in a content or a plan lies within the revision of the
\* licence it is pinned to, although revisions are added meanwhile
\* (evaluate_usage_rights).
UsageWithinRights ==
  \A r \in references :
    LET rights == revisions[r.asset][r.revision]
    IN  rights.state = "ACTIVE" /\ (r.kind # "JOB" => r.mode \in rights.modes)

\* A blocked upload is never used: no redelivered scan, late review or
\* concurrent block brings it back.
BlockedStaysBlocked ==
  \A a \in Assets : assets[a].state \in {"BLOCKED", "DELETED"} =>
    assets'[a].state \in {assets[a].state, "DELETED"}

\* No content, plan or job refers to a deleted image (MEDIA_ASSET_IN_USE,
\* MEDIA_ASSET_REFERENCED), but for a request that checked the image before the
\* deletion and inserted its row after it: delete_asset locks the asset, the
\* requests do not.
ReferencedIsNotDeleted ==
  \A r \in references : assets[r.asset].state = "DELETED" => r.asset \in overtaken

\* What the library promises: an image that can be used was cleared, is stored and is
\* used within its rights, and one that was refused stays so (domain/media/service.py).
LibraryPromise ==
  [][ /\ ( /\ LibraryTypeOK
           /\ ReadyWasCleared
           /\ ReadyHasObject
           /\ NoUploadForgotten
           /\ UsageWithinRights
           /\ ReferencedIsNotDeleted )'
      /\ BlockedStaysBlocked ]_libraryVars

=============================================================================
