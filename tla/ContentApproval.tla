-------------------------- MODULE ContentApproval --------------------------
(***************************************************************************)
(* One content item: its versions (domain/generation) and the approvals of *)
(* them (domain/quality).  A transaction that changes the content locks    *)
(* the content row, then the open approval requests; one that decides a    *)
(* request locks the request, then, through a foreign key of the activity  *)
(* it records, needs the content row.  The store ends such a deadlock by   *)
(* rolling one of the two back.                                            *)
(***************************************************************************)
EXTENDS Naturals, Sequences, FiniteSets

CONSTANTS
  QEditors,             \* people who write
  QPeople,              \* people who approve
  QTexts,               \* documents, by content_hash
  QMaxVersions,         \* bound: ContentVersion rows
  QMaxContexts,         \* bound: changes of channel or metadata
  QMaxRequests,         \* bound: ApprovalRequest rows
  QMaxAssessments,      \* bound: QualityAssessment rows
  QHard, QSoft,         \* policy events that no override, and that an override, lifts
  QQuorum               \* required_approvals of each stage

ASSUME QNumbers ==
  /\ QMaxRequests \in Nat /\ QMaxAssessments \in Nat
  /\ QQuorum \in Seq(Nat) /\ Len(QQuorum) > 0

VARIABLES
  qVersions,            \* ContentVersion rows in order of version_number; the last is current
  qContext,             \* channel and metadata of the content
  qDeleted,             \* deleted_at is set
  qBase,                \* editor |-> the version it opened
  qEdit,                \* the transaction that holds the content row
  qAssess,              \* QualityAssessment: version and blocking events
  qOverridden,          \* events with a PolicyOverride
  qReq,                 \* ApprovalRequest rows with their ApprovalDecision rows
  qAsk,                 \* a request being made
  qDecide               \* person |-> the request row it has locked, or NoRow

qContentVars == <<qVersions, qContext, qDeleted, qBase, qEdit>>
qAssessVars == <<qAssess, qOverridden>>
qApprovalVars == <<qReq, qAsk, qDecide>>
qVars == <<qContentVars, qAssessVars, qApprovalVars>>

QEvents == QHard \cup QSoft
QStages == DOMAIN QQuorum
QRequests == 1..QMaxRequests
QAssessments == 1..QMaxAssessments
NoRow == 0
Worker == "worker"
NoVersion == 0
NoAssessment == [version |-> NoVersion, blocking |-> {}]
NoApproval == [status |-> "NONE", version |-> NoVersion, assessment |-> NoRow, stage |-> 1,
               late |-> FALSE, approved |-> [s \in QStages |-> {}], seen |-> {}]
NotAsking == [request |-> NoRow, version |-> NoVersion, assessment |-> NoRow, old |-> NoRow]
NotEditing == [kind |-> "none", text |-> "none", by |-> Worker]

Current == Len(qVersions)

CaInit ==
  /\ \E t \in QTexts : qVersions = <<[text |-> t, parent |-> NoVersion, base |-> NoVersion]>>
  /\ qContext = 1 /\ qDeleted = FALSE
  /\ qBase = [e \in QEditors |-> NoVersion] /\ qEdit = NotEditing
  /\ qAssess = [a \in QAssessments |-> NoAssessment] /\ qOverridden = {}
  /\ qReq = [r \in QRequests |-> NoApproval]
  /\ qAsk = NotAsking /\ qDecide = [p \in QPeople |-> NoRow]

-----------------------------------------------------------------------------
(* Versions.                                                               *)

ContentFree == qEdit = NotEditing /\ ~qDeleted

OpenVersion(e) ==
  /\ ~qDeleted /\ qBase[e] # Current
  /\ qBase' = [qBase EXCEPT ![e] = Current]
  /\ UNCHANGED <<qVersions, qContext, qDeleted, qEdit, qAssessVars, qApprovalVars>>

\* _assert_current_version, and the same check of restore_version.
AssertCurrentVersion(e) == qBase[e] = Current

\* _content(for_update=True) and the checks of the handler.
EditStart(kind, text, by) ==
  /\ ContentFree /\ qEdit' = [kind |-> kind, text |-> text, by |-> by]
  /\ UNCHANGED <<qVersions, qContext, qDeleted, qBase, qAssessVars, qApprovalVars>>

CreateVersion(e, text) ==
  Current < QMaxVersions /\ AssertCurrentVersion(e) /\ EditStart("version", text, e)

\* The text of an older version, as a version of its own.
RestoreVersion(e, v) ==
  /\ Current < QMaxVersions /\ AssertCurrentVersion(e) /\ v \in DOMAIN qVersions
  /\ EditStart("version", qVersions[v].text, e)

\* finalize_for_review: the worker replaces whatever version is current.
FinalizeForReview(text) == Current < QMaxVersions /\ EditStart("version", text, Worker)

\* update_content with another channel or other metadata.
UpdateContent(e) == qContext < QMaxContexts /\ EditStart("context", "none", e)

SoftDeleteContent ==
  /\ ContentFree /\ qDeleted' = TRUE
  /\ UNCHANGED <<qVersions, qContext, qBase, qEdit, qAssessVars, qApprovalVars>>

AppendVersion ==
  Append(qVersions, [text |-> qEdit.text, parent |-> Current,
                     base |-> IF qEdit.by = Worker THEN Current ELSE qBase[qEdit.by]])

OpenStatuses == {"PENDING", "APPROVED"}

\* Deviation: only the version decides what an edit invalidates.
ByVersionOnly(r, version, force) == qReq[r].version # version

\* invalidate_approvals_for_content_change: which requests an edit invalidates.
Invalidates(r, version, force) == force \/ qReq[r].version # version

InvalidatedRequests(version, force) ==
  [r \in QRequests |->
     IF qReq[r].status \in OpenStatuses /\ Invalidates(r, version, force)
     THEN [qReq[r] EXCEPT !.status = "INVALIDATED"] ELSE qReq[r]]

\* Rows another transaction has locked are waited for.
Locked(r) == qAsk.old = r \/ \E p \in QPeople : qDecide[p] = r
WaitsForRow == \E r \in QRequests : Locked(r) /\ qReq[r].status \in OpenStatuses

EditCommit ==
  /\ qEdit # NotEditing /\ ~WaitsForRow
  /\ IF qEdit.kind = "version"
     THEN /\ qVersions' = AppendVersion /\ UNCHANGED qContext
          /\ qReq' = InvalidatedRequests(Current + 1, FALSE)
     ELSE /\ qContext' = qContext + 1 /\ UNCHANGED qVersions
          /\ qReq' = InvalidatedRequests(Current, TRUE)
  /\ qEdit' = NotEditing
  /\ UNCHANGED <<qDeleted, qBase, qAssessVars, qAsk, qDecide>>

\* The edit is the victim of a deadlock with a decision or a request.
EditRolledBack ==
  /\ qEdit # NotEditing /\ WaitsForRow /\ qEdit' = NotEditing
  /\ UNCHANGED <<qVersions, qContext, qDeleted, qBase, qAssessVars, qApprovalVars>>

-----------------------------------------------------------------------------
(* Assessments.                                                            *)

\* create_report and create_assessment: the events the reports found, without
\* those that were overridden before.
CreateAssessment(a, v, found) ==
  /\ ~qDeleted /\ qAssess[a] = NoAssessment /\ \A b \in 1..(a - 1) : qAssess[b] # NoAssessment
  /\ v \in DOMAIN qVersions
  /\ qAssess' = [qAssess EXCEPT ![a] =
       [version |-> v, blocking |-> found \ (qOverridden \cap QSoft)]]
  /\ UNCHANGED <<qContentVars, qOverridden, qApprovalVars>>

CreatePolicyOverride(e) ==
  /\ e \in QSoft \ qOverridden /\ qOverridden' = qOverridden \cup {e}
  /\ UNCHANGED <<qContentVars, qAssess, qApprovalVars>>

\* _assert_assessment_approval_eligible
AssessmentEligible(a) ==
  /\ qAssess[a].blocking \cap QHard = {}
  /\ qAssess[a].blocking \subseteq qOverridden

-----------------------------------------------------------------------------
(* Approval requests.                                                      *)

\* create_approval_request up to its first insert.
RequestChecked(r, a, old) ==
  /\ qAsk = NotAsking /\ ~qDeleted /\ qReq[r].status = "NONE"
  /\ \A s \in 1..(r - 1) : qReq[s].status # "NONE"
  /\ qAssess[a].version = Current /\ AssessmentEligible(a)
  /\ old # NoRow =>
       /\ qReq[old].status \notin {"NONE", "SUPERSEDED"} /\ ~Locked(old)
       /\ ~(qEdit # NotEditing /\ qReq[old].status \in OpenStatuses)
  /\ qAsk' = [request |-> r, version |-> Current, assessment |-> a, old |-> old]
  /\ UNCHANGED <<qContentVars, qAssessVars, qReq, qDecide>>

\* The insert waits for the content row; approval_request_version_assessment.
RequestInserted ==
  LET r == qAsk.request IN
  /\ qAsk # NotAsking /\ qEdit = NotEditing
  /\ \A other \in QRequests :
       qReq[other].version # qAsk.version \/ qReq[other].assessment # qAsk.assessment
  /\ qReq' = [[s \in QRequests |-> IF s = qAsk.old THEN [qReq[s] EXCEPT !.status = "SUPERSEDED"]
                                   ELSE qReq[s]]
              EXCEPT ![r] = [NoApproval EXCEPT !.status = "PENDING", !.version = qAsk.version,
                                               !.assessment = qAsk.assessment]]
  /\ qAsk' = NotAsking
  /\ UNCHANGED <<qContentVars, qAssessVars, qDecide>>

\* A conflict, or a deadlock with an edit.
RequestRolledBack ==
  /\ qAsk # NotAsking /\ qAsk' = NotAsking
  /\ UNCHANGED <<qContentVars, qAssessVars, qReq, qDecide>>

StageDue(r) ==
  /\ qReq[r].status = "PENDING" /\ ~qReq[r].late /\ ~Locked(r)
  /\ qReq' = [qReq EXCEPT ![r].late = TRUE]
  /\ UNCHANGED <<qContentVars, qAssessVars, qAsk, qDecide>>

MayDecide(r) == qReq[r].status = "PENDING"

DecideStart(p, r) ==
  /\ qDecide[p] = NoRow /\ ~qDeleted /\ MayDecide(r) /\ ~Locked(r)
  /\ qDecide' = [qDecide EXCEPT ![p] = r]
  /\ UNCHANGED <<qContentVars, qAssessVars, qReq, qAsk>>

\* The request's version was replaced: the decision is not recorded.
DecisionTooLate(p, r) ==
  IF qReq[r].version # Current THEN [qReq[r] EXCEPT !.status = "INVALIDATED"]
  ELSE [qReq[r] EXCEPT !.status = "EXPIRED"]

IsTooLate(r) == qReq[r].version # Current \/ qReq[r].late

\* approval_quorum_reached
QuorumReached(r, p) ==
  Cardinality(qReq[r].approved[qReq[r].stage] \cup {p}) >= QQuorum[qReq[r].stage]

Approve(r, p) ==
  LET final == qReq[r].stage = Len(QQuorum) IN
  [qReq[r] EXCEPT
     !.approved[qReq[r].stage] = @ \cup {p}, !.seen = @ \cup {qContext},
     !.status = IF QuorumReached(r, p) /\ final THEN "APPROVED" ELSE "PENDING",
     !.stage = IF QuorumReached(r, p) /\ ~final THEN @ + 1 ELSE @]

\* The activity that records the decision waits for the content row.
DecideCommit(p) ==
  LET r == qDecide[p] IN
  /\ r # NoRow /\ ContentFree
  /\ IF IsTooLate(r) THEN qReq' = [qReq EXCEPT ![r] = DecisionTooLate(p, r)]
     ELSE \/ /\ p \notin qReq[r].approved[qReq[r].stage]
             /\ qReq' = [qReq EXCEPT ![r] = Approve(r, p)]
          \/ \E status \in {"REJECTED", "CHANGES_REQUESTED"} :
               /\ p \notin qReq[r].approved[qReq[r].stage]
               /\ qReq' = [qReq EXCEPT ![r].status = status]
  /\ qDecide' = [qDecide EXCEPT ![p] = NoRow]
  /\ UNCHANGED <<qContentVars, qAssessVars, qAsk>>

\* A refusal, or a deadlock with an edit.
DecideRolledBack(p) ==
  /\ qDecide[p] # NoRow /\ qDecide' = [qDecide EXCEPT ![p] = NoRow]
  /\ UNCHANGED <<qContentVars, qAssessVars, qReq, qAsk>>

-----------------------------------------------------------------------------
ContentRequest ==
  \/ \E e \in QEditors :
       \/ OpenVersion(e) \/ UpdateContent(e)
       \/ \E t \in QTexts : CreateVersion(e, t)
       \/ \E v \in 1..QMaxVersions : RestoreVersion(e, v)
  \/ \E t \in QTexts : FinalizeForReview(t)
  \/ SoftDeleteContent \/ EditCommit \/ EditRolledBack

AssessmentRequest ==
  \/ \E a \in QAssessments, v \in 1..QMaxVersions : \E found \in SUBSET QEvents :
       CreateAssessment(a, v, found)
  \/ \E e \in QSoft : CreatePolicyOverride(e)

ApprovalNext ==
  \/ \E r \in QRequests, a \in QAssessments : \E old \in (QRequests \ {r}) \cup {NoRow} :
       RequestChecked(r, a, old)
  \/ RequestInserted \/ RequestRolledBack
  \/ \E r \in QRequests : StageDue(r) \/ \E p \in QPeople : DecideStart(p, r)
  \/ \E p \in QPeople : DecideCommit(p) \/ DecideRolledBack(p)

CaNext == ContentRequest \/ AssessmentRequest \/ ApprovalNext
CaSpec == CaInit /\ [][CaNext]_qVars

-----------------------------------------------------------------------------
(* Properties.                                                             *)

\* create_version and restore_version: a person's version replaces the version
\* that person had opened, never one somebody else, or the worker, saved since.
SavesSawCurrent ==
  \A v \in DOMAIN qVersions : qVersions[v].base = qVersions[v].parent

\* An approval that stands is for the version readers would get: an edit takes it
\* back, also when the decision, the request and the edit overlap, and restoring
\* the approved text does not bring it back.
ApprovedIsCurrent == \A r \in QRequests : qReq[r].status = "APPROVED" => qReq[r].version = Current

\* Everyone who approved did so for the channel and metadata the content has: a
\* request made while they change carries no approval over.
ApprovedInContext ==
  \A r \in QRequests : qReq[r].status = "APPROVED" => qReq[r].seen = {qContext}

\* An approval was earned: every stage has as many approvals of its own as it asks
\* for, whoever else voted in an earlier stage, and its assessment has no blocking
\* event that nobody may lift, or that nobody lifted.
ApprovalIsEarned ==
  \A r \in QRequests : qReq[r].status = "APPROVED" =>
    /\ \A s \in QStages : Cardinality(qReq[r].approved[s]) >= QQuorum[s]
    /\ qAssess[qReq[r].assessment].version = qReq[r].version
    /\ qAssess[qReq[r].assessment].blocking \subseteq QSoft \cap qOverridden

\* A request that was turned down, has expired, was invalidated or replaced never
\* becomes an approval, by whatever decision is still under way.
RefusalIsFinal ==
  \A r \in QRequests :
    qReq[r].status \notin {"NONE", "PENDING", "APPROVED"} =>
      qReq'[r].status \in {qReq[r].status, "SUPERSEDED"}

\* What approval promises: no save is lost unseen, and what counts as approved is the
\* version readers get, approved by everyone it needs (domain/quality).
ApprovalPromise ==
  [][ /\ ( /\ SavesSawCurrent
           /\ ApprovedIsCurrent
           /\ ApprovedInContext
           /\ ApprovalIsEarned )'
      /\ RefusalIsFinal ]_qVars

=============================================================================
