------------------------------ MODULE Privacy ------------------------------
(***************************************************************************)
(* Data-rights requests, retention sweeps and legal holds of a workspace   *)
(* (domain/security).  Erasing takes the request's row and an advisory     *)
(* lock, the legal hold guard, for one transaction that calls the external *)
(* systems step by step; a lost worker undoes the transaction and not the  *)
(* calls.  Placing and releasing a hold and the sweep take the same guard. *)
(***************************************************************************)
EXTENDS Integers, FiniteSets

CONSTANTS
  PvSteps,              \* PrivacyAction rows of a deletion (seven kinds in the code)
  PvHolds,              \* LegalHold rows
  PvPeople,             \* who places and releases holds
  PvMaxMessages,        \* bound: messages of a request or sweep at a time
  PvMaxDownloads,       \* PrivacyExportArtifact.maximum_downloads
  PvMaxPolicies         \* bound: RetentionPolicyVersion rows

ASSUME PvNumbers == 1 \in PvSteps /\ PvMaxDownloads \in Nat

VARIABLES
  pvKind,               \* PrivacyRequest.kind
  pvState,              \* PrivacyRequest.state
  pvActions,            \* PrivacyAction.state of a step
  pvHolds,              \* LegalHold: state, scope and activated_by
  pvRun,                \* the transaction that holds the guard, and what it has not committed
  pvErased,             \* external: steps whose effect happened
  pvCertificate,        \* whether a DeletionCertificate exists
  pvArtifact,           \* PrivacyExportArtifact: whether it exists, its DOWNLOAD events
  pvGrants,             \* external: download grants issued, by idempotency key
  pvMail,               \* messages of the request and of the sweep: to be sent, sent, one lost
  pvPolicy,             \* the current RetentionPolicyVersion
  pvSweep               \* RetentionSweep: state, and the policy and holds it was made for

pvRequestVars == <<pvKind, pvState, pvActions, pvErased, pvCertificate, pvArtifact, pvGrants>>
pvVars == <<pvRequestVars, pvHolds, pvRun, pvMail, pvPolicy, pvSweep>>

PvKinds == {"DELETE", "EXPORT", "CORRECT"}
StepsOf(kind) == IF kind = "DELETE" THEN PvSteps ELSE {1}
NoPrivacyHold == [state |-> "NONE", scope |-> "other", by |-> "nobody"]
Idle == [who |-> "nobody", actions |-> [i \in PvSteps |-> "NONE"], disposed |-> FALSE]
NoMail == [sending |-> FALSE, sent |-> 0, lost |-> FALSE]

PvInit ==
  /\ pvKind \in PvKinds
  /\ pvState = "NONE" /\ pvActions = Idle.actions
  /\ pvHolds = [h \in PvHolds |-> NoPrivacyHold]
  /\ pvRun = Idle
  /\ pvErased = {} /\ pvCertificate = FALSE
  /\ pvArtifact = [made |-> FALSE, downloads |-> 0] /\ pvGrants = {}
  /\ pvMail = [of \in {"request", "sweep"} |-> NoMail]
  /\ pvPolicy = 1
  /\ pvSweep = [state |-> "NONE", policy |-> 0, holds |-> {}]

-----------------------------------------------------------------------------
(* Legal holds.  The guard is waited for.                                  *)

GuardFree == pvRun = Idle

HoldsInForce == {h \in PvHolds : pvHolds[h].state = "ACTIVE"}

\* _matching_legal_holds: the whole workspace, the subject, one of the data
\* classes, or any target reference; only another subject's hold does not match.
MatchingHolds == {h \in HoldsInForce : pvHolds[h].scope = "matching"}

\* Deviation: a hold is placed without the guard.
PlacesWithoutGuard == TRUE

MayPlaceHold == GuardFree

CreateLegalHold(h, scope, actor) ==
  /\ MayPlaceHold /\ pvHolds[h] = NoPrivacyHold
  /\ pvHolds' = [pvHolds EXCEPT ![h] = [state |-> "ACTIVE", scope |-> scope, by |-> actor]]
  /\ UNCHANGED <<pvRequestVars, pvRun, pvMail, pvPolicy, pvSweep>>

ReleaseLegalHold(h, actor) ==
  /\ GuardFree /\ pvHolds[h].state \in {"ACTIVE", "LAPSED"} /\ pvHolds[h].by # actor
  /\ pvHolds' = [pvHolds EXCEPT ![h].state = "RELEASED"]
  /\ UNCHANGED <<pvRequestVars, pvRun, pvMail, pvPolicy, pvSweep>>

\* expires_at passes; the row still says ACTIVE.
HoldLapses(h) ==
  /\ pvHolds[h].state = "ACTIVE"
  /\ pvHolds' = [pvHolds EXCEPT ![h].state = "LAPSED"]
  /\ UNCHANGED <<pvRequestVars, pvRun, pvMail, pvPolicy, pvSweep>>

-----------------------------------------------------------------------------
(* Messages.  They are sent after the response, once the request's         *)
(* transaction is over, by the process that served it.                     *)

Announce(of) == pvMail' = [pvMail EXCEPT ![of].sending = TRUE]

MessageSent(of) ==
  /\ pvMail[of].sending /\ pvMail[of].sent < PvMaxMessages
  /\ pvMail' = [pvMail EXCEPT ![of].sending = FALSE, ![of].sent = @ + 1]
  /\ UNCHANGED <<pvRequestVars, pvHolds, pvRun, pvPolicy, pvSweep>>

MessageLost(of) ==
  /\ pvMail[of].sending
  /\ pvMail' = [pvMail EXCEPT ![of].sending = FALSE, ![of].lost = TRUE]
  /\ UNCHANGED <<pvRequestVars, pvHolds, pvRun, pvPolicy, pvSweep>>

\* The worker ends its message after its commit, or is lost before it does.
Acknowledges(of) == pvMail' \in {pvMail, [pvMail EXCEPT ![of].sent = @ - 1]}

-----------------------------------------------------------------------------
(* Requests of a person about data.  They lock the request's row, which    *)
(* the worker holds for its whole transaction.                             *)

RowFree == pvRun.who # "request"
HeldBack == pvKind = "DELETE" /\ MatchingHolds # {}

CreatePrivacyRequest ==
  /\ pvState = "NONE"
  /\ pvState' = "IDENTITY_PENDING"
  /\ UNCHANGED <<pvKind, pvActions, pvErased, pvCertificate, pvArtifact, pvGrants,
                 pvHolds, pvRun, pvMail, pvPolicy, pvSweep>>

\* The steps of a plan, made once, or those that did not succeed again.
PlannedSteps ==
  [i \in PvSteps |-> IF i \notin StepsOf(pvKind) THEN "NONE"
                     ELSE IF pvActions[i] = "SUCCEEDED" THEN "SUCCEEDED" ELSE "PENDING"]

\* plan_privacy_request, at the end of a handler.  A request that ended FAILED
\* or PARTIAL cannot be put on hold: its plan is refused instead.
PlanPrivacyRequest ==
  /\ HeldBack => pvState \in {"NONE", "IDENTITY_PENDING"}
  /\ IF HeldBack
     THEN pvState' = "ON_HOLD" /\ UNCHANGED <<pvActions, pvMail>>
     ELSE pvState' = "QUEUED" /\ pvActions' = PlannedSteps /\ Announce("request")
  /\ UNCHANGED <<pvKind, pvErased, pvCertificate, pvArtifact, pvGrants, pvHolds, pvRun,
                 pvPolicy, pvSweep>>

\* A check that fails leaves the request pending; so does a planner that fails,
\* which undoes the verification.
VerifyPrivacyRequest == RowFree /\ pvState = "IDENTITY_PENDING" /\ PlanPrivacyRequest

ResumePrivacyRequest ==
  RowFree /\ pvState \in {"ON_HOLD", "FAILED", "PARTIAL"} /\ PlanPrivacyRequest

\* A platform's deletion webhook: created, verified and planned at once; its
\* repetition changes nothing and sends no message.
AcceptProviderDeletion == pvKind = "DELETE" /\ pvState = "NONE" /\ PlanPrivacyRequest

CancelPrivacyRequest ==
  /\ RowFree /\ pvState \in {"IDENTITY_PENDING", "ON_HOLD", "QUEUED"}
  /\ pvState' = "CANCELLED"
  /\ UNCHANGED <<pvKind, pvActions, pvErased, pvCertificate, pvArtifact, pvGrants,
                 pvHolds, pvRun, pvMail, pvPolicy, pvSweep>>

RejectPrivacyRequest ==
  /\ RowFree /\ pvState = "IDENTITY_PENDING"
  /\ pvState' = "REJECTED"
  /\ UNCHANGED <<pvKind, pvActions, pvErased, pvCertificate, pvArtifact, pvGrants,
                 pvHolds, pvRun, pvMail, pvPolicy, pvSweep>>

-----------------------------------------------------------------------------
(* The worker of a request (process_privacy_request).                      *)

PrivacyRuns == pvState = "QUEUED"

StartPrivacyRun ==
  /\ pvMail["request"].sent > 0 /\ GuardFree /\ PrivacyRuns /\ ~HeldBack
  /\ pvRun' = [Idle EXCEPT !.who = "request", !.actions = pvActions]
  /\ UNCHANGED <<pvRequestVars, pvHolds, pvMail, pvPolicy, pvSweep>>

PrivacyRunHeld ==
  /\ pvMail["request"].sent > 0 /\ GuardFree /\ PrivacyRuns /\ HeldBack
  /\ pvState' = "ON_HOLD" /\ Acknowledges("request")
  /\ UNCHANGED <<pvKind, pvActions, pvErased, pvCertificate, pvArtifact, pvGrants,
                 pvHolds, pvRun, pvPolicy, pvSweep>>

PrivacyRunRefused ==
  /\ pvMail["request"].sent > 0 /\ GuardFree /\ ~PrivacyRuns
  /\ pvMail' = [pvMail EXCEPT !["request"].sent = @ - 1]
  /\ UNCHANGED <<pvRequestVars, pvHolds, pvRun, pvPolicy, pvSweep>>

\* fail_privacy_runtime, when no executor is configured; it needs no guard.
PrivacyRuntimeUnavailable ==
  /\ pvMail["request"].sent > 0 /\ RowFree /\ PrivacyRuns
  /\ pvState' = "FAILED" /\ Acknowledges("request")
  /\ UNCHANGED <<pvKind, pvActions, pvErased, pvCertificate, pvArtifact, pvGrants,
                 pvHolds, pvRun, pvPolicy, pvSweep>>

NextStep(i) ==
  /\ pvRun.who = "request" /\ pvRun.actions[i] = "PENDING"
  /\ \A j \in PvSteps : j < i => pvRun.actions[j] # "PENDING"

\* _execute_privacy_action and _execute_export_action.  A call that took effect
\* still fails when its evidence is missing, late or inconsistent.
ExecutePrivacyAction(i, effect, outcome) ==
  /\ NextStep(i) /\ (outcome = "SUCCEEDED" => effect)
  /\ pvErased' = IF effect THEN pvErased \cup {i} ELSE pvErased
  /\ pvRun' = [pvRun EXCEPT !.actions[i] = outcome]
  /\ UNCHANGED <<pvKind, pvState, pvActions, pvCertificate, pvArtifact, pvGrants,
                 pvHolds, pvMail, pvPolicy, pvSweep>>

Outcomes(actions) == {actions[i] : i \in StepsOf(pvKind)}

PrivacyCompletionState(actions) ==
  IF "FAILED" \notin Outcomes(actions) THEN "COMPLETED"
  ELSE IF "SUCCEEDED" \in Outcomes(actions) THEN "PARTIAL" ELSE "FAILED"

FinishPrivacyRun ==
  /\ pvRun.who = "request" /\ "PENDING" \notin Outcomes(pvRun.actions)
  /\ LET final == PrivacyCompletionState(pvRun.actions) IN
       /\ pvState' = final
       /\ pvCertificate' = (pvCertificate \/ (final = "COMPLETED" /\ pvKind = "DELETE"))
       /\ pvArtifact' = [pvArtifact EXCEPT !.made =
            @ \/ (pvKind = "EXPORT" /\ pvRun.actions[1] = "SUCCEEDED")]
  /\ pvActions' = pvRun.actions /\ pvRun' = Idle /\ Acknowledges("request")
  /\ UNCHANGED <<pvKind, pvErased, pvGrants, pvHolds, pvPolicy, pvSweep>>

\* task_acks_late and task_reject_on_worker_lost
Redelivered(of) == pvMail' = pvMail

\* A lost worker: its transaction is undone, the message is delivered again.
RunLost ==
  /\ pvRun.who # "nobody" /\ pvRun' = Idle /\ Redelivered(pvRun.who)
  /\ UNCHANGED <<pvRequestVars, pvHolds, pvPolicy, pvSweep>>

\* An error of the store, such as a wait for the guard that statement_timeout ends:
\* the transaction can no longer record an error, and its message is acknowledged.
RunUnrecorded(of) ==
  /\ pvMail[of].sent > 0
  /\ \/ pvRun.who = of /\ pvRun' = Idle
     \/ (pvRun.who = of => pvMail[of].sent > 1) /\ pvRun' = pvRun
  /\ pvMail' = [pvMail EXCEPT ![of].sent = @ - 1, ![of].lost = TRUE]
  /\ UNCHANGED <<pvRequestVars, pvHolds, pvPolicy, pvSweep>>

-----------------------------------------------------------------------------
(* Downloads of an export.  The artifact's row is locked, the grant is     *)
(* issued under the number of the download, then the download is recorded. *)

GrantKey == pvArtifact.downloads + 1

IssueExportDownload(recorded) ==
  /\ pvState = "COMPLETED" /\ pvArtifact.made /\ pvArtifact.downloads < PvMaxDownloads
  /\ Cardinality(pvGrants) <= PvMaxDownloads
  /\ pvGrants' = pvGrants \cup {GrantKey}
  /\ pvArtifact' = [pvArtifact EXCEPT !.downloads = IF recorded THEN @ + 1 ELSE @]
  /\ UNCHANGED <<pvKind, pvState, pvActions, pvErased, pvCertificate, pvHolds, pvRun, pvMail,
                 pvPolicy, pvSweep>>

-----------------------------------------------------------------------------
(* Retention sweeps.                                                       *)

CreateRetentionPolicy ==
  /\ pvPolicy < PvMaxPolicies /\ pvPolicy' = pvPolicy + 1
  /\ UNCHANGED <<pvRequestVars, pvHolds, pvRun, pvMail, pvSweep>>

CreateRetentionSweep ==
  /\ GuardFree /\ pvSweep.state = "NONE"
  /\ pvSweep' = [state |-> "QUEUED", policy |-> pvPolicy, holds |-> HoldsInForce]
  /\ Announce("sweep")
  /\ UNCHANGED <<pvRequestVars, pvHolds, pvRun, pvPolicy>>

SweepIsCurrent == pvSweep.policy = pvPolicy /\ pvSweep.holds = HoldsInForce

StartSweep ==
  /\ pvMail["sweep"].sent > 0 /\ GuardFree /\ pvSweep.state = "QUEUED" /\ SweepIsCurrent
  /\ pvRun' = [Idle EXCEPT !.who = "sweep"]
  /\ UNCHANGED <<pvRequestVars, pvHolds, pvMail, pvPolicy, pvSweep>>

\* fail_retention_sweep: the snapshots are outdated, or there is no executor.
SweepFails ==
  /\ pvMail["sweep"].sent > 0 /\ GuardFree /\ pvSweep.state = "QUEUED"
  /\ pvSweep' = [pvSweep EXCEPT !.state = "FAILED"] /\ Acknowledges("sweep")
  /\ UNCHANGED <<pvRequestVars, pvHolds, pvRun, pvPolicy>>

SweepRefused ==
  /\ pvMail["sweep"].sent > 0 /\ GuardFree /\ pvSweep.state # "QUEUED"
  /\ pvMail' = [pvMail EXCEPT !["sweep"].sent = @ - 1]
  /\ UNCHANGED <<pvRequestVars, pvHolds, pvRun, pvPolicy, pvSweep>>

\* The executor disposes of what the policy says and the holds leave out.
SweepDisposes ==
  /\ pvRun.who = "sweep" /\ ~pvRun.disposed
  /\ pvRun' = [pvRun EXCEPT !.disposed = TRUE]
  /\ UNCHANGED <<pvRequestVars, pvHolds, pvMail, pvPolicy, pvSweep>>

\* Its evidence is recorded, or is refused: FAILED although data is gone.
FinishSweep(final) ==
  /\ pvRun.who = "sweep" /\ (final # "FAILED" => pvRun.disposed)
  /\ pvSweep' = [pvSweep EXCEPT !.state = final]
  /\ pvRun' = Idle /\ Acknowledges("sweep")
  /\ UNCHANGED <<pvRequestVars, pvHolds, pvPolicy>>

-----------------------------------------------------------------------------
LegalHoldRequest ==
  \E h \in PvHolds : \E actor \in PvPeople :
    \/ \E scope \in {"matching", "other"} : CreateLegalHold(h, scope, actor)
    \/ ReleaseLegalHold(h, actor)

DataRightsRequest ==
  \/ CreatePrivacyRequest \/ VerifyPrivacyRequest \/ AcceptProviderDeletion
  \/ ResumePrivacyRequest \/ CancelPrivacyRequest \/ RejectPrivacyRequest
  \/ \E recorded \in BOOLEAN : IssueExportDownload(recorded)

RunPrivacy ==
  \/ StartPrivacyRun \/ PrivacyRunHeld \/ PrivacyRunRefused \/ PrivacyRuntimeUnavailable
  \/ \E i \in PvSteps : \E effect \in BOOLEAN : \E outcome \in {"SUCCEEDED", "FAILED"} :
       ExecutePrivacyAction(i, effect, outcome)
  \/ FinishPrivacyRun

RetentionRequest == CreateRetentionPolicy \/ CreateRetentionSweep

RunRetention ==
  \/ StartSweep \/ SweepFails \/ SweepRefused \/ SweepDisposes
  \/ \E final \in {"SUCCEEDED", "PARTIAL", "FAILED"} : FinishSweep(final)

PvDelivery ==
  \/ RunLost
  \/ \E of \in {"request", "sweep"} : MessageSent(of) \/ MessageLost(of) \/ RunUnrecorded(of)
  \/ \E h \in PvHolds : HoldLapses(h)

PvNext ==
  LegalHoldRequest \/ DataRightsRequest \/ RunPrivacy \/ RetentionRequest \/ RunRetention \/ PvDelivery

PvSpec == PvInit /\ [][PvNext]_pvVars

-----------------------------------------------------------------------------
(* Properties.                                                             *)

\* Nothing more of a person's data is erased while a hold on it is in force, or
\* for a request that was cancelled, rejected or is over: placing a hold and
\* cancelling cannot come between the worker's check and its calls.
ErasureIsAuthorised ==
  pvErased' # pvErased => pvState = "QUEUED" /\ ~HeldBack

\* A deletion certificate is only issued when every step took effect in the
\* external systems, whatever failed, was repeated or was lost on the way.
CertificateIsTrue == pvCertificate => pvErased = PvSteps

\* A request that is queued is in the queue or running, unless the process that
\* should have sent its message was lost or an error of the store took its message;
\* so is a sweep.
PrivacyWorkIsQueued ==
  /\ pvState = "QUEUED" =>
       \/ pvMail["request"].sending \/ pvMail["request"].sent > 0 \/ pvMail["request"].lost
  /\ pvSweep.state = "QUEUED" =>
       \/ pvMail["sweep"].sending \/ pvMail["sweep"].sent > 0 \/ pvMail["sweep"].lost

\* An export is handed out no more often than its artifact allows, also when a
\* grant was issued and its download could not be recorded.
DownloadsWithinLimit == Cardinality(pvGrants) <= PvMaxDownloads

\* A sweep disposes of data only when it knows every hold in force.
SweepRespectsHolds ==
  pvRun'.disposed /\ ~pvRun.disposed => HoldsInForce \subseteq pvSweep.holds

\* What privacy requests promise: nothing under a legal hold is erased, what is certified
\* was done, and what waits is queued (domain/security).
PrivacyPromise ==
  [][ /\ ( /\ CertificateIsTrue
           /\ PrivacyWorkIsQueued
           /\ DownloadsWithinLimit )'
      /\ ErasureIsAuthorised
      /\ SweepRespectsHolds ]_pvVars

=============================================================================
