----------------------------- MODULE Connections -----------------------------
(***************************************************************************)
(* Publishing connections and packages for manual publication (domain/     *)
(* publishing).  A connection is diagnosed, refreshed and disconnected by  *)
(* jobs; a worker holds the rows of the job and of its connection for the  *)
(* whole transaction, but the credential lives in an external secret store *)
(* that no rollback reaches.  A package is confirmed by people, who may do *)
(* so at the same time.                                                    *)
(***************************************************************************)
EXTENDS Naturals, FiniteSets

CONSTANTS
  CnJobs,               \* identifiers of connection jobs
  CnMaxAttempts,        \* PublishingConnectionJob.max_attempts (3 in the code)
  CnMaxRetries,         \* max_retries of the task (3 in the code)
  NvPackages, NvUrls,   \* packages, and addresses they may be published at
  NvPeople,             \* people confirming a publication
  NvItems,              \* required items of the checklist
  NvMaxApprovals        \* bound: approvals of the content, one after the other

VARIABLES
  cnState,              \* PublishingConnection.state, or NONE
  cnSecret,             \* the credential in the secret store: valid, expired or revoked
  cnJobs,               \* PublishingConnectionJob: operation, state, attempt
  cnMail,               \* message of a job: queued or none, with its retries
  cnGone,               \* jobs whose message was never sent, or used up its retries
  cnDisconnected,       \* whether a disconnection was reported as done
  nvApproval,           \* the approval of the content that is current
  nvPackages,           \* NaverPublishPackage: approval it was made from, items checked
  nvRequests,           \* confirmations being made
  nvRows                \* NaverManualConfirmation rows, each with its PublishedPost

cnVars == <<cnState, cnSecret, cnJobs, cnMail, cnGone, cnDisconnected>>
nvVars == <<nvApproval, nvPackages, nvRequests, nvRows>>

NoCnJob == [op |-> "NONE", state |-> "NONE", attempt |-> 0]
NoCnMail == [state |-> "none", retries |-> 0]
NoPackage == [approval |-> 0, checked |-> {}]
NoRequest == [state |-> "idle"]

CnInit ==
  /\ cnState = "NONE" /\ cnSecret = "valid" /\ cnDisconnected = FALSE
  /\ cnJobs = [j \in CnJobs |-> NoCnJob] /\ cnMail = [j \in CnJobs |-> NoCnMail] /\ cnGone = {}
  /\ nvApproval = 1 /\ nvPackages = [p \in NvPackages |-> NoPackage]
  /\ nvRequests = [u \in NvPeople |-> NoRequest] /\ nvRows = {}

-----------------------------------------------------------------------------
(* Connections.                                                            *)

CreateConnection ==
  /\ cnState = "NONE" /\ cnState' = "PENDING"
  /\ UNCHANGED <<cnSecret, cnJobs, cnMail, cnGone, cnDisconnected>>

\* The message is sent after the commit and may be lost.
NewConnectionJob(j, op) ==
  /\ cnJobs[j] = NoCnJob
  /\ cnJobs' = [cnJobs EXCEPT ![j] = [op |-> op, state |-> "QUEUED", attempt |-> 0]]
  /\ \/ cnMail' = [cnMail EXCEPT ![j].state = "queued"] /\ UNCHANGED cnGone
     \/ cnGone' = cnGone \cup {j} /\ UNCHANGED cnMail
  /\ UNCHANGED <<cnState, cnSecret, cnDisconnected>>

CreateConnectionJob(j, op) ==
  /\ cnState \notin {"NONE", "DISCONNECTED"} /\ NewConnectionJob(j, op)

CnWaiting(j) == cnJobs[j].state \in {"QUEUED", "RETRYABLE_FAILED"}

\* _schedule_connection_monitors: a connection nobody is looking after.
ScheduleMonitor(j) ==
  /\ cnState \in {"ACTIVE", "DEGRADED", "EXPIRED"}
  /\ \A other \in CnJobs : ~CnWaiting(other)
  /\ NewConnectionJob(j, "DIAGNOSE")

\* The message is acknowledged after the commit, or delivered again when its
\* worker is lost in between.
CnAcknowledges(j) == cnMail' \in {cnMail, [cnMail EXCEPT ![j] = NoCnMail]}

CnDelivered(j) == cnMail[j].state = "queued"
CnRuns(j) == CnDelivered(j) /\ cnJobs[j].state \notin {"SUCCEEDED", "FINAL_FAILED"}

CnReturns(j) ==
  /\ CnDelivered(j) /\ ~CnRuns(j)
  /\ cnMail' = [cnMail EXCEPT ![j] = NoCnMail]
  /\ UNCHANGED <<cnState, cnSecret, cnJobs, cnGone, cnDisconnected>>

Succeeds(j) == cnJobs' = [cnJobs EXCEPT ![j].state = "SUCCEEDED", ![j].attempt = @ + 1]

\* Deviation: the state changes and the credential is left in the store.
KeepSecret(j) == UNCHANGED cnSecret

\* secrets.revoke
RevokeSecret(j) == cnSecret' = "revoked"

\* The operation is carried out whatever happened to the connection since it
\* was asked for.
Disconnect(j) ==
  /\ CnRuns(j) /\ cnJobs[j].op = "DISCONNECT"
  /\ RevokeSecret(j) /\ cnState' = "DISCONNECTED" /\ cnDisconnected' = TRUE
  /\ Succeeds(j) /\ CnAcknowledges(j) /\ UNCHANGED cnGone

\* The credential is revoked and the transaction is rolled back, its worker lost.
DisconnectRolledBack(j) ==
  /\ CnRuns(j) /\ cnJobs[j].op = "DISCONNECT" /\ RevokeSecret(j)
  /\ UNCHANGED <<cnState, cnJobs, cnMail, cnGone, cnDisconnected>>

Refreshed(j) ==
  IF cnJobs[j].op = "REFRESH" /\ cnSecret = "expired" THEN "valid" ELSE cnSecret

\* The checks passed, one of them failed, or the version of the API is retired.
Diagnose(j) ==
  /\ CnRuns(j) /\ cnJobs[j].op # "DISCONNECT" /\ Refreshed(j) = "valid"
  /\ cnSecret' = Refreshed(j)
  /\ cnState' \in {"ACTIVE", "DEGRADED", "EXPIRED"}
  /\ Succeeds(j) /\ CnAcknowledges(j) /\ UNCHANGED <<cnGone, cnDisconnected>>

FailsFinally(j) == cnJobs' = [cnJobs EXCEPT ![j].state = "FINAL_FAILED", ![j].attempt = @ + 1]

\* The credential has expired, or the store no longer has it, or an error that
\* no retry mends.
CredentialExpired(j) ==
  /\ CnRuns(j) /\ cnJobs[j].op # "DISCONNECT" /\ Refreshed(j) = "expired"
  /\ cnState' = "EXPIRED" /\ FailsFinally(j)
  /\ CnAcknowledges(j) /\ UNCHANGED <<cnSecret, cnGone, cnDisconnected>>

ConnectionRefused(j) ==
  /\ CnRuns(j) /\ cnState' = "DEGRADED" /\ FailsFinally(j)
  /\ CnAcknowledges(j) /\ UNCHANGED <<cnSecret, cnGone, cnDisconnected>>

\* task.retry: the message comes back with one retry less, until there is none.
CnRetried(j) ==
  IF cnMail[j].retries < CnMaxRetries
  THEN /\ cnMail' \in {cnMail, [cnMail EXCEPT ![j].retries = @ + 1]} /\ UNCHANGED cnGone
  ELSE /\ cnMail' = [cnMail EXCEPT ![j] = NoCnMail] /\ cnGone' = cnGone \cup {j}

CnAttemptsLeft(j) == cnJobs[j].attempt + 1 < CnMaxAttempts

\* A network, rate limit or server error.
ConnectionUnavailable(j) ==
  /\ CnRuns(j) /\ cnState' = "DEGRADED"
  /\ IF CnAttemptsLeft(j)
     THEN /\ cnJobs' = [cnJobs EXCEPT ![j].state = "RETRYABLE_FAILED", ![j].attempt = @ + 1]
          /\ CnRetried(j)
     ELSE FailsFinally(j) /\ CnAcknowledges(j) /\ UNCHANGED cnGone
  /\ UNCHANGED <<cnSecret, cnDisconnected>>

\* autoretry_for: an error nobody expected rolls everything back.
CnUnexpected(j) ==
  /\ CnRuns(j) /\ CnRetried(j) /\ UNCHANGED <<cnState, cnSecret, cnJobs, cnDisconnected>>

ConnectionJob(j) ==
  \/ CnReturns(j) \/ Disconnect(j) \/ DisconnectRolledBack(j) \/ Diagnose(j)
  \/ CredentialExpired(j) \/ ConnectionRefused(j) \/ ConnectionUnavailable(j) \/ CnUnexpected(j)

SecretExpires ==
  /\ cnSecret = "valid" /\ cnSecret' = "expired"
  /\ UNCHANGED <<cnState, cnJobs, cnMail, cnGone, cnDisconnected>>

ConnectionNext ==
  /\ \/ CreateConnection \/ SecretExpires
     \/ \E j \in CnJobs :
          \/ \E op \in {"DIAGNOSE", "REFRESH", "DISCONNECT"} : CreateConnectionJob(j, op)
          \/ ScheduleMonitor(j) \/ ConnectionJob(j)
  /\ UNCHANGED nvVars

-----------------------------------------------------------------------------
(* Packages for manual publication.                                        *)

\* naver_confirmation_package, naver_confirmation_url
ConfirmationIsNew(p, url) == \A row \in nvRows : row.package # p /\ row.url # url

CreateNaverPackage(p) ==
  /\ nvPackages[p] = NoPackage
  /\ nvPackages' = [nvPackages EXCEPT ![p].approval = nvApproval]
  /\ UNCHANGED <<nvApproval, nvRequests, nvRows>>

UpdateNaverChecklist(p, item) ==
  /\ nvPackages[p] # NoPackage
  /\ nvPackages' = [nvPackages EXCEPT ![p].checked =
       IF item \in @ THEN @ \ {item} ELSE @ \cup {item}]
  /\ UNCHANGED <<nvApproval, nvRequests, nvRows>>

\* The content is changed and approved again: the proof of approval is another.
ApproveAgain ==
  /\ nvApproval < NvMaxApprovals /\ nvApproval' = nvApproval + 1
  /\ UNCHANGED <<nvPackages, nvRequests, nvRows>>

ApprovalUnchanged(p) == nvPackages[p].approval = nvApproval

\* confirm_naver_manual_publish up to the rows it adds.
CheckConfirmation(u, p, url) ==
  /\ nvRequests[u].state = "idle" /\ nvPackages[p] # NoPackage
  /\ \A row \in nvRows : row.package # p
  /\ ApprovalUnchanged(p) /\ nvPackages[p].checked = NvItems
  /\ nvRequests' = [nvRequests EXCEPT ![u] =
       [state |-> "checked", package |-> p, url |-> url, approval |-> nvApproval]]
  /\ UNCHANGED <<nvApproval, nvPackages, nvRows>>

StoreConfirmation(u) ==
  LET r == nvRequests[u] IN
  /\ r.state = "checked"
  /\ nvRows' = IF ConfirmationIsNew(r.package, r.url)
               THEN nvRows \cup {[package |-> r.package, url |-> r.url, approval |-> r.approval, by |-> u]}
               ELSE nvRows
  /\ nvRequests' = [nvRequests EXCEPT ![u] = NoRequest]
  /\ UNCHANGED <<nvApproval, nvPackages>>

NaverNext ==
  /\ \/ ApproveAgain
     \/ \E p \in NvPackages : CreateNaverPackage(p) \/ \E i \in NvItems : UpdateNaverChecklist(p, i)
     \/ \E u \in NvPeople :
          StoreConfirmation(u) \/ \E p \in NvPackages, url \in NvUrls : CheckConfirmation(u, p, url)
  /\ UNCHANGED cnVars

CnSpec == CnInit /\ [][ConnectionNext \/ NaverNext]_<<cnVars, nvVars>>

-----------------------------------------------------------------------------
(* Properties.                                                             *)

\* Once a connection was reported as disconnected nothing is ever published
\* through it again: jobs that were queued before, and redelivered ones, may
\* still touch its row, but the credential is gone and ACTIVE out of reach.
DisconnectedNeverActive == cnDisconnected => cnState # "ACTIVE"

\* A connection job that is not over has its message, unless the message was
\* never sent or used up the retries of the task; a lost worker or an error
\* between two attempts leaves none behind.
NoConnectionJobForgotten == \A j \in CnJobs \ cnGone : CnWaiting(j) => CnDelivered(j)

\* A package has one confirmation and one post, and an address belongs to one
\* package, however many people confirm at the same time; and what was confirmed
\* is what was packaged: the approval checked is the one the package was made from.
OneManualPost ==
  /\ \A a, b \in nvRows : (a.package = b.package \/ a.url = b.url) => a = b
  /\ \A row \in nvRows : row.approval = nvPackages[row.package].approval

\* What connections promise: a disconnected site is not published to, jobs that wait have
\* a message, and a manual post is confirmed once (domain/publishing).
ConnectionPromise ==
  /\ DisconnectedNeverActive
  /\ NoConnectionJobForgotten
  /\ OneManualPost

=============================================================================
