---------------------------- MODULE PlatformProofs ----------------------------
(***************************************************************************)
(* Proofs about the platform: connections and manual packages, membership, *)
(* operations, compliance, analytics, privacy, accounts.                   *)
(***************************************************************************)
EXTENDS Workspaces, Operations, Compliance, Connections, Analytics, Privacy, Identity,
        FiniteSetTheorems, TLAPS

-----------------------------------------------------------------------------
(* Connections.                                                            *)

CnJobRows ==
  [op : {"NONE", "DIAGNOSE", "REFRESH", "DISCONNECT"},
   state : {"NONE", "QUEUED", "RETRYABLE_FAILED", "SUCCEEDED", "FINAL_FAILED"}, attempt : Nat]

CnMailRows == [state : {"none", "queued"}, retries : Nat]

CnTypes ==
  /\ cnJobs \in [CnJobs -> CnJobRows]
  /\ cnMail \in [CnJobs -> CnMailRows]

\* The credential of a disconnected site is gone for good, and with it the way back.
CnConnectionInv ==
  cnDisconnected => cnSecret = "revoked" /\ cnState # "ACTIVE"

CnInv == CnTypes /\ CnConnectionInv /\ NoConnectionJobForgotten

LEMMA CnInitial == CnInit => CnInv
BY DEF CnInit, CnInv, CnTypes, CnConnectionInv, NoConnectionJobForgotten, CnJobRows, CnMailRows,
       NoCnJob, NoCnMail, CnWaiting

\* One job moves on with its message: the others do not notice.
LEMMA OneConnectionJob ==
  ASSUME CnInv, NEW j \in CnJobs, NEW row \in CnJobRows, NEW mail \in CnMailRows,
         cnJobs' = [cnJobs EXCEPT ![j] = row], cnMail' = [cnMail EXCEPT ![j] = mail],
         cnGone \subseteq cnGone',
         row.state \in {"QUEUED", "RETRYABLE_FAILED"} => mail.state = "queued" \/ j \in cnGone'
  PROVE  CnTypes' /\ NoConnectionJobForgotten'
<1>1. cnJobs \in [CnJobs -> CnJobRows] /\ cnMail \in [CnJobs -> CnMailRows] /\ NoConnectionJobForgotten
  BY DEF CnInv, CnTypes
<1>2. /\ cnJobs'[j] = row /\ cnMail'[j] = mail
      /\ \A k \in CnJobs : k # j => cnJobs'[k] = cnJobs[k] /\ cnMail'[k] = cnMail[k]
  BY <1>1
<1>3. CnTypes'
  BY <1>1 DEF CnTypes
<1> QED BY <1>1, <1>2, <1>3 DEF NoConnectionJobForgotten, CnWaiting, CnDelivered

LEMMA NewConnectionJobKeeps ==
  ASSUME CnInv, NEW j \in CnJobs, NEW op \in {"DIAGNOSE", "REFRESH", "DISCONNECT"},
         NewConnectionJob(j, op)
  PROVE  CnInv'
<1> DEFINE row == [op |-> op, state |-> "QUEUED", attempt |-> 0]
           mail == [cnMail[j] EXCEPT !.state = "queued"]
<1>1. cnMail \in [CnJobs -> CnMailRows] /\ cnMail[j] \in CnMailRows
  BY DEF CnInv, CnTypes
<1>2. row \in CnJobRows /\ mail \in CnMailRows /\ mail.state = "queued"
  BY <1>1 DEF CnJobRows, CnMailRows
<1>3. cnJobs' = [cnJobs EXCEPT ![j] = row] /\ UNCHANGED <<cnState, cnSecret, cnDisconnected>>
  BY DEF NewConnectionJob
<1>4. CASE cnMail' = [cnMail EXCEPT ![j].state = "queued"] /\ cnGone' = cnGone
  <2>1. cnMail' = [cnMail EXCEPT ![j] = mail]
    BY <1>1, <1>4
  <2> HIDE DEF row, mail
  <2>2. CnTypes' /\ NoConnectionJobForgotten'
    BY <1>2, <1>3, <1>4, <2>1, OneConnectionJob
  <2> QED BY <1>3, <2>2 DEF CnInv, CnConnectionInv
<1>5. CASE cnGone' = cnGone \cup {j} /\ cnMail' = cnMail
  <2>1. cnMail' = [cnMail EXCEPT ![j] = cnMail[j]]
    BY <1>1, <1>5
  <2> HIDE DEF row
  <2>2. CnTypes' /\ NoConnectionJobForgotten'
    BY <1>1, <1>2, <1>3, <1>5, <2>1, OneConnectionJob
  <2> QED BY <1>3, <2>2 DEF CnInv, CnConnectionInv
<1> QED BY <1>4, <1>5 DEF NewConnectionJob

LEMMA ConnectionJobKeeps ==
  ASSUME CnInv, NEW j \in CnJobs, ConnectionJob(j)
  PROVE  CnInv'
<1> DEFINE Row(state) == [cnJobs[j] EXCEPT !.state = state, !.attempt = @ + 1]
<1>1. /\ cnJobs \in [CnJobs -> CnJobRows] /\ cnMail \in [CnJobs -> CnMailRows]
      /\ cnJobs[j] \in CnJobRows /\ cnMail[j] \in CnMailRows
      /\ CnConnectionInv /\ NoConnectionJobForgotten
  BY DEF CnInv, CnTypes
<1>2. cnJobs[j].attempt + 1 \in Nat /\ cnMail[j].retries + 1 \in Nat
  BY <1>1 DEF CnJobRows, CnMailRows
<1>3. ASSUME NEW state \in {"SUCCEEDED", "FINAL_FAILED", "RETRYABLE_FAILED"}
      PROVE  Row(state) \in CnJobRows /\ Row(state).state = state
  BY <1>1, <1>2 DEF CnJobRows
<1>4. NoCnMail \in CnMailRows
  BY DEF NoCnMail, CnMailRows
<1>5. cnMail = [cnMail EXCEPT ![j] = cnMail[j]] /\ cnJobs = [cnJobs EXCEPT ![j] = cnJobs[j]]
  BY <1>1
<1>6. ASSUME CnAcknowledges(j)
      PROVE  \E mail \in CnMailRows : cnMail' = [cnMail EXCEPT ![j] = mail]
  BY <1>1, <1>4, <1>5, <1>6 DEF CnAcknowledges
<1>7. ASSUME CnRetried(j), CnDelivered(j)
      PROVE  /\ cnGone \subseteq cnGone'
             /\ \E mail \in CnMailRows : /\ cnMail' = [cnMail EXCEPT ![j] = mail]
                                         /\ mail.state = "queued" \/ j \in cnGone'
  <2> DEFINE mail == [cnMail[j] EXCEPT !.retries = @ + 1]
  <2>1. mail \in CnMailRows /\ mail.state = cnMail[j].state
    BY <1>1, <1>2 DEF CnMailRows
  <2>2. [cnMail EXCEPT ![j].retries = @ + 1] = [cnMail EXCEPT ![j] = mail]
    BY <1>1
  <2> HIDE DEF mail
  <2> QED BY <1>1, <1>4, <1>5, <1>7, <2>1, <2>2 DEF CnRetried, CnDelivered
<1>8. ASSUME NEW state \in {"SUCCEEDED", "FINAL_FAILED"},
             cnJobs' = [cnJobs EXCEPT ![j].state = state, ![j].attempt = @ + 1],
             CnAcknowledges(j), cnGone' = cnGone
      PROVE  CnTypes' /\ NoConnectionJobForgotten'
  <2>1. cnJobs' = [cnJobs EXCEPT ![j] = Row(state)]
    BY <1>1, <1>8
  <2> HIDE DEF Row
  <2> QED BY <1>3, <1>6, <1>8, <2>1, OneConnectionJob
<1>9. ASSUME CnReturns(j) PROVE CnInv'
  <2>1. /\ cnMail' = [cnMail EXCEPT ![j] = NoCnMail] /\ cnJobs' = cnJobs /\ cnGone' = cnGone
        /\ UNCHANGED <<cnState, cnSecret, cnDisconnected>>
        /\ cnJobs[j].state \in {"SUCCEEDED", "FINAL_FAILED"}
    BY <1>9 DEF CnReturns, CnRuns
  <2>2. CnTypes' /\ NoConnectionJobForgotten'
    BY <1>1, <1>4, <1>5, <2>1, OneConnectionJob
  <2> QED BY <1>1, <2>1, <2>2 DEF CnInv, CnConnectionInv
<1>10. ASSUME Disconnect(j) PROVE CnInv'
  BY <1>8, <1>10 DEF Disconnect, Succeeds, RevokeSecret, CnInv, CnConnectionInv
<1>11. ASSUME DisconnectRolledBack(j) PROVE CnInv'
  BY <1>1, <1>11 DEF DisconnectRolledBack, RevokeSecret, CnInv, CnConnectionInv, CnTypes,
     NoConnectionJobForgotten, CnWaiting, CnDelivered
<1>12. ASSUME Diagnose(j) PROVE CnInv'
  <2>1. CnTypes' /\ NoConnectionJobForgotten'
    BY <1>8, <1>12 DEF Diagnose, Succeeds
  <2>2. ~cnDisconnected /\ cnDisconnected' = cnDisconnected
    BY <1>1, <1>12 DEF Diagnose, Refreshed, CnConnectionInv
  <2> QED BY <2>1, <2>2 DEF CnInv, CnConnectionInv
<1>13. ASSUME CredentialExpired(j) PROVE CnInv'
  <2>1. CnTypes' /\ NoConnectionJobForgotten'
    BY <1>8, <1>13 DEF CredentialExpired, FailsFinally
  <2> QED BY <1>1, <1>13, <2>1 DEF CnInv, CnConnectionInv, CredentialExpired
<1>14. ASSUME ConnectionRefused(j) PROVE CnInv'
  <2>1. CnTypes' /\ NoConnectionJobForgotten'
    BY <1>8, <1>14 DEF ConnectionRefused, FailsFinally
  <2> QED BY <1>1, <1>14, <2>1 DEF CnInv, CnConnectionInv, ConnectionRefused
<1>15. ASSUME ConnectionUnavailable(j) PROVE CnInv'
  <2>1. cnState' = "DEGRADED" /\ UNCHANGED <<cnSecret, cnDisconnected>> /\ CnDelivered(j)
    BY <1>15 DEF ConnectionUnavailable, CnRuns
  <2>2. CASE CnAttemptsLeft(j)
    <3>1. cnJobs' = [cnJobs EXCEPT ![j].state = "RETRYABLE_FAILED", ![j].attempt = @ + 1] /\ CnRetried(j)
      BY <1>15, <2>2 DEF ConnectionUnavailable
    <3>2. cnJobs' = [cnJobs EXCEPT ![j] = Row("RETRYABLE_FAILED")]
      BY <1>1, <3>1
    <3> HIDE DEF Row
    <3>3. CnTypes' /\ NoConnectionJobForgotten'
      BY <1>3, <1>7, <2>1, <3>1, <3>2, OneConnectionJob
    <3> QED BY <1>1, <2>1, <3>3 DEF CnInv, CnConnectionInv
  <2>3. CASE ~CnAttemptsLeft(j)
    <3>1. CnTypes' /\ NoConnectionJobForgotten'
      BY <1>8, <1>15, <2>3 DEF ConnectionUnavailable, FailsFinally
    <3> QED BY <1>1, <2>1, <3>1 DEF CnInv, CnConnectionInv
  <2> QED BY <2>2, <2>3
<1>16. ASSUME CnUnexpected(j) PROVE CnInv'
  <2>1. CnRetried(j) /\ CnDelivered(j) /\ UNCHANGED <<cnState, cnSecret, cnJobs, cnDisconnected>>
    BY <1>16 DEF CnUnexpected, CnRuns
  <2>2. CnTypes' /\ NoConnectionJobForgotten'
    BY <1>1, <1>5, <1>7, <2>1, OneConnectionJob
  <2> QED BY <1>1, <2>1, <2>2 DEF CnInv, CnConnectionInv
<1> QED BY <1>9, <1>10, <1>11, <1>12, <1>13, <1>14, <1>15, <1>16 DEF ConnectionJob

LEMMA CnStep ==
  ASSUME CnInv, ConnectionNext \/ UNCHANGED cnVars PROVE CnInv'
<1>1. ASSUME CreateConnection \/ SecretExpires \/ UNCHANGED cnVars PROVE CnInv'
  BY <1>1 DEF CreateConnection, SecretExpires, cnVars, CnInv, CnTypes, CnConnectionInv,
     NoConnectionJobForgotten, CnWaiting, CnDelivered
<1> QED BY <1>1, NewConnectionJobKeeps, ConnectionJobKeeps
        DEF ConnectionNext, CreateConnectionJob, ScheduleMonitor

-----------------------------------------------------------------------------
(* Packages for manual publication.                                        *)

NvPackageRows == [approval : Nat, checked : SUBSET NvItems]

\* A package carries the approval it was made from for good, and a confirmation
\* under way carries the same one, whatever was approved since.
NvInv ==
  /\ nvApproval \in Nat /\ nvApproval >= 1
  /\ nvPackages \in [NvPackages -> NvPackageRows]
  /\ DOMAIN nvRequests = NvPeople
  /\ \A u \in NvPeople : nvRequests[u].state = "checked" =>
       /\ nvRequests[u].package \in NvPackages /\ nvRequests[u].approval >= 1
       /\ nvRequests[u].approval = nvPackages[nvRequests[u].package].approval
  /\ \A row \in nvRows : row.package \in NvPackages /\ row.approval >= 1
  /\ OneManualPost

LEMMA NvInitial == CnInit => NvInv
BY DEF CnInit, NvInv, NvPackageRows, NoPackage, NoRequest, OneManualPost

\* A change of one package that keeps its approval once it has one.
LEMMA OnePackage ==
  ASSUME NvInv, NEW p \in NvPackages, NEW row \in NvPackageRows,
         nvPackages' = [nvPackages EXCEPT ![p] = row],
         nvPackages[p].approval >= 1 => row.approval = nvPackages[p].approval,
         UNCHANGED <<nvApproval, nvRequests, nvRows>>
  PROVE  NvInv'
<1>1. nvPackages \in [NvPackages -> NvPackageRows] /\ OneManualPost
  BY DEF NvInv
<1>2. \A q \in NvPackages : nvPackages[q].approval >= 1 => nvPackages'[q].approval = nvPackages[q].approval
  BY <1>1
<1>3. nvPackages' \in [NvPackages -> NvPackageRows]
  BY <1>1
<1>4. \A u \in NvPeople : nvRequests[u].state = "checked" =>
        /\ nvRequests[u].package \in NvPackages /\ nvRequests[u].approval >= 1
        /\ nvRequests[u].approval = nvPackages'[nvRequests[u].package].approval
  BY <1>2 DEF NvInv
<1>5. \A r \in nvRows : /\ r.package \in NvPackages /\ r.approval >= 1
                        /\ r.approval = nvPackages'[r.package].approval
  BY <1>1, <1>2 DEF NvInv, OneManualPost
<1>6. OneManualPost'
  BY <1>1, <1>5 DEF OneManualPost
<1> QED BY <1>3, <1>4, <1>5, <1>6 DEF NvInv

LEMMA ConfirmationKeeps ==
  ASSUME NvInv, NEW u \in NvPeople, StoreConfirmation(u)
  PROVE  NvInv'
<1> DEFINE r == nvRequests[u]
           new == [package |-> r.package, url |-> r.url, approval |-> r.approval, by |-> u]
<1>1. /\ r.state = "checked" /\ UNCHANGED <<nvApproval, nvPackages>>
      /\ nvRows' = IF ConfirmationIsNew(r.package, r.url) THEN nvRows \cup {new} ELSE nvRows
      /\ nvRequests' = [nvRequests EXCEPT ![u] = NoRequest]
  BY DEF StoreConfirmation
<1>2. /\ new.package = r.package /\ new.url = r.url /\ new.approval = r.approval
      /\ new.package \in NvPackages /\ new.approval >= 1
      /\ new.approval = nvPackages[new.package].approval
  BY <1>1 DEF NvInv
<1>3. \A v \in NvPeople : nvRequests'[v].state = "checked" => nvRequests'[v] = nvRequests[v]
  BY <1>1 DEF NvInv, NoRequest
<1>4. \A v \in NvPeople : nvRequests'[v].state = "checked" =>
        /\ nvRequests'[v].package \in NvPackages /\ nvRequests'[v].approval >= 1
        /\ nvRequests'[v].approval = nvPackages'[nvRequests'[v].package].approval
  BY <1>1, <1>3 DEF NvInv
<1> HIDE DEF new, r
<1>5. OneManualPost' /\ \A row \in nvRows' : row.package \in NvPackages /\ row.approval >= 1
  BY <1>1, <1>2 DEF NvInv, OneManualPost, ConfirmationIsNew
<1>6. DOMAIN nvRequests' = NvPeople
  BY <1>1 DEF NvInv
<1> QED BY <1>1, <1>4, <1>5, <1>6 DEF NvInv

LEMMA NvStep ==
  ASSUME NvInv, NaverNext \/ UNCHANGED nvVars PROVE NvInv'
<1>1. nvPackages \in [NvPackages -> NvPackageRows] /\ nvApproval \in Nat /\ nvApproval >= 1
  BY DEF NvInv
<1>2. ASSUME UNCHANGED nvVars PROVE NvInv'
  BY <1>2 DEF NvInv, nvVars, OneManualPost
<1>3. ASSUME ApproveAgain PROVE NvInv'
  <2>1. nvApproval' \in Nat /\ nvApproval' >= 1 /\ UNCHANGED <<nvPackages, nvRequests, nvRows>>
    BY <1>1, <1>3 DEF ApproveAgain
  <2> QED BY <2>1 DEF NvInv, OneManualPost
<1>4. ASSUME NEW p \in NvPackages, CreateNaverPackage(p) PROVE NvInv'
  <2> DEFINE row == [nvPackages[p] EXCEPT !.approval = nvApproval]
  <2>1. row \in NvPackageRows /\ nvPackages[p].approval = 0
    BY <1>1, <1>4 DEF CreateNaverPackage, NvPackageRows, NoPackage
  <2>2. nvPackages' = [nvPackages EXCEPT ![p] = row] /\ UNCHANGED <<nvApproval, nvRequests, nvRows>>
    BY <1>1, <1>4 DEF CreateNaverPackage
  <2> HIDE DEF row
  <2>3. ~(nvPackages[p].approval >= 1)
    BY <2>1
  <2> QED BY <2>1, <2>2, <2>3, OnePackage
<1>5. ASSUME NEW p \in NvPackages, NEW i \in NvItems, UpdateNaverChecklist(p, i) PROVE NvInv'
  <2> DEFINE c == nvPackages[p].checked
             items == IF i \in c THEN c \ {i} ELSE c \cup {i}
             row == [nvPackages[p] EXCEPT !.checked = items]
  <2>1. nvPackages[p] \in NvPackageRows /\ c \in SUBSET NvItems
    BY <1>1 DEF NvPackageRows
  <2>2. items \in SUBSET NvItems
    BY <2>1
  <2>3. nvPackages' = [nvPackages EXCEPT ![p] = row] /\ UNCHANGED <<nvApproval, nvRequests, nvRows>>
    BY <1>1, <1>5 DEF UpdateNaverChecklist
  <2> HIDE DEF items
  <2>4. row \in NvPackageRows /\ row.approval = nvPackages[p].approval
    BY <2>1, <2>2 DEF NvPackageRows
  <2> HIDE DEF row
  <2> QED BY <2>3, <2>4, OnePackage
<1>6. ASSUME NEW u \in NvPeople, NEW p \in NvPackages, NEW url \in NvUrls, CheckConfirmation(u, p, url)
      PROVE  NvInv'
  <2> DEFINE req == [state |-> "checked", package |-> p, url |-> url, approval |-> nvApproval]
  <2>1. /\ nvRequests' = [nvRequests EXCEPT ![u] = req] /\ UNCHANGED <<nvApproval, nvPackages, nvRows>>
        /\ nvPackages[p].approval = nvApproval
    BY <1>6 DEF CheckConfirmation, ApprovalUnchanged
  <2>2. req.package = p /\ req.approval = nvApproval
    OBVIOUS
  <2> HIDE DEF req
  <2> QED BY <1>1, <2>1, <2>2 DEF NvInv, OneManualPost
<1> QED BY <1>2, <1>3, <1>4, <1>5, <1>6, ConfirmationKeeps DEF NaverNext

\* Connections keep their promise for any number of jobs, packages and people: a site
\* reported as disconnected never becomes active again, whatever jobs were queued before;
\* a job that waits has its message unless that was lost for good; and a package and an
\* address are confirmed once, with the approval the package was made from, however many
\* people confirm at the same time (domain/publishing).
THEOREM ConnectionsKeepTheirPromise == CnSpec => []ConnectionPromise
<1>1. CnInit => CnInv /\ NvInv
  BY CnInitial, NvInitial
<1>2. ASSUME CnInv /\ NvInv, [ConnectionNext \/ NaverNext]_<<cnVars, nvVars>>
      PROVE  (CnInv /\ NvInv)'
  <2>1. ConnectionNext => UNCHANGED nvVars
    BY DEF ConnectionNext
  <2>2. NaverNext => UNCHANGED cnVars
    BY DEF NaverNext
  <2> QED BY <1>2, <2>1, <2>2, CnStep, NvStep
<1>3. CnInv /\ NvInv => ConnectionPromise
  BY DEF CnInv, NvInv, CnConnectionInv, ConnectionPromise, DisconnectedNeverActive
<1> QED BY <1>1, <1>2, <1>3, PTL DEF CnSpec

-----------------------------------------------------------------------------
(* Membership.                                                             *)

MemberRows == [status : {"NONE", "ACTIVE", "REMOVED"}, role : MRoles]
InvitationRows ==
  [status : {"NONE", "INSERTING", "PENDING", "EXPIRED", "CANCELLED", "ACCEPTED"}, role : MRoles]

MTypes ==
  /\ mMembers \in [MPeople -> MemberRows]
  /\ mInvitations \in [MInvited -> [MInvitationIds -> InvitationRows]]

\* An owner is made by nothing but a transfer, which takes the role from the actor.
OneOwner == \A p, q \in MPeople : IsOwner(p) /\ IsOwner(q) => p = q
NoOwnerInvited == \A p \in MInvited, i \in MInvitationIds : mInvitations[p][i].role # "owner"

MInv == MTypes /\ OneOwner /\ NoOwnerInvited

LEMMA MInitially == ASSUME MInit PROVE MInv
<1>1. MTypes
  BY DEF MInit, MTypes, MemberRows, InvitationRows, MRoles, NoInvitation
<1>2. OneOwner
  BY DEF MInit, OneOwner, IsOwner, IsMember
<1>3. NoOwnerInvited
  BY DEF MInit, NoOwnerInvited, NoInvitation
<1> QED BY <1>1, <1>2, <1>3 DEF MInv

LEMMA SingleOwner == ASSUME OneOwner PROVE AtMostOneOwner
<1>1. CASE Owners = {}
  BY <1>1, FS_EmptySet DEF AtMostOneOwner
<1>2. CASE Owners # {}
  <2>1. PICK p : p \in Owners
    BY <1>2
  <2>2. Owners = {p}
    BY <2>1 DEF Owners, OneOwner
  <2> QED BY <2>2, FS_Singleton DEF AtMostOneOwner
<1> QED BY <1>1, <1>2

MStepKept == MInv' /\ OwnerNotRemoved /\ InvitationIsFinal

InvitationKept(old, new) ==
  /\ old.status \in {"ACCEPTED", "CANCELLED"} => new = old
  /\ old.status = "EXPIRED" => new.status \in {"EXPIRED", "CANCELLED"}

\* The row of one person changes.
MemberMoves(p, row) ==
  /\ mMembers' \in [MPeople -> MemberRows] /\ mMembers'[p] = row
  /\ \A q \in MPeople : q # p => mMembers'[q] = mMembers[q]

LEMMA OneMember ==
  ASSUME MInv, NEW p \in MPeople, NEW row \in MemberRows, mMembers' = [mMembers EXCEPT ![p] = row],
         row.status = "ACTIVE" /\ row.role = "owner" => IsOwner(p), mInvitations' = mInvitations
  PROVE  MInv' /\ InvitationIsFinal /\ MemberMoves(p, row)
<1>1. MemberMoves(p, row)
  BY DEF MInv, MTypes, MemberMoves
<1>2. \A q \in MPeople : IsOwner(q)' => IsOwner(q)
  BY <1>1 DEF MemberMoves, IsOwner, IsMember
<1>3. OneOwner'
  BY <1>2 DEF MInv, OneOwner
<1>4. MTypes' /\ NoOwnerInvited' /\ InvitationIsFinal
  BY <1>1 DEF MInv, MTypes, MemberMoves, NoOwnerInvited, InvitationIsFinal
<1> QED BY <1>1, <1>3, <1>4 DEF MInv

\* Invitations change, and no member.
LEMMA InvitationsMove ==
  ASSUME MInv, mMembers' = mMembers, NEW p \in MInvited, NEW new \in [MInvitationIds -> InvitationRows],
         mInvitations' = [mInvitations EXCEPT ![p] = new],
         \A i \in MInvitationIds :
           /\ new[i].role # "owner"
           /\ InvitationKept(mInvitations[p][i], new[i])
  PROVE  MTypes' /\ NoOwnerInvited' /\ InvitationIsFinal
<1>1. mInvitations' \in [MInvited -> [MInvitationIds -> InvitationRows]] /\ mInvitations'[p] = new
  BY DEF MInv, MTypes
<1>2. \A q \in MInvited : q # p => mInvitations'[q] = mInvitations[q]
  BY DEF MInv, MTypes
<1>3. MTypes'
  BY <1>1 DEF MInv, MTypes
<1>4. NoOwnerInvited'
  BY <1>1, <1>2 DEF MInv, NoOwnerInvited
<1>5. InvitationIsFinal
  BY <1>1, <1>2 DEF InvitationIsFinal, InvitationKept
<1> QED BY <1>3, <1>4, <1>5

LEMMA MembersStay ==
  ASSUME MInv, mMembers' = mMembers PROVE OneOwner' /\ OwnerNotRemoved
<1>1. \A q : IsOwner(q)' <=> IsOwner(q)
  BY DEF IsOwner, IsMember
<1>2. Owners' = Owners
  BY <1>1 DEF Owners
<1> QED BY <1>1, <1>2 DEF MInv, OneOwner, OwnerNotRemoved

\* The step of one invitation.
LEMMA OneInvitation ==
  ASSUME MInv, NEW p \in MInvited, NEW i \in MInvitationIds,
         NEW status \in {"PENDING", "EXPIRED", "CANCELLED", "ACCEPTED"},
         \/ mInvitations[p][i].status \in {"INSERTING", "PENDING"}
         \/ mInvitations[p][i].status = "EXPIRED" /\ status = "CANCELLED",
         mInvitations' = [mInvitations EXCEPT ![p][i].status = status]
  PROVE  \E new \in [MInvitationIds -> InvitationRows] :
           /\ mInvitations' = [mInvitations EXCEPT ![p] = new]
           /\ \A k \in MInvitationIds :
                /\ new[k].role # "owner"
                /\ InvitationKept(mInvitations[p][k], new[k])
<1>1. PICK old : old = mInvitations[p]
  OBVIOUS
<1>2. old \in [MInvitationIds -> InvitationRows] /\ \A k \in MInvitationIds : old[k].role # "owner"
  BY <1>1 DEF MInv, MTypes, NoOwnerInvited
<1>3. PICK row : row = [old[i] EXCEPT !.status = status]
  OBVIOUS
<1>4. row \in InvitationRows /\ row.role = old[i].role
  BY <1>2, <1>3 DEF InvitationRows
<1>5. PICK new : new = [old EXCEPT ![i] = row]
  OBVIOUS
<1>6. /\ new \in [MInvitationIds -> InvitationRows] /\ new[i] = row
      /\ \A k \in MInvitationIds : k # i => new[k] = old[k]
  BY <1>2, <1>4, <1>5
<1>7. mInvitations' = [mInvitations EXCEPT ![p] = new]
  BY <1>1, <1>3, <1>5
<1>8. \A k \in MInvitationIds : new[k].role # "owner"
  BY <1>2, <1>4, <1>6
<1>9. /\ old[i].status \in {"INSERTING", "PENDING"} \/ (old[i].status = "EXPIRED" /\ status = "CANCELLED")
      /\ row.status = status
  BY <1>1, <1>2, <1>3 DEF InvitationRows
<1>10. \A k \in MInvitationIds : InvitationKept(old[k], new[k])
  BY <1>6, <1>9 DEF InvitationKept
<1> QED BY <1>1, <1>6, <1>7, <1>8, <1>10

LEMMA InvitationStep ==
  ASSUME MInv, NEW p \in MInvited, NEW i \in MInvitationIds,
         \/ InvitationCommitted(p, i) \/ InvitationExpires(p, i)
         \/ \E actor \in MPeople : CancelInvitation(actor, p, i)
  PROVE  MStepKept
<1>1. PICK status \in {"PENDING", "EXPIRED", "CANCELLED", "ACCEPTED"} :
        /\ mInvitations' = [mInvitations EXCEPT ![p][i].status = status]
        /\ \/ mInvitations[p][i].status \in {"INSERTING", "PENDING"}
           \/ mInvitations[p][i].status = "EXPIRED" /\ status = "CANCELLED"
  BY DEF InvitationCommitted, InvitationExpires, CancelInvitation, MPending
<1>2. mMembers' = mMembers
  BY DEF InvitationCommitted, InvitationExpires, CancelInvitation
<1>3. PICK new \in [MInvitationIds -> InvitationRows] :
        /\ mInvitations' = [mInvitations EXCEPT ![p] = new]
        /\ \A k \in MInvitationIds :
             /\ new[k].role # "owner"
             /\ InvitationKept(mInvitations[p][k], new[k])
  BY <1>1, <1>2, OneInvitation
<1>4. MTypes' /\ NoOwnerInvited' /\ InvitationIsFinal
  BY <1>2, <1>3, InvitationsMove
<1> QED BY <1>2, <1>4, MembersStay DEF MStepKept, MInv

LEMMA InviteStep ==
  ASSUME MInv, NEW actor \in MPeople, NEW p \in MInvited, NEW i \in MInvitationIds, NEW role \in MRoles,
         InviteMember(actor, p, i, role)
  PROVE  MStepKept
<1>1. PICK old : old = mInvitations[p]
  OBVIOUS
<1>2. old \in [MInvitationIds -> InvitationRows] /\ \A k \in MInvitationIds : old[k].role # "owner"
  BY <1>1 DEF MInv, MTypes, NoOwnerInvited
<1>3. PICK new : new = [j \in MInvitationIds |->
          IF j = i THEN [status |-> "INSERTING", role |-> role]
          ELSE IF old[j].status \in MPending THEN [old[j] EXCEPT !.status = "CANCELLED"] ELSE old[j]]
  OBVIOUS
<1>4. mInvitations' = [mInvitations EXCEPT ![p] = new] /\ mMembers' = mMembers /\ role # "owner"
  BY <1>1, <1>3 DEF InviteMember
<1>5. old[i].status = "NONE"
  BY <1>1 DEF InviteMember, NoInvitation
<1>6. ASSUME NEW k \in MInvitationIds
      PROVE  /\ new[k] \in InvitationRows /\ new[k].role # "owner"
             /\ InvitationKept(old[k], new[k])
  <2>1. CASE k = i
    BY <1>3, <1>4, <1>5, <2>1 DEF InvitationRows, InvitationKept
  <2>2. CASE k # i /\ old[k].status \in MPending
    <3>1. new[k] = [old[k] EXCEPT !.status = "CANCELLED"] /\ old[k] \in InvitationRows
      BY <1>2, <1>3, <2>2
    <3>2. new[k].status = "CANCELLED" /\ new[k].role = old[k].role /\ new[k] \in InvitationRows
      BY <3>1 DEF InvitationRows
    <3> QED BY <1>2, <2>2, <3>2 DEF InvitationKept, MPending
  <2>3. CASE k # i /\ old[k].status \notin MPending
    BY <1>2, <1>3, <2>3 DEF InvitationKept, MPending
  <2> QED BY <2>1, <2>2, <2>3
<1>7. new \in [MInvitationIds -> InvitationRows]
  BY <1>3, <1>6
<1>8. MTypes' /\ NoOwnerInvited' /\ InvitationIsFinal
  BY <1>1, <1>4, <1>6, <1>7, InvitationsMove
<1> QED BY <1>4, <1>8, MembersStay DEF MStepKept, MInv

LEMMA AcceptStep ==
  ASSUME MInv, NEW p \in MInvited, NEW i \in MInvitationIds, AcceptInvitation(p, i) PROVE MStepKept
<1>1. mInvitations[p][i].status = "PENDING" /\ mLast' = "accept" /\ p \in MPeople
  BY MNames DEF AcceptInvitation, Acceptable, Done
<1>2. PICK row : row = [status |-> "ACTIVE", role |-> mInvitations[p][i].role]
  OBVIOUS
<1>3. mMembers' = [mMembers EXCEPT ![p] = row]
  BY <1>2 DEF AcceptInvitation
<1>4. row \in MemberRows /\ row.role # "owner"
  <2>1. mInvitations[p][i] \in InvitationRows /\ mInvitations[p][i].role # "owner"
    BY DEF MInv, MTypes, NoOwnerInvited
  <2> QED BY <1>2, <2>1 DEF InvitationRows, MemberRows
<1>5. MemberMoves(p, row)
  BY <1>1, <1>3, <1>4 DEF MInv, MTypes, MemberMoves
<1>6. \A q \in MPeople : IsOwner(q)' => IsOwner(q)
  BY <1>4, <1>5 DEF MemberMoves, IsOwner, IsMember
<1>7. OneOwner' /\ OwnerNotRemoved
  BY <1>1, <1>6 DEF MInv, OneOwner, OwnerNotRemoved
<1>8. mInvitations' = [mInvitations EXCEPT ![p][i].status = "ACCEPTED"]
  BY DEF AcceptInvitation
<1>9. PICK new \in [MInvitationIds -> InvitationRows] :
        /\ mInvitations' = [mInvitations EXCEPT ![p] = new]
        /\ \A k \in MInvitationIds :
             /\ new[k].role # "owner"
             /\ InvitationKept(mInvitations[p][k], new[k])
  BY <1>1, <1>8, OneInvitation
<1>10. /\ mInvitations' \in [MInvited -> [MInvitationIds -> InvitationRows]] /\ mInvitations'[p] = new
       /\ \A q \in MInvited : q # p => mInvitations'[q] = mInvitations[q]
  BY <1>9 DEF MInv, MTypes
<1>11. MTypes'
  BY <1>5, <1>10 DEF MTypes, MemberMoves
<1>12. NoOwnerInvited'
  BY <1>9, <1>10 DEF MInv, NoOwnerInvited
<1>13. InvitationIsFinal
  BY <1>9, <1>10 DEF InvitationIsFinal, InvitationKept
<1> QED BY <1>7, <1>11, <1>12, <1>13 DEF MStepKept, MInv

\* A role change or removal leaves another owner if it takes one.
LEMMA ProtectedStep ==
  ASSUME MInv, NEW actor \in MPeople, NEW p \in MPeople,
         RemoveMember(actor, p) \/ \E role \in MRoles : ChangeMemberRole(actor, p, role)
  PROVE  MStepKept
<1>1. mMembers[p] \in MemberRows /\ mInvitations' = mInvitations
  BY DEF MInv, MTypes, RemoveMember, ChangeMemberRole
<1>2. PICK row \in MemberRows :
        /\ mMembers' = [mMembers EXCEPT ![p] = row]
        /\ row.status = "ACTIVE" /\ row.role = "owner" => IsOwner(p)
        /\ IsOwner(p) /\ ~(row.status = "ACTIVE" /\ row.role = "owner") =>
             \E q \in MPeople \ {p} : IsOwner(q)
  <2>1. CASE RemoveMember(actor, p)
    <3>1. PICK row : row = [mMembers[p] EXCEPT !.status = "REMOVED"]
      OBVIOUS
    <3>2. row \in MemberRows /\ row.status = "REMOVED"
      BY <1>1, <3>1 DEF MemberRows
    <3>3. mMembers' = [mMembers EXCEPT ![p] = row]
      BY <2>1, <3>1 DEF RemoveMember
    <3> QED BY <2>1, <3>2, <3>3 DEF RemoveMember, ProtectLastOwner
  <2>2. ASSUME NEW role \in MRoles, ChangeMemberRole(actor, p, role)
        PROVE  \E row \in MemberRows :
                 /\ mMembers' = [mMembers EXCEPT ![p] = row]
                 /\ row.status = "ACTIVE" /\ row.role = "owner" => IsOwner(p)
                 /\ IsOwner(p) /\ ~(row.status = "ACTIVE" /\ row.role = "owner") =>
                      \E q \in MPeople \ {p} : IsOwner(q)
    <3>1. PICK row : row = [mMembers[p] EXCEPT !.role = role]
      OBVIOUS
    <3>2. row \in MemberRows /\ row.role = role /\ row.status = "ACTIVE"
      BY <1>1, <2>2, <3>1 DEF MemberRows, ChangeMemberRole, IsMember
    <3>3. mMembers' = [mMembers EXCEPT ![p] = row]
      BY <2>2, <3>1 DEF ChangeMemberRole
    <3>4. role = "owner" => IsOwner(p)
      BY <2>2 DEF ChangeMemberRole, RoleAllowed
    <3>5. IsOwner(p) /\ role # "owner" => \E q \in MPeople \ {p} : IsOwner(q)
      BY <2>2 DEF ChangeMemberRole, ProtectLastOwner
    <3> QED BY <3>2, <3>3, <3>4, <3>5
  <2> QED BY <2>1, <2>2
<1>3. MInv' /\ InvitationIsFinal /\ MemberMoves(p, row)
  BY <1>1, <1>2, OneMember
<1>4. OwnerNotRemoved
  <2>1. \A q \in MPeople \ {p} : IsOwner(q) => IsOwner(q)'
    BY <1>3 DEF MemberMoves, IsOwner, IsMember
  <2>2. row.status = "ACTIVE" /\ row.role = "owner" => IsOwner(p)'
    BY <1>3 DEF MemberMoves, IsOwner, IsMember
  <2>3. ASSUME NEW o \in Owners PROVE Owners' # {}
    <3>1. o \in MPeople /\ IsOwner(o)
      BY DEF Owners
    <3> QED BY <1>2, <2>1, <2>2, <3>1 DEF Owners
  <2> QED BY <2>3 DEF OwnerNotRemoved
<1> QED BY <1>3, <1>4 DEF MStepKept

LEMMA TransferStep ==
  ASSUME MInv, NEW actor \in MPeople, NEW p \in MPeople, TransferOwnership(actor, p) PROVE MStepKept
<1>1. /\ mMembers' = [[mMembers EXCEPT ![p].role = "owner"] EXCEPT ![actor].role = "admin"]
      /\ mInvitations' = mInvitations /\ mLast' = "transfer" /\ IsOwner(actor)
  BY DEF TransferOwnership, Done
<1>2. mMembers \in [MPeople -> MemberRows]
  BY DEF MInv, MTypes
<1>3. PICK m : m = [mMembers EXCEPT ![p].role = "owner"]
  OBVIOUS
<1>4. m \in [MPeople -> MemberRows] /\ \A q \in MPeople : q # p => m[q] = mMembers[q]
  BY <1>2, <1>3 DEF MemberRows, MRoles
<1>5. mMembers' = [m EXCEPT ![actor].role = "admin"]
  BY <1>1, <1>3
<1>6. /\ mMembers' \in [MPeople -> MemberRows] /\ mMembers'[actor].role = "admin"
      /\ \A q \in MPeople : q # actor => mMembers'[q] = m[q]
  BY <1>4, <1>5 DEF MemberRows, MRoles
<1>7. \A q \in MPeople : q # actor /\ q # p => mMembers'[q] = mMembers[q]
  BY <1>4, <1>6
<1>8. \A q \in MPeople : IsOwner(q)' => q = p
  <2>1. ASSUME NEW q \in MPeople, IsOwner(q)', q # p PROVE FALSE
    <3>1. q # actor
      BY <2>1, <1>6 DEF IsOwner
    <3>2. IsOwner(q)
      BY <2>1, <3>1, <1>7 DEF IsOwner, IsMember
    <3> QED BY <1>1, <3>1, <3>2 DEF MInv, OneOwner
  <2> QED BY <2>1
<1>9. OneOwner' /\ OwnerNotRemoved
  BY <1>1, <1>8 DEF OneOwner, OwnerNotRemoved
<1>10. MTypes' /\ NoOwnerInvited' /\ InvitationIsFinal
  BY <1>1, <1>6 DEF MInv, MTypes, NoOwnerInvited, InvitationIsFinal
<1> QED BY <1>9, <1>10 DEF MStepKept, MInv

LEMMA MembershipStep == ASSUME MInv, MNext PROVE MStepKept
<1>1. ASSUME mMembers' = mMembers, mInvitations' = mInvitations PROVE MStepKept
  <2>1. MTypes' /\ NoOwnerInvited' /\ InvitationIsFinal
    BY <1>1 DEF MInv, MTypes, NoOwnerInvited, InvitationIsFinal
  <2> QED BY <1>1, <2>1, MembersStay DEF MStepKept, MInv
<1>2. ASSUME NEW p \in MPeople,
             \/ DeletionChecked(p) \/ DeletionCommitted(p) \/ ScheduleWorkspaceDeletion(p)
             \/ \E manages \in BOOLEAN : UpdateRole(p, manages)
      PROVE  MStepKept
  BY <1>1, <1>2 DEF DeletionChecked, DeletionCommitted, ScheduleWorkspaceDeletion, UpdateRole
<1> QED BY <1>2, InvitationStep, InviteStep, AcceptStep, ProtectedStep, TransferStep DEF MNext

\* A workspace has at most one owner and keeps it through every role change and removal,
\* and an invitation ends once, for any people and invitations and in whatever order
\* requests come (WorkspaceService, _protect_last_owner).
THEOREM MembershipKeepsItsPromise == MSpec => MembershipPromise
<1>1. MInit => MInv
  BY MInitially
<1>2. ASSUME MInv, [MNext]_mVars PROVE MInv'
  <2>1. CASE UNCHANGED mVars
    <3>1. mMembers' = mMembers /\ mInvitations' = mInvitations
      BY <2>1 DEF mVars
    <3>2. MTypes' /\ NoOwnerInvited'
      BY <1>2, <3>1 DEF MInv, MTypes, NoOwnerInvited
    <3> QED BY <1>2, <3>1, <3>2, MembersStay DEF MInv
  <2> QED BY <1>2, <2>1, MembershipStep DEF MStepKept
<1>3. OneOwner' => AtMostOneOwner'
  BY SingleOwner, PTL
<1>4. ASSUME MInv, [MNext]_mVars
      PROVE  [AtMostOneOwner' /\ OwnerNotRemoved /\ InvitationIsFinal]_mVars
  BY <1>3, <1>4, MembershipStep DEF MStepKept, MInv
<1> QED BY <1>1, <1>2, <1>4, PTL DEF MSpec, MembershipPromise

-----------------------------------------------------------------------------
(* Operations.                                                             *)

OpRows ==
  [state : {"NONE", "QUEUED", "RETRYING", "SUCCEEDED", "PASSED", "BLOCKED", "FAILED"},
   failure : {"none", "evidence", "permanent", "transient", "exhausted"},
   evidence : {"none", "passed", "late", "refuted"}]
OpMessages == [state : {"none", "queued", "retryable", "permanent"}, retries : Nat]

OpTypes ==
  /\ opJobs \in [OpKinds -> OpRows]
  /\ opMail \in [OpKinds -> [OpSlots -> OpMessages]]
  /\ opLost \in [OpKinds -> BOOLEAN]

\* Work that waits has no evidence, and evidence that failed it says so.
OpRowOk(row) ==
  /\ row.state \in {"QUEUED", "RETRYING"} => row.evidence = "none"
  /\ row.evidence # "none" /\ row.state = "FAILED" => row.failure = "evidence"

OpInv ==
  /\ OpTypes /\ \A k \in OpKinds : OpRowOk(opJobs[k])
  /\ ExercisedBackupVerified /\ NoOperationForgotten

LEMMA OpKindNames == "backup" \in OpKinds /\ "recovery" \in OpKinds /\ "ga" \in OpKinds
BY DEF OpKinds

LEMMA OpEnds ==
  ASSUME NEW k \in OpKinds, NEW e \in {"passed", "late", "refuted"}, NEW row, row = OpEnd(k, e)
  PROVE  row \in OpRows /\ OpRowOk(row) /\ row.state \notin {"QUEUED", "RETRYING"}
         /\ row.evidence = e
BY DEF OpEnd, OpRows, OpRowOk

LEMMA OpFirst ==
  /\ NoOperation \in OpRows /\ OpRowOk(NoOperation) /\ NoOperation.state = "NONE"
  /\ NoOperation.evidence = "none"
  /\ NoMessage \in OpMessages /\ NoMessage.state = "none"
  /\ QueuedMessage \in OpMessages /\ QueuedMessage.state = "queued"
BY DEF NoOperation, NoMessage, QueuedMessage, OpRows, OpRowOk, OpMessages

LEMMA OpInitially ==
  ASSUME NEW backup \in {NoOperation} \cup {OpEnd("backup", e) : e \in {"passed", "late", "refuted"}},
         OpInit(backup)
  PROVE  OpInv
<1>1. backup \in OpRows /\ OpRowOk(backup) /\ backup.state \notin {"QUEUED", "RETRYING"}
  BY OpFirst, OpEnds, OpKindNames
<1>2. /\ opJobs \in [OpKinds -> OpRows]
      /\ \A k \in OpKinds : opJobs[k] \in {backup, NoOperation}
      /\ opJobs["recovery"] = NoOperation
  BY <1>1, OpFirst, OpKindNames DEF OpInit
<1>3. opMail \in [OpKinds -> [OpSlots -> OpMessages]] /\ opLost \in [OpKinds -> BOOLEAN]
  BY OpFirst DEF OpInit
<1>4. \A k \in OpKinds : OpRowOk(opJobs[k])
  BY <1>1, <1>2, OpFirst
<1>5. ExercisedBackupVerified
  BY <1>2, OpFirst DEF ExercisedBackupVerified
<1>6. NoOperationForgotten
  BY <1>1, <1>2, OpFirst DEF NoOperationForgotten, OpRuns
<1> QED BY <1>2, <1>3, <1>4, <1>5, <1>6 DEF OpInv, OpTypes

OpStepKept == OpInv' /\ EvidenceIsFinal /\ PermanentStaysFailed

\* A step that writes one job, of which it may only replace what is not final, and
\* the messages of that job.
LEMMA OneOperation ==
  ASSUME OpInv, NEW k \in OpKinds, NEW row \in OpRows, OpRowOk(row),
         opJobs' = [opJobs EXCEPT ![k] = row],
         opMail' \in [OpKinds -> [OpSlots -> OpMessages]], opLost' \in [OpKinds -> BOOLEAN],
         \A j \in OpKinds : j # k => opMail'[j] = opMail[j] /\ opLost'[j] = opLost[j],
         row # opJobs[k] =>
           /\ opJobs[k].evidence = "none"
           /\ opJobs[k].state = "FAILED" => opJobs[k].failure = "exhausted",
         k = "recovery" /\ opJobs[k].state = "NONE" /\ row.state # "NONE" =>
           opJobs["backup"].evidence \in {"passed", "late"},
         row.state \in {"QUEUED", "RETRYING"} =>
           opLost'[k] \/ \E s \in OpSlots : opMail'[k][s].state # "none"
  PROVE  OpStepKept
<1>1. opJobs' \in [OpKinds -> OpRows] /\ opJobs'[k] = row
  BY DEF OpInv, OpTypes
<1>2. \A j \in OpKinds : j # k => opJobs'[j] = opJobs[j]
  BY DEF OpInv, OpTypes
<1>3. OpTypes'
  BY <1>1 DEF OpTypes
<1>4. (\A j \in OpKinds : OpRowOk(opJobs[j]))'
  <2>1. \A j \in OpKinds : OpRowOk(opJobs'[j])
    BY <1>1, <1>2 DEF OpInv
  <2> QED BY <2>1
<1>5. EvidenceIsFinal
  BY <1>1, <1>2 DEF EvidenceIsFinal
<1>6. PermanentStaysFailed
  BY <1>1, <1>2 DEF PermanentStaysFailed
<1>7. ExercisedBackupVerified'
  <2>1. opJobs["backup"].evidence \in {"passed", "late"} => opJobs'["backup"] = opJobs["backup"]
    BY <1>5, OpKindNames DEF EvidenceIsFinal
  <2>2. opJobs'["recovery"].state # "NONE" => opJobs["backup"].evidence \in {"passed", "late"}
    BY <1>1, <1>2, OpKindNames DEF OpInv, ExercisedBackupVerified
  <2> QED BY <2>1, <2>2 DEF ExercisedBackupVerified
<1>8. NoOperationForgotten'
  <2>1. ASSUME NEW j \in OpKinds, OpRuns(j)'
        PROVE  opLost'[j] \/ \E s \in OpSlots : opMail'[j][s] # NoMessage
    <3>1. CASE j = k
      BY <1>1, <2>1, <3>1, OpFirst DEF OpRuns
    <3>2. CASE j # k
      BY <1>2, <2>1, <3>2 DEF OpRuns, OpInv, NoOperationForgotten
    <3> QED BY <3>1, <3>2
  <2> QED BY <2>1 DEF NoOperationForgotten
<1> QED BY <1>3, <1>4, <1>5, <1>6, <1>7, <1>8 DEF OpStepKept, OpInv

\* What a step may do to the messages of one job.
OpMailed(k) ==
  /\ opMail' \in [OpKinds -> [OpSlots -> OpMessages]] /\ opLost' \in [OpKinds -> BOOLEAN]
  /\ \A j \in OpKinds : j # k => opMail'[j] = opMail[j] /\ opLost'[j] = opLost[j]

LEMMA OneMessage ==
  ASSUME OpTypes, NEW k \in OpKinds, NEW s \in OpSlots, NEW m \in OpMessages,
         opMail' = [opMail EXCEPT ![k][s] = m], opLost' = opLost
  PROVE  /\ OpMailed(k) /\ opMail'[k][s] = m
         /\ \A t \in OpSlots : t # s => opMail'[k][t] = opMail[k][t]
<1>1. PICK box : box = [opMail[k] EXCEPT ![s] = m]
  OBVIOUS
<1>2. opMail[k] \in [OpSlots -> OpMessages]
  BY DEF OpTypes
<1>3. /\ box \in [OpSlots -> OpMessages] /\ box[s] = m
      /\ \A t \in OpSlots : t # s => box[t] = opMail[k][t]
  BY <1>1, <1>2
<1>4. opMail' = [opMail EXCEPT ![k] = box]
  BY <1>1
<1>5. /\ opMail' \in [OpKinds -> [OpSlots -> OpMessages]] /\ opMail'[k] = box
      /\ \A j \in OpKinds : j # k => opMail'[j] = opMail[j]
  BY <1>3, <1>4 DEF OpTypes
<1>6. OpMailed(k)
  BY <1>5 DEF OpMailed, OpTypes
<1> QED BY <1>3, <1>5, <1>6

LEMMA OpEnqueued ==
  ASSUME OpTypes, NEW k \in OpKinds, OpEnqueue(k)
  PROVE  OpMailed(k) /\ (opLost'[k] \/ \E s \in OpSlots : opMail'[k][s].state # "none")
<1>1. ASSUME NEW s \in OpSlots, opMail' = [opMail EXCEPT ![k][s] = QueuedMessage], opLost' = opLost
      PROVE  OpMailed(k) /\ opMail'[k][s].state # "none"
  BY <1>1, OpFirst, OneMessage
<1>2. CASE opLost' = [opLost EXCEPT ![k] = TRUE] /\ opMail' = opMail
  BY <1>2 DEF OpTypes, OpMailed
<1> QED BY <1>1, <1>2 DEF OpEnqueue

LEMMA OpRow ==
  ASSUME OpInv, NEW k \in OpKinds
  PROVE  /\ OpTypes /\ opJobs[k] \in OpRows /\ OpRowOk(opJobs[k])
         /\ opJobs = [opJobs EXCEPT ![k] = opJobs[k]]
         /\ \A s \in OpSlots : opMail[k][s] \in OpMessages
         /\ opMail \in [OpKinds -> [OpSlots -> OpMessages]]
<1>1. OpTypes /\ OpRowOk(opJobs[k])
  BY DEF OpInv
<1> QED BY <1>1 DEF OpTypes

LEMMA CreateKept ==
  ASSUME OpInv, NEW k \in OpKinds, CreateOperation(k), k = "recovery" => BackupIsVerified
  PROVE  OpStepKept
<1>1. PICK row : row = [NoOperation EXCEPT !.state = "QUEUED"]
  OBVIOUS
<1>2. opJobs[k] = NoOperation /\ opJobs' = [opJobs EXCEPT ![k] = row] /\ OpEnqueue(k)
  BY <1>1 DEF CreateOperation
<1>3. row \in OpRows /\ row.evidence = "none" /\ row.state = "QUEUED"
  BY <1>1 DEF NoOperation, OpRows
<1>4. OpRowOk(row)
  BY <1>3 DEF OpRowOk
<1>5. OpMailed(k) /\ (opLost'[k] \/ \E s \in OpSlots : opMail'[k][s].state # "none")
  BY <1>2, OpEnqueued DEF OpInv
<1>6. opJobs[k].evidence = "none" /\ opJobs[k].state = "NONE"
  BY <1>2, OpFirst
<1> QED BY <1>2, <1>3, <1>4, <1>5, <1>6, OneOperation DEF OpMailed, BackupIsVerified

LEMMA RetryKept ==
  ASSUME OpInv, NEW k \in OpKinds, RetryOperation(k)
  PROVE  OpStepKept
<1>1. PICK row : row = [opJobs[k] EXCEPT !.state = "RETRYING", !.failure = "none"]
  OBVIOUS
<1>2. /\ opJobs' = [opJobs EXCEPT ![k] = row] /\ OpEnqueue(k)
      /\ opJobs[k].state = "FAILED" /\ opJobs[k].failure = "exhausted" /\ opJobs[k].evidence = "none"
  BY <1>1 DEF RetryOperation, RetriesExhausted
<1>3. row \in OpRows /\ row.evidence = "none" /\ row.state = "RETRYING"
  BY <1>1, <1>2, OpRow DEF OpRows
<1>4. OpRowOk(row)
  BY <1>3 DEF OpRowOk
<1>5. OpMailed(k) /\ (opLost'[k] \/ \E s \in OpSlots : opMail'[k][s].state # "none")
  BY <1>2, OpEnqueued DEF OpInv
<1> QED BY <1>2, <1>3, <1>4, <1>5, OneOperation DEF OpMailed

\* The message is acknowledged or stays.
LEMMA OpAcked ==
  ASSUME OpTypes, NEW k \in OpKinds, NEW s \in OpSlots, OpAcknowledges(k, s), opLost' = opLost
  PROVE  OpMailed(k)
<1>1. CASE opMail' = opMail
  BY <1>1 DEF OpTypes, OpMailed
<1>2. CASE opMail' = [opMail EXCEPT ![k][s] = NoMessage]
  BY <1>2, OpFirst, OneMessage
<1> QED BY <1>1, <1>2 DEF OpAcknowledges

LEMMA ExecuteKept ==
  ASSUME OpInv, NEW k \in OpKinds, NEW s \in OpSlots, NEW e \in {"passed", "late", "refuted"},
         ExecuteOperation(k, s, e)
  PROVE  OpStepKept
<1>1. PICK row : row = OpEnd(k, e)
  OBVIOUS
<1>2. /\ opJobs' = [opJobs EXCEPT ![k] = row] /\ OpAcknowledges(k, s) /\ opLost' = opLost
      /\ opJobs[k].state \in {"QUEUED", "RETRYING"}
  BY <1>1 DEF ExecuteOperation, OpRuns
<1>3. row \in OpRows /\ OpRowOk(row) /\ row.state \notin {"QUEUED", "RETRYING"}
  BY <1>1, OpEnds
<1>4. OpMailed(k) /\ opJobs[k].evidence = "none"
  BY <1>2, OpAcked, OpRow DEF OpRowOk
<1> QED BY <1>2, <1>3, <1>4, OneOperation DEF OpMailed

LEMMA UnavailableKept ==
  ASSUME OpInv, NEW k \in OpKinds, NEW s \in OpSlots, OpRuntimeUnavailable(k, s)
  PROVE  OpStepKept
<1>1. PICK row : row = [opJobs[k] EXCEPT !.state = "FAILED", !.failure = "permanent"]
  OBVIOUS
<1>2. /\ opJobs' = [opJobs EXCEPT ![k] = row] /\ OpAcknowledges(k, s) /\ opLost' = opLost
      /\ opJobs[k].state \in {"QUEUED", "RETRYING"}
  BY <1>1 DEF OpRuntimeUnavailable, OpRuns
<1>3. OpMailed(k) /\ opJobs[k].evidence = "none"
  BY <1>2, OpAcked, OpRow DEF OpRowOk
<1>4. row \in OpRows /\ row.evidence = "none" /\ row.state = "FAILED"
  BY <1>1, <1>3, OpRow DEF OpRows
<1>5. OpRowOk(row)
  BY <1>4 DEF OpRowOk
<1> QED BY <1>2, <1>3, <1>4, <1>5, OneOperation DEF OpMailed

\* Only a message changes: it stays one, or the job does not wait.
LEMMA MessageKept ==
  ASSUME OpInv, NEW k \in OpKinds, NEW s \in OpSlots, NEW m \in OpMessages,
         opMail' = [opMail EXCEPT ![k][s] = m], UNCHANGED <<opJobs, opLost>>,
         m.state # "none" \/ opJobs[k].state \notin {"QUEUED", "RETRYING"}
  PROVE  OpStepKept
<1>1. OpMailed(k) /\ opMail'[k][s] = m
  BY OneMessage, OpRow
<1>2. opJobs' = [opJobs EXCEPT ![k] = opJobs[k]] /\ opJobs[k] \in OpRows /\ OpRowOk(opJobs[k])
  BY OpRow
<1> QED BY <1>1, <1>2, OneOperation DEF OpMailed

\* Setting the state of a message.
LEMMA MessageState ==
  ASSUME OpInv, NEW k \in OpKinds, NEW s \in OpSlots, NEW t \in OpSlots,
         NEW x \in {"queued", "retryable", "permanent"},
         NEW m, m = [opMail[k][t] EXCEPT !.state = x]
  PROVE  m \in OpMessages /\ m.state = x
<1>1. opMail[k][t] \in OpMessages
  BY OpRow
<1> QED BY <1>1 DEF OpMessages

LEMMA RecordKept ==
  ASSUME OpInv, NEW k \in OpKinds, NEW s \in OpSlots, RecordAttemptError(k, s)
  PROVE  OpStepKept
<1>1. PICK old : old = opMail[k][s]
  OBVIOUS
<1>2. PICK again : again = [old EXCEPT !.state = "queued"]
  OBVIOUS
<1>3. old \in OpMessages /\ again \in OpMessages /\ again.state = "queued"
  BY <1>1, <1>2, OpRow, MessageState
<1>4. opJobs[k].state \in {"QUEUED", "RETRYING"} /\ opLost' = opLost
  BY DEF RecordAttemptError, RecordsError, OpRuns
<1>5. opJobs[k].evidence = "none" /\ opJobs[k] \in OpRows /\ OpTypes
  BY <1>4, OpRow DEF OpRowOk
<1>6. CASE WillRetry(k, s)
  <2>1. PICK row : row = [opJobs[k] EXCEPT !.state = "RETRYING", !.failure = "transient"]
    OBVIOUS
  <2>2. PICK m : m = TaskRetry(k, s)
    OBVIOUS
  <2>3. /\ opJobs' = [opJobs EXCEPT ![k] = row]
        /\ \/ opMail' = [opMail EXCEPT ![k][s] = m] \/ opMail' = [opMail EXCEPT ![k][s] = again]
    BY <1>1, <1>2, <1>6, <2>1, <2>2 DEF RecordAttemptError
  <2>4. m \in OpMessages /\ m.state = "queued"
    BY <1>1, <1>3, <1>6, <2>2 DEF TaskRetry, WillRetry, OpMessages
  <2>5. row \in OpRows /\ row.evidence = "none" /\ row.state = "RETRYING"
    BY <1>5, <2>1 DEF OpRows
  <2>6. OpRowOk(row)
    BY <2>5 DEF OpRowOk
  <2>7. OpMailed(k) /\ opMail'[k][s].state = "queued"
    BY <1>3, <1>4, <1>5, <2>3, <2>4, OneMessage
  <2> QED BY <1>4, <1>5, <2>3, <2>5, <2>6, <2>7, OneOperation DEF OpMailed
<1>7. CASE ~WillRetry(k, s)
  <2>1. PICK row : row = [opJobs[k] EXCEPT !.state = "FAILED", !.failure =
                            IF old.state = "retryable" THEN "exhausted" ELSE "permanent"]
    OBVIOUS
  <2>2. /\ opJobs' = [opJobs EXCEPT ![k] = row]
        /\ \/ opMail' = [opMail EXCEPT ![k][s] = NoMessage] \/ opMail' = [opMail EXCEPT ![k][s] = again]
    BY <1>1, <1>2, <1>7, <2>1 DEF RecordAttemptError
  <2>3. row \in OpRows /\ row.evidence = "none" /\ row.state = "FAILED"
    BY <1>5, <2>1 DEF OpRows
  <2>4. OpRowOk(row)
    BY <2>3 DEF OpRowOk
  <2>5. OpMailed(k)
    BY <1>3, <1>4, <1>5, <2>2, OpFirst, OneMessage
  <2> QED BY <1>4, <1>5, <2>2, <2>3, <2>4, <2>5, OneOperation DEF OpMailed
<1> QED BY <1>6, <1>7

LEMMA DeliveryKept ==
  ASSUME OpInv, NEW k \in OpKinds, NEW s \in OpSlots, OpDelivery(k, s)
  PROVE  OpStepKept
<1>1. CASE OpReturns(k, s)
  BY <1>1, OpFirst, MessageKept DEF OpReturns, OpRuns
<1>2. CASE ErrorNotRecorded(k, s)
  BY <1>2, OpFirst, MessageKept DEF ErrorNotRecorded, RecordsError, OpRuns
<1>3. ASSUME NEW x \in {"queued", "retryable", "permanent"},
             opMail' = [opMail EXCEPT ![k][s].state = x], UNCHANGED <<opJobs, opLost>>
      PROVE  OpStepKept
  <2>1. PICK m : m = [opMail[k][s] EXCEPT !.state = x]
    OBVIOUS
  <2>2. m \in OpMessages /\ m.state = x /\ opMail' = [opMail EXCEPT ![k][s] = m]
    BY <1>3, <2>1, MessageState
  <2>3. m.state # "none"
    BY <2>2
  <2>4. opJobs' = opJobs /\ opLost' = opLost
    BY <1>3
  <2> QED BY <2>2, <2>3, <2>4, MessageKept
<1>4. CASE OpWorkerLost(k, s)
  BY <1>3, <1>4 DEF OpWorkerLost
<1>5. CASE \E error \in {"retryable", "permanent"} : OpErrs(k, s, error)
  BY <1>3, <1>5 DEF OpErrs
<1>6. ASSUME NEW t \in OpSlots, OpRedelivered(k, s, t) PROVE OpStepKept
  <2>1. PICK m : m = [opMail[k][s] EXCEPT !.state = "queued"]
    OBVIOUS
  <2>2. m \in OpMessages /\ m.state = "queued" /\ opMail' = [opMail EXCEPT ![k][t] = m]
    BY <1>6, <2>1, MessageState DEF OpRedelivered
  <2> QED BY <1>6, <2>2, MessageKept DEF OpRedelivered
<1> QED BY <1>1, <1>2, <1>4, <1>5, <1>6, RecordKept DEF OpDelivery

LEMMA OperationsStep == ASSUME OpInv, OpNext PROVE OpStepKept
<1>1. CASE OpRequest
  <2>1. "backup" # "recovery" /\ "ga" # "recovery"
    OBVIOUS
  <2> QED BY <1>1, <2>1, CreateKept, OpKindNames
          DEF OpRequest, CreateBackupRun, CreateRecoveryExercise, CreateGaAssessment
<1>2. CASE OpRetryRequest
  BY <1>2, RetryKept, OpKindNames DEF OpRetryRequest, RetryBackup, RetryRecovery, RetryGaAssessment
<1>3. CASE BackupNext
  BY <1>3, ExecuteKept, UnavailableKept, DeliveryKept, OpKindNames
     DEF BackupNext, RunBackup, ExecuteBackup
<1>4. CASE RecoveryNext
  BY <1>4, ExecuteKept, UnavailableKept, DeliveryKept, OpKindNames
     DEF RecoveryNext, RunRecovery, ExecuteRecovery
<1>5. CASE GaNext
  BY <1>5, ExecuteKept, UnavailableKept, DeliveryKept, OpKindNames
     DEF GaNext, RunGa, ExecuteGaAssessment
<1> QED BY <1>1, <1>2, <1>3, <1>4, <1>5 DEF OpNext

\* Evidence and permanent failures stay, an exercise uses a backup that was verified, and
\* what waits has a message unless its sender was lost, for any number of messages,
\* redeliveries, retries and lost workers (domain/operations).
THEOREM OperationsKeepTheirPromise == OpSpec => OperationsPromise
<1>1. (\E backup \in {NoOperation} \cup {OpEnd("backup", e) : e \in {"passed", "late", "refuted"}} :
         OpInit(backup)) => OpInv
  BY OpInitially
<1>2. ASSUME OpInv, [OpNext]_opVars PROVE OpInv'
  <2>1. CASE UNCHANGED opVars
    BY <1>2, <2>1 DEF opVars, OpInv, OpTypes, ExercisedBackupVerified, NoOperationForgotten, OpRuns
  <2> QED BY <1>2, <2>1, OperationsStep DEF OpStepKept
<1>3. ASSUME OpInv, [OpNext]_opVars
      PROVE  [ /\ ( /\ ExercisedBackupVerified
                    /\ NoOperationForgotten )'
               /\ EvidenceIsFinal
               /\ PermanentStaysFailed ]_opVars
  BY <1>3, OperationsStep DEF OpStepKept, OpInv
<1> QED BY <1>1, <1>2, <1>3, PTL DEF OpSpec, OperationsPromise

-----------------------------------------------------------------------------
(* Copyright cases.                                                        *)

CpInv ==
  /\ DOMAIN cpApplied = CpKeys
  /\ DecisionWasApplied

CpStepKept == CpInv' /\ DecidedIsLeftAlone

\* What the provider did is never undone by a later call.
LEMMA ActionApplied ==
  ASSUME CpInv, NEW key \in CpKeys, NEW action, ApplyAction(key, action)
  PROVE  DOMAIN cpApplied' = CpKeys /\ Range(cpApplied) \ {NotApplied} \subseteq Range(cpApplied')
<1>1. CASE cpApplied[key] # NotApplied
  BY <1>1 DEF ApplyAction, CpInv
<1>2. CASE cpApplied[key] = NotApplied
  <2>1. cpApplied' = [cpApplied EXCEPT ![key] = action]
    BY <1>2 DEF ApplyAction
  <2>2. DOMAIN cpApplied' = CpKeys /\ \A k \in CpKeys : k # key => cpApplied'[k] = cpApplied[k]
    BY <2>1 DEF CpInv
  <2> QED BY <1>2, <2>2 DEF Range, CpInv
<1> QED BY <1>1, <1>2

\* A step that decides nothing new.
LEMMA CpNothingDecided ==
  ASSUME CpInv, DOMAIN cpApplied' = CpKeys,
         Range(cpApplied) \ {NotApplied} \subseteq Range(cpApplied'),
         cpState' = cpState \/ cpState' \notin {"RESTORED", "REMOVED"}
  PROVE  CpInv'
<1>1. "RESTORE" # NotApplied /\ "REMOVE" # NotApplied
  BY DEF NotApplied
<1> QED BY <1>1 DEF CpInv, DecisionWasApplied

LEMMA DecideKept ==
  ASSUME CpInv, NEW action \in {"RESTORE", "REMOVE", "REJECT", "CLOSE"}, NEW evidence \in CpEvidence,
         NEW recorded \in BOOLEAN, DecideCopyrightCase(action, evidence, recorded)
  PROVE  CpStepKept
<1>1. evidence \in CpKeys /\ action \in CpTargets(cpState)
  BY DEF CpKeys, DecideCopyrightCase
<1>2. /\ cpState \in {"RESTORED", "REMOVED", "REJECTED"} => action = "CLOSE"
      /\ cpState # "CLOSED"
  BY <1>1 DEF CpTargets
<1>3. CASE action \in {"RESTORE", "REMOVE"}
  <2>1. ApplyAction(evidence, action)
    BY <1>3 DEF DecideCopyrightCase
  <2>2. DOMAIN cpApplied' = CpKeys /\ Range(cpApplied) \ {NotApplied} \subseteq Range(cpApplied')
    BY <1>1, <2>1, ActionApplied
  <2>3. DecidedIsLeftAlone
    BY <1>2, <1>3 DEF DecidedIsLeftAlone
  <2>4. CASE ~recorded
    <3>1. cpState' = cpState
      BY <2>4 DEF DecideCopyrightCase
    <3> QED BY <2>2, <2>3, <3>1, CpNothingDecided DEF CpStepKept
  <2>5. CASE recorded
    <3>1. cpApplied'[evidence] = action /\ cpState' = Decided(action)
      BY <1>3, <2>5 DEF DecideCopyrightCase, AcceptAnswer
    <3>2. action \in Range(cpApplied')
      BY <1>1, <2>2, <3>1 DEF Range
    <3>3. Decided("RESTORE") = "RESTORED" /\ Decided("REMOVE") = "REMOVED"
      BY DEF Decided
    <3>4. DecisionWasApplied'
      BY <1>3, <3>1, <3>2, <3>3 DEF DecisionWasApplied
    <3> QED BY <2>2, <2>3, <3>4 DEF CpStepKept, CpInv
  <2> QED BY <2>4, <2>5
<1>4. CASE action \in {"REJECT", "CLOSE"}
  <2>1. UNCHANGED <<cpApplied, cpContent>> /\ cpState' = Decided(action)
    BY <1>4 DEF DecideCopyrightCase
  <2>2. Decided("REJECT") = "REJECTED" /\ Decided("CLOSE") = "CLOSED"
    BY DEF Decided
  <2>3. DecisionWasApplied'
    BY <1>4, <2>1, <2>2 DEF DecisionWasApplied
  <2> QED BY <2>1, <2>3 DEF CpStepKept, CpInv, DecidedIsLeftAlone
<1> QED BY <1>3, <1>4

LEMMA CopyrightStep == ASSUME CpInv, CopyrightNext PROVE CpStepKept
<1>1. ASSUME UNCHANGED <<cpApplied, cpContent>>, cpState' = cpState \/ cpState' \notin {"RESTORED", "REMOVED"}
      PROVE  CpStepKept
  BY <1>1, CpNothingDecided DEF CpStepKept, CpInv, DecidedIsLeftAlone
<1>2. CASE CreateCopyrightCase \/ SubmitCounterNotice \/ ReturnCopyrightCase
  BY <1>1, <1>2 DEF CreateCopyrightCase, SubmitCounterNotice, ReturnCopyrightCase
<1>3. ASSUME NEW final \in {"REJECTED", "LEGAL_REVIEW", "FAILED"}, TriageNotice(final)
      PROVE  CpStepKept
  BY <1>1, <1>3 DEF TriageNotice
<1>4. ASSUME NEW final \in {"WAITING_COUNTER_NOTICE", "FAILED", cpState}, ApplyTemporaryAction(final)
      PROVE  CpStepKept
  <2>1. ApplyAction("temporary", "RESTRICT") /\ cpState \in {"RECEIVED", "FAILED"} /\ cpState' = final
    BY <1>4 DEF ApplyTemporaryAction, CpProcesses
  <2>2. DOMAIN cpApplied' = CpKeys /\ Range(cpApplied) \ {NotApplied} \subseteq Range(cpApplied')
    BY <2>1, ActionApplied DEF CpKeys
  <2>3. CpInv'
    BY <2>1, <2>2, CpNothingDecided
  <2> QED BY <2>1, <2>3 DEF CpStepKept, DecidedIsLeftAlone
<1> QED BY <1>2, <1>3, <1>4, DecideKept DEF CopyrightNext

-----------------------------------------------------------------------------
(* Consent.                                                                *)

ConsentRows == [decision : {"GRANTED", "WITHDRAWN"}, supersedes : Nat]

\* A row supersedes an earlier one, and one row is in force.
CoInv ==
  /\ coRows \in Seq(ConsentRows)
  /\ \A s \in CoRow : coRows[s].supersedes < s
  /\ CoRow # {} => \E r \in CoRow : \A q \in CoRow : ~Superseded(q) <=> q = r

LEMMA OneInForce == ASSUME CoInv PROVE ConsentIsOneChain
<1>1. ASSUME CoRow # {} PROVE Cardinality({r \in CoRow : ~Superseded(r)}) = 1
  <2>1. PICK r \in CoRow : \A q \in CoRow : ~Superseded(q) <=> q = r
    BY <1>1 DEF CoInv
  <2>2. {q \in CoRow : ~Superseded(q)} = {r}
    BY <2>1
  <2> QED BY <2>2, FS_Singleton
<1> QED BY <1>1 DEF ConsentIsOneChain

LEMMA ConsentStep == ASSUME CoInv, ConsentNext PROVE CoInv'
<1>1. PICK decision \in {"GRANTED", "WITHDRAWN"}, r \in 0..CoMaxRows : AppendConsent(decision, r)
  BY DEF ConsentNext
<1>2. PICK row : row = [decision |-> decision, supersedes |-> r]
  OBVIOUS
<1>3. r \in Nat /\ row \in ConsentRows /\ row.supersedes = r
  BY <1>2, CmBounds DEF ConsentRows
<1>4. PICK n : n = Len(coRows)
  OBVIOUS
<1>5. coRows' = Append(coRows, row) /\ Supersedable(r) /\ coRows \in Seq(ConsentRows)
  BY <1>1, <1>2 DEF AppendConsent, CoInv
<1>6. n \in Nat /\ CoRow = 1..n
  BY <1>4, <1>5 DEF CoRow
<1>7. /\ coRows' \in Seq(ConsentRows) /\ CoRow' = 1..(n + 1) /\ coRows'[n + 1] = row
      /\ \A s \in 1..n : coRows'[s] = coRows[s]
  BY <1>3, <1>4, <1>5, <1>6 DEF CoRow
<1>8. r <= n /\ (r = 0 => n = 0)
  BY <1>3, <1>5, <1>6 DEF Supersedable
<1>9. \A s \in 1..n : coRows[s].supersedes < s /\ coRows[s].supersedes \in Nat
  <2>1. \A s \in 1..n : coRows[s] \in ConsentRows
    BY <1>4, <1>5, <1>6
  <2> QED BY <1>6, <2>1 DEF CoInv, ConsentRows
<1>10. \A s \in 1..(n + 1) : coRows'[s].supersedes < s
  BY <1>3, <1>6, <1>7, <1>8, <1>9
<1>11. \A q \in 1..(n + 1) : Superseded(q)' <=> \E s \in 1..(n + 1) : coRows'[s].supersedes = q
  BY <1>7 DEF Superseded
<1>12. ~Superseded(n + 1)'
  BY <1>3, <1>6, <1>7, <1>8, <1>9, <1>11
<1>13. ASSUME NEW q \in 1..n PROVE Superseded(q)'
  <2>1. q \in CoRow /\ n + 1 \in 1..(n + 1) /\ q \in 1..(n + 1) /\ r \in CoRow
    BY <1>3, <1>6, <1>8
  <2>2. CASE q = r
    BY <1>3, <1>7, <1>11, <2>1, <2>2
  <2>3. CASE q # r
    <3>1. ~Superseded(r)
      BY <1>3, <1>5, <1>6, <1>8, <2>1 DEF Supersedable
    <3>2. Superseded(q)
      BY <2>1, <2>3, <3>1 DEF CoInv
    <3>3. PICK s \in 1..n : coRows[s].supersedes = q
      BY <1>6, <3>2 DEF Superseded
    <3>4. s \in 1..(n + 1) /\ coRows'[s].supersedes = q
      BY <1>6, <1>7, <3>3
    <3> QED BY <1>11, <2>1, <3>4
  <2> QED BY <2>2, <2>3
<1>14. (\E s \in CoRow : \A q \in CoRow : ~Superseded(q) <=> q = s)'
  <2>1. n + 1 \in 1..(n + 1) /\ \A q \in 1..(n + 1) : q \in 1..n \/ q = n + 1
    BY <1>6
  <2>2. \A q \in 1..(n + 1) : ~Superseded(q)' <=> q = n + 1
    BY <1>6, <1>12, <1>13, <2>1
  <2> QED BY <1>7, <2>1, <2>2
<1> QED BY <1>7, <1>10, <1>14 DEF CoInv

-----------------------------------------------------------------------------
(* Incidents.                                                              *)

InStates == {"NONE", "DETECTED", "TRIAGED", "CONTAINING", "CONTAINED", "RECOVERING",
             "INVESTIGATING", "IDENTIFIED", "MONITORING", "RESOLVED"}
InEventKinds == {"OPENED", "NOTE", "RESOLVED", "NOTICE"}
InEventRows == [kind : InEventKinds, state : InStates, at : Nat]

\* Events have a time, the last one has the incident's state, and a notice that was
\* recorded has been sent.
InInv ==
  /\ inNow \in Nat \ {0} /\ inSent \in [InNotices -> Nat] /\ inNotices \subseteq InNotices
  /\ inEvents \in Seq(InEventRows) /\ inState \in InStates
  /\ inState = "NONE" <=> inEvents = <<>>
  /\ inEvents # <<>> => inEvents[Len(inEvents)].state = inState
  /\ \A n \in inNotices : inSent[n] # 0
  /\ TimelineIsTrue

\* An event that follows the last in time and from its state is added.
LEMMA EventAdded ==
  ASSUME InInv, NEW row \in InEventRows, inEvents' = Append(inEvents, row), inKind' = inKind,
         row.at >= InLast, row.state \in {inState} \cup InTransitions(inState) \/ inState = "NONE"
  PROVE  /\ inEvents' \in Seq(InEventRows) /\ inEvents' # <<>>
         /\ inEvents'[Len(inEvents')] = row /\ Len(inEvents') \in DOMAIN inEvents'
         /\ \A k \in DOMAIN inEvents : k \in DOMAIN inEvents' /\ inEvents'[k] = inEvents[k]
         /\ \A k \in DOMAIN inEvents' \ {1} :
              /\ inEvents'[k].at >= inEvents'[k - 1].at
              /\ inEvents'[k].state \in
                   {inEvents'[k - 1].state} \cup (InTransitions(inEvents[k - 1].state))'
<1>1. PICK es : es = inEvents
  OBVIOUS
<1>2. PICK m : m = Len(es)
  OBVIOUS
<1>3. es \in Seq(InEventRows) /\ m \in Nat /\ DOMAIN es = 1..m
  BY <1>1, <1>2 DEF InInv, InEventRows
<1>4. PICK fs : fs = inEvents'
  OBVIOUS
<1>5. /\ fs \in Seq(InEventRows) /\ Len(fs) = m + 1 /\ DOMAIN fs = 1..(m + 1) /\ fs[m + 1] = row
      /\ \A k \in 1..m : fs[k] = es[k]
  BY <1>1, <1>2, <1>3, <1>4
<1>6. fs # <<>> /\ fs[Len(fs)] = row /\ Len(fs) \in DOMAIN fs
  BY <1>3, <1>5
<1>7. \A k \in DOMAIN es : k \in DOMAIN fs /\ fs[k] = es[k]
  BY <1>3, <1>5
<1>8. ASSUME NEW k \in DOMAIN fs \ {1}
      PROVE  /\ fs[k].at >= fs[k - 1].at
             /\ fs[k].state \in {fs[k - 1].state} \cup InTransitions(fs[k - 1].state)
  <2>1. CASE k \in 1..m
    <3>1. k \in DOMAIN es \ {1} /\ k - 1 \in 1..m
      BY <1>3, <1>5, <1>8, <2>1
    <3>2. /\ es[k].at >= es[k - 1].at
          /\ es[k].state \in {es[k - 1].state} \cup InTransitions(es[k - 1].state)
      BY <1>1, <3>1 DEF InInv, TimelineIsTrue
    <3> QED BY <1>5, <2>1, <3>1, <3>2
  <2>2. CASE k = m + 1
    <3>1. m >= 1 /\ m \in 1..m /\ k - 1 = m /\ es # <<>>
      BY <1>2, <1>3, <1>5, <1>8, <2>2
    <3>2. InLast = es[m].at /\ es[m].state = inState /\ inState # "NONE"
      BY <1>1, <1>2, <3>1 DEF InLast, InInv
    <3> QED BY <1>5, <2>2, <3>1, <3>2
  <2> QED BY <1>3, <1>5, <1>8, <2>1, <2>2
<1>9. \A x : (InTransitions(x))' = InTransitions(x)
  BY DEF InTransitions
<1> QED BY <1>1, <1>4, <1>5, <1>6, <1>7, <1>8, <1>9

LEMMA InStateNames ==
  ASSUME NEW state, NEW next \in InTransitions(state) PROVE next \in InStates /\ next # "NONE"
<1>1. next \in SecurityTransitions(state) => next \in InStates /\ next # "NONE"
  BY DEF SecurityTransitions, InStates
<1>2. next \in OperationsTransitions(state) => next \in InStates /\ next # "NONE"
  BY DEF OperationsTransitions, InStates
<1> QED BY <1>1, <1>2 DEF InTransitions

\* An event that says what the state is now, and the notice it may be about.
LEMMA AppendKept ==
  ASSUME InInv, NEW kind \in InEventKinds, NEW state \in InStates, NEW at \in Nat,
         InAppend(kind, state, at), inKind' = inKind, inState' = state, state # "NONE",
         state \in {inState} \cup InTransitions(inState) \/ inState = "NONE",
         inNow' = inNow, inSent' \in [InNotices -> Nat], inNotices' \subseteq InNotices,
         \A n \in inNotices' :
           /\ inSent'[n] # 0
           /\ \/ n \in inNotices /\ inSent'[n] = inSent[n]
              \/ kind = "NOTICE" /\ inSent'[n] = at
  PROVE  InInv'
<1>1. PICK row : row = [kind |-> kind, state |-> state, at |-> at]
  OBVIOUS
<1>2. row \in InEventRows /\ row.kind = kind /\ row.state = state /\ row.at = at
  BY <1>1 DEF InEventRows
<1>3. inEvents' = Append(inEvents, row) /\ row.at >= InLast
  BY <1>1, <1>2 DEF InAppend, InOrder
<1>4. /\ inEvents' \in Seq(InEventRows) /\ inEvents' # <<>>
      /\ inEvents'[Len(inEvents')] = row /\ Len(inEvents') \in DOMAIN inEvents'
      /\ \A k \in DOMAIN inEvents : k \in DOMAIN inEvents' /\ inEvents'[k] = inEvents[k]
      /\ \A k \in DOMAIN inEvents' \ {1} :
           /\ inEvents'[k].at >= inEvents'[k - 1].at
           /\ inEvents'[k].state \in
                {inEvents'[k - 1].state} \cup (InTransitions(inEvents[k - 1].state))'
  BY <1>2, <1>3, EventAdded
<1>5. \A n \in inNotices' : \E k \in DOMAIN inEvents' :
        inEvents'[k].kind = "NOTICE" /\ inEvents'[k].at = inSent'[n]
  <2>1. ASSUME NEW n \in inNotices', n \in inNotices, inSent'[n] = inSent[n]
        PROVE  \E k \in DOMAIN inEvents' : inEvents'[k].kind = "NOTICE" /\ inEvents'[k].at = inSent'[n]
    <3>1. PICK k \in DOMAIN inEvents : inEvents[k].kind = "NOTICE" /\ inEvents[k].at = inSent[n]
      BY <2>1 DEF InInv, TimelineIsTrue
    <3> QED BY <1>4, <2>1, <3>1
  <2>2. ASSUME NEW n \in inNotices', kind = "NOTICE", inSent'[n] = at
        PROVE  \E k \in DOMAIN inEvents' : inEvents'[k].kind = "NOTICE" /\ inEvents'[k].at = inSent'[n]
    BY <1>2, <1>4, <2>2
  <2> QED BY <2>1, <2>2
<1>6. TimelineIsTrue'
  BY <1>4, <1>5 DEF TimelineIsTrue
<1>7. inEvents'[Len(inEvents')].state = inState'
  BY <1>2, <1>4
<1>8. inNow' \in Nat \ {0} /\ inState' \in InStates /\ inState' # "NONE"
  BY DEF InInv
<1> QED BY <1>4, <1>6, <1>7, <1>8 DEF InInv

\* A step after which the timeline is as it was.
LEMMA TimelineStays ==
  ASSUME InInv, inKind' = inKind, inState' = inState, inEvents' = inEvents, inNotices' = inNotices,
         inNow' \in Nat \ {0}, inSent' \in [InNotices -> Nat], \A n \in inNotices : inSent'[n] = inSent[n]
  PROVE  InInv'
<1>1. \A x : (InTransitions(x))' = InTransitions(x)
  BY DEF InTransitions
<1>2. \A k \in DOMAIN inEvents' \ {1} :
        /\ inEvents'[k].at >= inEvents'[k - 1].at
        /\ inEvents'[k].state \in {inEvents'[k - 1].state} \cup (InTransitions(inEvents[k - 1].state))'
  BY <1>1 DEF InInv, TimelineIsTrue
<1>3. \A n \in inNotices' : \E k \in DOMAIN inEvents' :
        inEvents'[k].kind = "NOTICE" /\ inEvents'[k].at = inSent'[n]
  BY DEF InInv, TimelineIsTrue
<1>4. TimelineIsTrue'
  BY <1>2, <1>3 DEF TimelineIsTrue
<1> QED BY <1>4 DEF InInv

LEMMA NotifyKept ==
  ASSUME InInv, NEW kind, NEW n \in InNotices, NEW recorded \in BOOLEAN, Notify(kind, n, recorded)
  PROVE  InInv'
<1>1. PICK time : time = inSent'[n]
  OBVIOUS
<1>2. /\ n \notin inNotices /\ inState # "NONE" /\ inKind' = inKind /\ inState' = inState
      /\ inNow' = inNow /\ inSent' = [inSent EXCEPT ![n] = IF inSent[n] = 0 THEN inNow ELSE inSent[n]]
  BY DEF Notify, SendOnce
<1>3. /\ inSent' \in [InNotices -> Nat] /\ time \in Nat \ {0}
      /\ \A m \in InNotices : m # n => inSent'[m] = inSent[m]
  BY <1>1, <1>2 DEF InInv
<1>4. inNotices \subseteq InNotices /\ inState \in InStates /\ inNow \in Nat \ {0}
      /\ \A m \in inNotices : inSent[m] # 0
  BY DEF InInv
<1>5. CASE ~recorded
  <2>1. inEvents' = inEvents /\ inNotices' = inNotices
    BY <1>5 DEF Notify
  <2>2. \A m \in inNotices : inSent'[m] = inSent[m]
    BY <1>2, <1>3, <1>4
  <2> QED BY <1>2, <1>3, <1>4, <2>1, <2>2, TimelineStays
<1>6. CASE recorded
  <2>1. InAppend("NOTICE", inState, time) /\ inNotices' = inNotices \cup {n}
    BY <1>1, <1>6 DEF Notify
  <2>2. \A m \in inNotices' :
          /\ inSent'[m] # 0
          /\ \/ m \in inNotices /\ inSent'[m] = inSent[m]
             \/ "NOTICE" = "NOTICE" /\ inSent'[m] = time
    BY <1>1, <1>2, <1>3, <1>4, <2>1
  <2>3. inNotices' \subseteq InNotices /\ "NOTICE" \in InEventKinds /\ time \in Nat
    BY <1>3, <1>4, <2>1 DEF InEventKinds
  <2> QED BY <1>2, <1>3, <1>4, <2>1, <2>2, <2>3, AppendKept
<1> QED BY <1>5, <1>6

LEMMA IncidentStep == ASSUME InInv, IncidentNext PROVE InInv'
<1>1. /\ inNotices \subseteq InNotices /\ inState \in InStates /\ inNow \in Nat \ {0}
      /\ inSent \in [InNotices -> Nat] /\ \A m \in inNotices : inSent[m] # 0
  BY DEF InInv
<1>2. ASSUME NEW kind, NEW state \in {"DETECTED", "INVESTIGATING"}, OpenIncident(kind, state)
      PROVE  InInv'
  <2>1. /\ inState = "NONE" /\ inState' = state /\ InAppend("OPENED", state, inNow)
        /\ inKind' = inKind /\ inSent' = inSent /\ inNotices' = inNotices /\ inNow' = inNow
    BY <1>2 DEF OpenIncident
  <2>2. /\ state \in InStates /\ state # "NONE" /\ inNow \in Nat /\ "OPENED" \in InEventKinds
        /\ \A n \in inNotices' : n \in inNotices /\ inSent'[n] = inSent[n] /\ inSent'[n] # 0
    BY <1>1, <1>2, <2>1 DEF InStates, InEventKinds
  <2> QED BY <1>1, <2>1, <2>2, AppendKept
<1>3. ASSUME NEW kind, NEW at \in 1..InMaxEvents, AppendEvent(kind, at) PROVE InInv'
  <2>1. PICK state \in {inState} \cup InTransitions(inState) :
          inState' = state /\ InAppend(IF state = "RESOLVED" THEN "RESOLVED" ELSE "NOTE", state, at)
    BY <1>3 DEF AppendEvent
  <2>2. /\ inKind' = inKind /\ inSent' = inSent /\ inNotices' = inNotices /\ inNow' = inNow
        /\ inState # "NONE"
    BY <1>3 DEF AppendEvent
  <2>3. state \in InStates /\ state # "NONE" /\ at \in Nat
    BY <1>1, <1>3, <2>1, <2>2, InStateNames, CmBounds
  <2>4. PICK event \in InEventKinds : InAppend(event, state, at)
    BY <2>1 DEF InEventKinds
  <2> QED BY <1>1, <2>1, <2>2, <2>3, <2>4, AppendKept
<1>4. CASE TimePasses
  BY <1>1, <1>4, TimelineStays DEF TimePasses
<1> QED BY <1>2, <1>3, <1>4, NotifyKept DEF IncidentNext, CreateSecurityIncident, CreateIncident,
       AppendSecurityIncidentEvent, AppendIncidentEvent, NotifySecurityIncident, NotifyIncident

-----------------------------------------------------------------------------
(* The three together.                                                     *)

LEMMA ComplianceFrames ==
  /\ CopyrightNext => UNCHANGED <<coRows, inVars>>
  /\ ConsentNext => UNCHANGED <<cpVars, inVars>>
  /\ IncidentNext => UNCHANGED <<cpVars, coRows>>
<1>1. CopyrightNext => UNCHANGED <<coRows, inVars>>
  BY DEF CopyrightNext, CreateCopyrightCase, SubmitCounterNotice, ReturnCopyrightCase, TriageNotice,
         ApplyTemporaryAction, DecideCopyrightCase
<1>2. ConsentNext => UNCHANGED <<cpVars, inVars>>
  BY DEF ConsentNext, AppendConsent
<1>3. IncidentNext => UNCHANGED <<cpVars, coRows>>
  BY DEF IncidentNext, CreateSecurityIncident, CreateIncident, AppendSecurityIncidentEvent,
         AppendIncidentEvent, NotifySecurityIncident, NotifyIncident, OpenIncident, AppendEvent,
         Notify, TimePasses
<1> QED BY <1>1, <1>2, <1>3

LEMMA CopyrightStays == ASSUME CpInv, UNCHANGED cpVars PROVE CpStepKept
BY DEF CpInv, cpVars, DecisionWasApplied, DecidedIsLeftAlone, CpStepKept

LEMMA ConsentStays == ASSUME CoInv, coRows' = coRows PROVE CoInv'
<1>1. CoRow' = CoRow /\ \A q : Superseded(q)' <=> Superseded(q)
  BY DEF CoRow, Superseded
<1> QED BY <1>1 DEF CoInv

LEMMA IncidentStays == ASSUME InInv, UNCHANGED inVars PROVE InInv'
<1>1. /\ inKind' = inKind /\ inState' = inState /\ inEvents' = inEvents /\ inNotices' = inNotices
      /\ inNow' = inNow /\ inSent' = inSent
  BY DEF inVars
<1>2. inNow' \in Nat \ {0} /\ inSent' \in [InNotices -> Nat]
  BY <1>1 DEF InInv
<1> QED BY <1>1, <1>2, TimelineStays

\* The records of copyright cases, consent and incidents tell what was done, and a decided
\* case is left alone, whatever messages, retries and lost answers there are
\* (domain/security, domain/operations).
THEOREM ComplianceKeepsItsPromise == CmSpec => CompliancePromise
<1>1. CmInit => CpInv /\ CoInv /\ InInv
  <2>1. SUFFICES ASSUME CmInit PROVE CpInv /\ CoInv /\ InInv
    OBVIOUS
  <2>2. CpInv
    BY <2>1 DEF CmInit, CpInv, DecisionWasApplied
  <2>3. CoInv
    BY <2>1 DEF CmInit, CoInv, CoRow
  <2>4. TimelineIsTrue
    BY <2>1 DEF CmInit, TimelineIsTrue
  <2>5. InInv
    BY <2>1, <2>4 DEF CmInit, InInv, InStates
  <2> QED BY <2>2, <2>3, <2>5
<1>2. ASSUME CpInv, CoInv, InInv, [CmNext]_cmVars PROVE CpStepKept /\ CoInv' /\ InInv'
  <2>1. CASE CopyrightNext
    BY <1>2, <2>1, ComplianceFrames, CopyrightStep, ConsentStays, IncidentStays
  <2>2. CASE ConsentNext
    BY <1>2, <2>2, ComplianceFrames, ConsentStep, CopyrightStays, IncidentStays
  <2>3. CASE IncidentNext
    BY <1>2, <2>3, ComplianceFrames, IncidentStep, ConsentStays, CopyrightStays
  <2>4. CASE UNCHANGED cmVars
    BY <1>2, <2>4, ConsentStays, CopyrightStays, IncidentStays DEF cmVars
  <2> QED BY <1>2, <2>1, <2>2, <2>3, <2>4 DEF CmNext
<1>3. CoInv' => ConsentIsOneChain'
  BY OneInForce, PTL
<1>4. ASSUME CpInv, CoInv, InInv, [CmNext]_cmVars
      PROVE  [ /\ ( /\ DecisionWasApplied
                    /\ ConsentIsOneChain
                    /\ TimelineIsTrue )'
               /\ DecidedIsLeftAlone ]_cmVars
  BY <1>2, <1>3, <1>4 DEF CpStepKept, CpInv, InInv
<1>5. ASSUME CpInv, CoInv, InInv, [CmNext]_cmVars PROVE CpInv' /\ CoInv' /\ InInv'
  BY <1>2, <1>5 DEF CpStepKept
<1> QED BY <1>1, <1>4, <1>5, PTL DEF CmSpec, CompliancePromise

-----------------------------------------------------------------------------
(* Analytics.                                                              *)

AnStates == {"NONE", "QUEUED", "CANCEL_REQUESTED", "SUCCEEDED", "RETRYABLE_FAILED", "FINAL_FAILED",
             "CANCELLED"}
AnRows == [state : AnStates, attempt : Nat]
AnArtifactRows == [AnFormats -> AnHashes \cup {NoHash}]

AnTypes ==
  /\ anJobs \in [AnJobs -> AnRows] /\ anMail \in [AnJobs -> Nat]
  /\ anStored \in [AnFacts -> AnSyncs \cup {NoOne}]
  /\ anResults \in [AnSyncs -> SUBSET AnFacts]
  /\ anArtifacts \in [AnReports -> AnArtifactRows]

Complete(artifacts) == \A f \in AnFormats : artifacts[f] # NoHash

\* Nothing, or one thing, is stored under an identifier.
EvInv ==
  /\ evRows = {} \/ \E content : evRows = {content}
  /\ \A c \in AnClients :
       evClients[c].state = "accepted" => \E row \in evRows : Agrees(row, evClients[c].content)
  /\ DOMAIN evClients = AnClients /\ \A c \in AnClients : DOMAIN evClients[c] = {"state", "content"}

AnInv == AnTypes /\ ResultIsStored /\ NoAnalyticsRunForgotten /\ ReportIsComplete

AnStepKept == AnInv' /\ AnalyticsEndIsFinal

LEMMA EvidenceInitially == AnInit => EvInv
BY DEF AnInit, EvInv, EvIdle

LEMMA EvidenceHolds == ASSUME EvInv PROVE AcceptedEvidenceIsStored
<1>1. Cardinality(evRows) <= 1
  <2>1. CASE evRows = {}
    BY <2>1, FS_EmptySet
  <2>2. ASSUME NEW content, evRows = {content} PROVE Cardinality(evRows) <= 1
    BY <2>2, FS_Singleton
  <2> QED BY <2>1, <2>2 DEF EvInv
<1> QED BY <1>1 DEF EvInv, AcceptedEvidenceIsStored

LEMMA EvidenceStep == ASSUME EvInv, EvidenceNext PROVE EvInv' /\ FirstEvidenceStays
<1>1. PICK c \in AnClients :
        (\E content \in EvContents : LookUpEvidence(c, content)) \/ InsertEvidence(c) \/ AskAgain(c)
  BY DEF EvidenceNext
<1>2. evKind' = evKind /\ \A stored, sent : Agrees(stored, sent)' <=> Agrees(stored, sent)
  BY <1>1 DEF LookUpEvidence, InsertEvidence, AskAgain, Agrees
<1>3. ASSUME NEW row, evClients' = [evClients EXCEPT ![c] = row], DOMAIN row = {"state", "content"},
             evRows' = {} \/ \E x : evRows' = {x}, evRows' = evRows \/ evRows = {},
             row.state = "accepted" => \E r \in evRows' : Agrees(r, row.content)
      PROVE  EvInv' /\ FirstEvidenceStays
  <2>1. /\ DOMAIN evClients' = AnClients /\ evClients'[c] = row
        /\ \A d \in AnClients : d # c => evClients'[d] = evClients[d]
    BY <1>3 DEF EvInv
  <2>2. ASSUME NEW d \in AnClients, evClients'[d].state = "accepted"
        PROVE  \E r \in evRows' : /\ r.compared = evClients'[d].content.compared
                                  /\ evKind' = "conversion" => r = evClients'[d].content
    <3>1. \E r \in evRows' : Agrees(r, evClients'[d].content)
      BY <1>3, <2>1, <2>2 DEF EvInv
    <3> QED BY <1>2, <3>1 DEF Agrees
  <2>3. \A d \in AnClients : DOMAIN evClients'[d] = {"state", "content"}
    BY <1>3, <2>1 DEF EvInv
  <2>4. FirstEvidenceStays
    BY <1>3 DEF FirstEvidenceStays
  <2> QED BY <1>3, <2>1, <2>2, <2>3, <2>4 DEF EvInv, Agrees
<1>4. ASSUME NEW content \in EvContents, LookUpEvidence(c, content) PROVE EvInv' /\ FirstEvidenceStays
  <2>1. PICK row : row = [state |-> IF evRows = {} THEN "inserting"
                                    ELSE IF \E r \in evRows : Agrees(r, content) THEN "accepted"
                                    ELSE "refused",
                          content |-> content]
    OBVIOUS
  <2>2. evClients' = [evClients EXCEPT ![c] = row] /\ evRows' = evRows
    BY <1>4, <2>1 DEF LookUpEvidence
  <2>3. /\ DOMAIN row = {"state", "content"} /\ row.content = content
        /\ row.state = "accepted" => \E r \in evRows : Agrees(r, content)
    BY <2>1
  <2>4. evRows' = {} \/ \E x : evRows' = {x}
    BY <2>2 DEF EvInv
  <2> QED BY <1>3, <2>2, <2>3, <2>4
<1>5. ASSUME NEW state \in {"accepted", "refused"}, evClients' = [evClients EXCEPT ![c].state = state],
             evRows' = {} \/ \E x : evRows' = {x}, evRows' = evRows \/ evRows = {},
             state = "accepted" => evRows' = {evClients[c].content}
      PROVE  EvInv' /\ FirstEvidenceStays
  <2>1. PICK row : row = [evClients[c] EXCEPT !.state = state]
    OBVIOUS
  <2>2. DOMAIN row = {"state", "content"} /\ row.content = evClients[c].content /\ row.state = state
    BY <2>1 DEF EvInv
  <2>3. evClients' = [evClients EXCEPT ![c] = row]
    BY <1>5, <2>1
  <2>4. row.state = "accepted" => \E r \in evRows' : Agrees(r, row.content)
    BY <1>5, <2>2 DEF Agrees
  <2> QED BY <1>3, <1>5, <2>2, <2>3, <2>4
<1>6. CASE InsertEvidence(c)
  <2>1. CASE evRows = {}
    <3>1. evRows' = {evClients[c].content} /\ evClients' = [evClients EXCEPT ![c].state = "accepted"]
      BY <1>6, <2>1 DEF InsertEvidence, EvidenceIsNew
    <3> QED BY <1>5, <2>1, <3>1
  <2>2. CASE evRows # {}
    <3>1. evRows' = evRows /\ evClients' = [evClients EXCEPT ![c].state = "refused"]
      BY <1>6, <2>2 DEF InsertEvidence, EvidenceIsNew
    <3>2. evRows' = {} \/ \E x : evRows' = {x}
      BY <3>1 DEF EvInv
    <3> QED BY <1>5, <3>1, <3>2
  <2> QED BY <2>1, <2>2
<1>7. CASE AskAgain(c)
  <2>1. evClients' = [evClients EXCEPT ![c] = EvIdle] /\ evRows' = evRows
    BY <1>7 DEF AskAgain
  <2>2. DOMAIN EvIdle = {"state", "content"} /\ EvIdle.state # "accepted"
    BY DEF EvIdle
  <2>3. evRows' = {} \/ \E x : evRows' = {x}
    BY <2>1 DEF EvInv
  <2> QED BY <1>3, <2>1, <2>2, <2>3
<1> QED BY <1>1, <1>4, <1>6, <1>7

LEMMA AnalyticsInitially == AnInit => AnInv
<1> SUFFICES ASSUME AnInit PROVE AnInv
  OBVIOUS
<1>1. PICK row : row = [state |-> "NONE", attempt |-> 0]
  OBVIOUS
<1>2. row \in AnRows /\ row.state = "NONE" /\ anJobs = [j \in AnJobs |-> row]
  BY <1>1 DEF AnRows, AnStates, AnInit
<1>3. anJobs \in [AnJobs -> AnRows] /\ \A j \in AnJobs : anJobs[j].state = "NONE"
  BY <1>2
<1>4. /\ anArtifacts \in [AnReports -> AnArtifactRows]
      /\ \A j \in AnReports, f \in AnFormats : anArtifacts[j][f] = NoHash
  BY DEF AnInit, AnArtifactRows
<1>5. AnTypes
  BY <1>3, <1>4 DEF AnInit, AnTypes
<1>6. ResultIsStored /\ NoAnalyticsRunForgotten
  BY <1>3 DEF ResultIsStored, NoAnalyticsRunForgotten, AnJobs
<1>7. ReportIsComplete
  BY <1>3, <1>4, AnNames DEF ReportIsComplete, AnJobs
<1> QED BY <1>5, <1>6, <1>7 DEF AnInv

\* The commands the table allows of a run's states.
LEMMA CommandsAllowed ==
  ASSUME NEW state \in AnStates, state # "NONE", NEW target \in {"CANCEL_REQUESTED", "QUEUED"},
         EnsureJobTransition(state, target)
  PROVE  state \in {"QUEUED", "RETRYABLE_FAILED"}
<1>1. /\ ALLOWED_JOB_TRANSITIONS["CANCEL_REQUESTED"] = {"CANCELLED", "PARTIAL"}
      /\ ALLOWED_JOB_TRANSITIONS["SUCCEEDED"] = {} /\ ALLOWED_JOB_TRANSITIONS["FINAL_FAILED"] = {}
      /\ ALLOWED_JOB_TRANSITIONS["CANCELLED"] = {}
  BY DEF ALLOWED_JOB_TRANSITIONS
<1> QED BY <1>1 DEF AnStates, EnsureJobTransition

\* What a step does to one run, and to its messages.
RunMoves(j, row) ==
  /\ anJobs' = [anJobs EXCEPT ![j] = row]
  /\ anMail' \in [AnJobs -> Nat] /\ \A k \in AnJobs : k # j => anMail'[k] = anMail[k]
  /\ anDropped \subseteq anDropped'
  /\ (row.state \in {"QUEUED", "CANCEL_REQUESTED"} /\ j \notin anDropped') => anMail'[j] > 0
  /\ anJobs[j].state \in TERMINAL_JOB_STATES => row = anJobs[j]
  /\ anJobs[j].state = "CANCEL_REQUESTED" => row.state \in {"CANCEL_REQUESTED", "CANCELLED"}

LEMMA RunMoved ==
  ASSUME AnInv, NEW j \in AnJobs, NEW row \in AnRows, RunMoves(j, row),
         anJobs[j].state = "CANCEL_REQUESTED" => anCalls' = anCalls,
         \A k \in AnJobs : k # j => (k \in anCalls' <=> k \in anCalls)
  PROVE  /\ anJobs' \in [AnJobs -> AnRows] /\ anMail' \in [AnJobs -> Nat] /\ anJobs'[j] = row
         /\ \A k \in AnJobs : k # j => anJobs'[k] = anJobs[k]
         /\ NoAnalyticsRunForgotten' /\ AnalyticsEndIsFinal
<1>1. /\ anJobs' \in [AnJobs -> AnRows] /\ anMail' \in [AnJobs -> Nat] /\ anJobs'[j] = row
      /\ \A k \in AnJobs : k # j => anJobs'[k] = anJobs[k]
  BY DEF RunMoves, AnInv, AnTypes
<1>2. NoAnalyticsRunForgotten'
  <2>1. ASSUME NEW k \in AnJobs, anJobs'[k].state \in {"QUEUED", "CANCEL_REQUESTED"}, k \notin anDropped'
        PROVE  anMail'[k] > 0
    <3>1. CASE k = j
      BY <1>1, <2>1, <3>1 DEF RunMoves
    <3>2. CASE k # j
      <4>1. anJobs[k].state \in {"QUEUED", "CANCEL_REQUESTED"} /\ k \notin anDropped
        BY <1>1, <2>1, <3>2 DEF RunMoves
      <4>2. anMail'[k] = anMail[k]
        BY <3>2 DEF RunMoves
      <4> QED BY <4>1, <4>2 DEF AnInv, NoAnalyticsRunForgotten
    <3> QED BY <3>1, <3>2
  <2> QED BY <2>1 DEF NoAnalyticsRunForgotten
<1>3. AnalyticsEndIsFinal
  <2>1. ASSUME NEW k \in AnJobs
        PROVE  /\ anJobs[k].state \in TERMINAL_JOB_STATES => anJobs'[k] = anJobs[k]
               /\ anJobs[k].state = "CANCEL_REQUESTED" =>
                    /\ anJobs'[k].state \in {"CANCEL_REQUESTED", "CANCELLED"}
                    /\ (k \in anCalls') = (k \in anCalls)
    <3>1. CASE k = j
      BY <1>1, <3>1 DEF RunMoves
    <3>2. CASE k # j
      BY <1>1, <3>2
    <3> QED BY <3>1, <3>2
  <2> QED BY <2>1 DEF AnalyticsEndIsFinal
<1> QED BY <1>1, <1>2, <1>3

\* A step that stores nothing.
LEMMA QuietStep ==
  ASSUME AnInv, NEW j \in AnJobs, NEW row \in AnRows, RunMoves(j, row), UNCHANGED <<syncVars, anArtifacts>>,
         row.state = "SUCCEEDED" <=> anJobs[j].state = "SUCCEEDED"
  PROVE  AnStepKept
<1>1. anCalls' = anCalls /\ anStored' = anStored /\ anResults' = anResults /\ anArtifacts' = anArtifacts
  BY DEF syncVars
<1>2. /\ anJobs' \in [AnJobs -> AnRows] /\ anMail' \in [AnJobs -> Nat] /\ anJobs'[j] = row
      /\ \A k \in AnJobs : k # j => anJobs'[k] = anJobs[k]
      /\ NoAnalyticsRunForgotten' /\ AnalyticsEndIsFinal
  BY <1>1, RunMoved
<1>3. \A k \in AnJobs : anJobs'[k].state = "SUCCEEDED" <=> anJobs[k].state = "SUCCEEDED"
  BY <1>2
<1>4. AnTypes'
  BY <1>1, <1>2 DEF AnInv, AnTypes
<1>5. ResultIsStored'
  BY <1>1, <1>3 DEF AnInv, ResultIsStored, AnJobs
<1>6. ReportIsComplete'
  <2>1. ASSUME NEW k \in AnReports
        PROVE  (anJobs'[k].state = "SUCCEEDED") = (\A f \in AnFormats : anArtifacts'[k][f] # NoHash)
    <3>1. (anJobs[k].state = "SUCCEEDED") = (\A f \in AnFormats : anArtifacts[k][f] # NoHash)
      BY DEF AnInv, ReportIsComplete
    <3>2. anJobs'[k].state = "SUCCEEDED" <=> anJobs[k].state = "SUCCEEDED"
      BY <1>3 DEF AnJobs
    <3> QED BY <1>1, <3>1, <3>2
  <2> QED BY <2>1 DEF ReportIsComplete
<1> QED BY <1>2, <1>4, <1>5, <1>6 DEF AnStepKept, AnInv

LEMMA AnEnqueued ==
  ASSUME AnInv, NEW j \in AnJobs, AnEnqueue(j)
  PROVE  /\ anMail' \in [AnJobs -> Nat] /\ \A k \in AnJobs : k # j => anMail'[k] = anMail[k]
         /\ anDropped \subseteq anDropped' /\ (j \notin anDropped' => anMail'[j] > 0)
<1>1. anMail \in [AnJobs -> Nat]
  BY DEF AnInv, AnTypes
<1>2. CASE anMail' = [anMail EXCEPT ![j] = @ + 1] /\ anDropped' = anDropped
  BY <1>1, <1>2
<1>3. CASE anDropped' = anDropped \cup {j} /\ anMail' = anMail
  BY <1>1, <1>3
<1> QED BY <1>2, <1>3 DEF AnEnqueue

LEMMA AnAcknowledged ==
  ASSUME AnInv, NEW j \in AnJobs, AnDelivered(j), AnAcknowledges(j) \/ anMail' = [anMail EXCEPT ![j] = @ - 1]
  PROVE  anMail' \in [AnJobs -> Nat] /\ \A k \in AnJobs : k # j => anMail'[k] = anMail[k]
<1>1. anMail \in [AnJobs -> Nat] /\ anMail[j] > 0
  BY DEF AnInv, AnTypes, AnDelivered
<1>2. anMail' = anMail \/ anMail' = [anMail EXCEPT ![j] = anMail[j] - 1]
  BY DEF AnAcknowledges
<1> QED BY <1>1, <1>2

\* A state a run is given, and the row that says so.
LEMMA AnStateSet ==
  ASSUME AnInv, NEW j \in AnJobs, NEW state \in AnStates, anJobs' = [anJobs EXCEPT ![j].state = state]
  PROVE  \E row \in AnRows : anJobs' = [anJobs EXCEPT ![j] = row] /\ row.state = state
<1>1. PICK row : row = [anJobs[j] EXCEPT !.state = state]
  OBVIOUS
<1>2. anJobs[j] \in AnRows
  BY DEF AnInv, AnTypes
<1>3. row \in AnRows /\ row.state = state
  BY <1>1, <1>2 DEF AnRows
<1>4. anJobs' = [anJobs EXCEPT ![j] = row]
  BY <1>1
<1> QED BY <1>3, <1>4

LEMMA AnRowIsOne ==
  ASSUME AnInv, NEW j \in AnJobs
  PROVE  anJobs[j] \in AnRows /\ anJobs[j].state \in AnStates /\ anJobs = [anJobs EXCEPT ![j] = anJobs[j]]
<1>1. anJobs[j] \in AnRows
  BY DEF AnInv, AnTypes
<1> QED BY <1>1 DEF AnRows, AnInv, AnTypes

LEMMA CreateRunKept == ASSUME AnInv, NEW j \in AnJobs, CreateRun(j) PROVE AnStepKept
<1>1. PICK row \in AnRows : anJobs' = [anJobs EXCEPT ![j] = row] /\ row.state = "QUEUED"
  BY AnStateSet DEF CreateRun, AnStates
<1>2. AnEnqueue(j) /\ anJobs[j].state = "NONE" /\ UNCHANGED <<syncVars, anArtifacts>>
  BY DEF CreateRun
<1>3. RunMoves(j, row)
  BY <1>1, <1>2, AnEnqueued DEF RunMoves, TERMINAL_JOB_STATES
<1> QED BY <1>1, <1>2, <1>3, QuietStep

LEMMA CommandRunKept ==
  ASSUME AnInv, NEW j \in AnJobs, NEW target \in {"CANCEL_REQUESTED", "QUEUED"}, CommandRun(j, target)
  PROVE  AnStepKept
<1>1. PICK row : row = Commanded(j, target)
  OBVIOUS
<1>2. anJobs[j] \in AnRows /\ anJobs[j].state \in AnStates
  BY AnRowIsOne
<1>3. row \in AnRows /\ row.state = target
  BY <1>1, <1>2 DEF Commanded, AnRows, AnStates
<1>4. /\ anJobs' = [anJobs EXCEPT ![j] = row] /\ AnEnqueue(j) /\ UNCHANGED <<syncVars, anArtifacts>>
      /\ anJobs[j].state # "NONE" /\ EnsureJobTransition(anJobs[j].state, target)
  BY <1>1 DEF CommandRun, CommandAllowed
<1>5. anJobs[j].state \in {"QUEUED", "RETRYABLE_FAILED"}
  BY <1>2, <1>4, CommandsAllowed
<1>6. RunMoves(j, row)
  BY <1>3, <1>4, <1>5, AnEnqueued DEF RunMoves, TERMINAL_JOB_STATES
<1> QED BY <1>3, <1>4, <1>5, <1>6, QuietStep

LEMMA RepeatCommandKept == ASSUME AnInv, NEW j \in AnJobs, RepeatCommand(j) PROVE AnStepKept
<1>1. PICK row : row = anJobs[j]
  OBVIOUS
<1>2. row \in AnRows /\ anJobs = [anJobs EXCEPT ![j] = row]
  BY <1>1, AnRowIsOne
<1>3. anJobs' = anJobs /\ AnEnqueue(j) /\ UNCHANGED <<syncVars, anArtifacts>>
  BY DEF RepeatCommand
<1>4. RunMoves(j, row)
  BY <1>1, <1>2, <1>3, AnEnqueued DEF RunMoves
<1> QED BY <1>1, <1>2, <1>3, <1>4, QuietStep

\* The worker ends a run without a result.
LEMMA EndsKept ==
  ASSUME AnInv, NEW j \in AnJobs, Finalize(j) \/ FailRuntime(j) PROVE AnStepKept
<1>1. /\ AnDelivered(j) /\ AnAcknowledges(j) /\ UNCHANGED <<syncVars, anArtifacts>> /\ anDropped' = anDropped
  BY DEF Finalize, FailRuntime, AnRuns
<1>2. PICK row \in AnRows :
        /\ anJobs' = [anJobs EXCEPT ![j] = row]
        /\ row.state \in {"CANCELLED", "RETRYABLE_FAILED", "FINAL_FAILED"}
        /\ anJobs[j].state = "CANCEL_REQUESTED" => row.state = "CANCELLED"
        /\ anJobs[j].state \notin TERMINAL_JOB_STATES \/ anJobs[j].state = "EXPIRED"
  <2>1. CASE Finalize(j)
    <3>1. PICK row \in AnRows : anJobs' = [anJobs EXCEPT ![j] = row] /\ row.state = "CANCELLED"
      BY <2>1, AnStateSet DEF Finalize, AnStates
    <3> QED BY <2>1, <3>1 DEF Finalize, FinalizesCancellation, TERMINAL_JOB_STATES
  <2>2. CASE FailRuntime(j)
    <3>1. PICK s \in Failures : anJobs' = [anJobs EXCEPT ![j].state = s]
      BY <2>2 DEF FailRuntime
    <3>2. s \in AnStates /\ s \in {"RETRYABLE_FAILED", "FINAL_FAILED"}
      BY <3>1 DEF Failures, AnStates
    <3>3. PICK row \in AnRows : anJobs' = [anJobs EXCEPT ![j] = row] /\ row.state = s
      BY <3>1, <3>2, AnStateSet
    <3> QED BY <2>2, <3>2, <3>3 DEF FailRuntime, AnRuns, FinalizesCancellation, TERMINAL_JOB_STATES,
           COMPLETED_ATTEMPT_STATES
  <2> QED BY <2>1, <2>2
<1>3. anJobs[j].state \notin TERMINAL_JOB_STATES
  BY <1>2, AnRowIsOne DEF AnStates
<1>4. RunMoves(j, row)
  BY <1>1, <1>2, <1>3, AnAcknowledged DEF RunMoves
<1> QED BY <1>1, <1>2, <1>3, <1>4, QuietStep DEF TERMINAL_JOB_STATES

\* A message goes that had nothing to do, or was lost.
LEMMA GoneKept ==
  ASSUME AnInv, NEW j \in AnJobs, AnReturns(j) \/ \E read \in SUBSET AnFacts : StoreError(j, read)
  PROVE  AnStepKept
<1>1. PICK row : row = anJobs[j]
  OBVIOUS
<1>2. row \in AnRows /\ anJobs = [anJobs EXCEPT ![j] = row]
  BY <1>1, AnRowIsOne
<1>3. /\ anJobs' = anJobs /\ AnDelivered(j) /\ anMail' = [anMail EXCEPT ![j] = @ - 1]
      /\ UNCHANGED <<syncVars, anArtifacts>> /\ anDropped \subseteq anDropped'
      /\ row.state \in {"QUEUED", "CANCEL_REQUESTED"} => j \in anDropped'
  BY <1>1 DEF AnReturns, StoreError, AnRuns, COMPLETED_ATTEMPT_STATES
<1>4. RunMoves(j, row)
  BY <1>1, <1>2, <1>3, AnAcknowledged DEF RunMoves
<1> QED BY <1>1, <1>2, <1>3, <1>4, QuietStep

LEMMA RecordKeptAll ==
  ASSUME AnInv, NEW j \in AnSyncs, NEW all \in SUBSET AnFacts, NEW read \in SUBSET all,
         RecordProviderResult(j, read, all)
  PROVE  AnStepKept
<1>1. j \in AnJobs /\ j \notin AnReports /\ j # NoOne
  BY AnNames DEF AnJobs
<1>2. /\ AnRuns(j) /\ ~StoreRefuses(j, read) /\ anCalls' = anCalls \cup {j}
      /\ anStored' = [f \in AnFacts |-> IF f \in read THEN j ELSE anStored[f]]
      /\ AnAcknowledges(j) /\ anArtifacts' = anArtifacts /\ anDropped' = anDropped
  BY DEF RecordProviderResult
<1>3. PICK row \in AnRows :
        /\ anJobs' = [anJobs EXCEPT ![j] = row]
        /\ row.state \in {"SUCCEEDED", "RETRYABLE_FAILED", "FINAL_FAILED"}
        /\ row.state = "SUCCEEDED" => read = all /\ anResults' = [anResults EXCEPT ![j] = all]
        /\ row.state # "SUCCEEDED" => anResults' = anResults
  <2>1. CASE EveryFactDeclared(j, read, all)
    <3>1. PICK row \in AnRows : anJobs' = [anJobs EXCEPT ![j] = row] /\ row.state = "SUCCEEDED"
      BY <1>1, <2>1, AnStateSet DEF RecordProviderResult, AnStates
    <3> QED BY <2>1, <3>1 DEF RecordProviderResult, EveryFactDeclared
  <2>2. CASE ~EveryFactDeclared(j, read, all)
    <3>1. PICK s \in Failures : anJobs' = [anJobs EXCEPT ![j].state = s] /\ anResults' = anResults
      BY <2>2 DEF RecordProviderResult
    <3>2. s \in AnStates /\ s \in {"RETRYABLE_FAILED", "FINAL_FAILED"}
      BY <3>1 DEF Failures, AnStates
    <3>3. PICK row \in AnRows : anJobs' = [anJobs EXCEPT ![j] = row] /\ row.state = s
      BY <1>1, <3>1, <3>2, AnStateSet
    <3> QED BY <3>1, <3>2, <3>3
  <2> QED BY <2>1, <2>2
<1>4. anJobs[j].state \notin TERMINAL_JOB_STATES /\ anJobs[j].state # "CANCEL_REQUESTED" /\ AnDelivered(j)
  BY <1>1, <1>2, AnRowIsOne DEF AnRuns, FinalizesCancellation, COMPLETED_ATTEMPT_STATES, TERMINAL_JOB_STATES,
     AnStates
<1>5. RunMoves(j, row)
  BY <1>1, <1>2, <1>3, <1>4, AnAcknowledged DEF RunMoves
<1>6. /\ anJobs' \in [AnJobs -> AnRows] /\ anMail' \in [AnJobs -> Nat] /\ anJobs'[j] = row
      /\ \A k \in AnJobs : k # j => anJobs'[k] = anJobs[k]
      /\ NoAnalyticsRunForgotten' /\ AnalyticsEndIsFinal
  BY <1>1, <1>2, <1>4, <1>5, RunMoved
<1>7. /\ anStored' \in [AnFacts -> AnSyncs \cup {NoOne}]
      /\ \A f \in read : anStored'[f] = j
      /\ \A f \in AnFacts : anStored[f] # NoOne => anStored'[f] = anStored[f]
  <2>1. anStored \in [AnFacts -> AnSyncs \cup {NoOne}] /\ read \subseteq AnFacts
        /\ \A f \in read : anStored[f] = NoOne
    BY <1>2 DEF AnInv, AnTypes, StoreRefuses
  <2> QED BY <1>2, <2>1
<1>8. /\ anResults' \in [AnSyncs -> SUBSET AnFacts]
      /\ \A k \in AnSyncs : k # j => anResults'[k] = anResults[k]
      /\ row.state = "SUCCEEDED" => anResults'[j] = read
  BY <1>3 DEF AnInv, AnTypes
<1>9. AnTypes'
  BY <1>2, <1>6, <1>7, <1>8 DEF AnInv, AnTypes
<1>10. ResultIsStored'
  <2>1. ASSUME NEW k \in AnSyncs, anJobs'[k].state = "SUCCEEDED"
        PROVE  k \in anCalls' /\ \A f \in anResults'[k] : anStored'[f] = k
    <3>1. CASE k = j
      BY <1>2, <1>6, <1>7, <1>8, <2>1, <3>1
    <3>2. CASE k # j
      <4>1. anJobs[k].state = "SUCCEEDED" /\ anResults'[k] = anResults[k] /\ k # NoOne
        BY <1>6, <1>8, <2>1, <3>2, AnNames DEF AnJobs
      <4>2. k \in anCalls /\ \A f \in anResults[k] : f \in AnFacts /\ anStored[f] = k
        BY <4>1 DEF AnInv, ResultIsStored, AnTypes
      <4> QED BY <1>2, <1>7, <4>1, <4>2
    <3> QED BY <3>1, <3>2
  <2> QED BY <2>1 DEF ResultIsStored
<1>11. ReportIsComplete'
  <2>1. \A k \in AnReports : anJobs'[k] = anJobs[k]
    BY <1>1, <1>6 DEF AnJobs
  <2> QED BY <1>2, <2>1 DEF AnInv, ReportIsComplete
<1> QED BY <1>6, <1>9, <1>10, <1>11 DEF AnStepKept, AnInv

LEMMA RenderReportKept == ASSUME AnInv, NEW j \in AnReports, RenderReport(j) PROVE AnStepKept
<1>1. j \in AnJobs /\ j \notin AnSyncs
  BY AnNames DEF AnJobs
<1>2. /\ AnRuns(j) /\ AnAcknowledges(j) /\ anDropped' = anDropped
      /\ anCalls' = anCalls /\ anStored' = anStored /\ anResults' = anResults
  BY DEF RenderReport, syncVars
<1>3. PICK hash \in AnHashes, written \in SUBSET AnFormats, error \in Failures :
        /\ anArtifacts' = [anArtifacts EXCEPT ![j] =
             [f \in AnFormats |-> IF f \in written THEN hash ELSE anArtifacts[j][f]]]
        /\ anJobs' = [anJobs EXCEPT ![j].state = ReportState(j, anArtifacts'[j], error)]
  <2>1. PICK rendered \in SUBSET AnFormats, hash \in AnHashes, error \in Failures :
          LET clash == \E f \in rendered : anArtifacts[j][f] \notin {NoHash, hash}
              done == {f \in rendered : anArtifacts[j][f] = NoHash}
          IN \E written \in IF clash THEN SUBSET done ELSE {done} :
               /\ anArtifacts' = [anArtifacts EXCEPT ![j] =
                    [f \in AnFormats |-> IF f \in written THEN hash ELSE @[f]]]
               /\ anJobs' = [anJobs EXCEPT ![j].state =
                    ReportState(j, anArtifacts'[j], IF clash THEN "FINAL_FAILED" ELSE error)]
    BY DEF RenderReport
  <2>2. PICK done : done = {f \in rendered : anArtifacts[j][f] = NoHash}
    OBVIOUS
  <2>3. PICK written \in SUBSET AnFormats, outcome \in {"FINAL_FAILED", error} :
          /\ anArtifacts' = [anArtifacts EXCEPT ![j] =
               [f \in AnFormats |-> IF f \in written THEN hash ELSE anArtifacts[j][f]]]
          /\ anJobs' = [anJobs EXCEPT ![j].state = ReportState(j, anArtifacts'[j], outcome)]
    <3>1. CASE \E f \in rendered : anArtifacts[j][f] \notin {NoHash, hash}
      BY <2>1, <2>2, <3>1
    <3>2. CASE ~ \E f \in rendered : anArtifacts[j][f] \notin {NoHash, hash}
      BY <2>1, <2>2, <3>2
    <3> QED BY <3>1, <3>2
  <2>4. outcome \in Failures
    BY <2>3 DEF Failures
  <2> QED BY <2>3, <2>4
<1>4. PICK files : files = [f \in AnFormats |-> IF f \in written THEN hash ELSE anArtifacts[j][f]]
  OBVIOUS
<1>5. files \in AnArtifactRows
  <2>1. anArtifacts[j] \in AnArtifactRows
    BY DEF AnInv, AnTypes
  <2> QED BY <1>4, <2>1 DEF AnArtifactRows
<1>6. /\ anArtifacts' \in [AnReports -> AnArtifactRows] /\ anArtifacts'[j] = files
      /\ \A k \in AnReports : k # j => anArtifacts'[k] = anArtifacts[k]
  <2>1. anArtifacts' = [anArtifacts EXCEPT ![j] = files]
    BY <1>3, <1>4
  <2> QED BY <1>5, <2>1 DEF AnInv, AnTypes
<1>7. PICK state : state = ReportState(j, files, error)
  OBVIOUS
<1>8. /\ state \in {"SUCCEEDED", "RETRYABLE_FAILED", "FINAL_FAILED"} /\ state \in AnStates
      /\ state = "SUCCEEDED" <=> \A f \in AnFormats : files[f] # NoHash
  <2>1. error \in {"RETRYABLE_FAILED", "FINAL_FAILED"}
    BY <1>3 DEF Failures
  <2> QED BY <1>7, <2>1 DEF ReportState, AnStates
<1>9. anJobs' = [anJobs EXCEPT ![j].state = state]
  BY <1>3, <1>6, <1>7
<1>10. PICK row \in AnRows : anJobs' = [anJobs EXCEPT ![j] = row] /\ row.state = state
  BY <1>1, <1>8, <1>9, AnStateSet
<1>11. anJobs[j].state \notin TERMINAL_JOB_STATES /\ anJobs[j].state # "CANCEL_REQUESTED" /\ AnDelivered(j)
  BY <1>1, <1>2, AnRowIsOne DEF AnRuns, FinalizesCancellation, COMPLETED_ATTEMPT_STATES, TERMINAL_JOB_STATES,
     AnStates
<1>12. RunMoves(j, row)
  BY <1>1, <1>2, <1>8, <1>10, <1>11, AnAcknowledged DEF RunMoves
<1>13. /\ anJobs' \in [AnJobs -> AnRows] /\ anMail' \in [AnJobs -> Nat] /\ anJobs'[j] = row
       /\ \A k \in AnJobs : k # j => anJobs'[k] = anJobs[k]
       /\ NoAnalyticsRunForgotten' /\ AnalyticsEndIsFinal
  BY <1>1, <1>2, <1>11, <1>12, RunMoved
<1>14. AnTypes'
  BY <1>2, <1>6, <1>13 DEF AnInv, AnTypes
<1>15. ResultIsStored'
  <2>1. \A k \in AnSyncs : anJobs'[k] = anJobs[k]
    BY <1>1, <1>13 DEF AnJobs
  <2> QED BY <1>2, <2>1 DEF AnInv, ResultIsStored
<1>16. ReportIsComplete'
  <2>1. ASSUME NEW k \in AnReports
        PROVE  (anJobs'[k].state = "SUCCEEDED") = (\A f \in AnFormats : anArtifacts'[k][f] # NoHash)
    <3>1. CASE k = j
      BY <1>6, <1>8, <1>10, <1>13, <3>1
    <3>2. CASE k # j
      <4>1. anJobs'[k] = anJobs[k] /\ anArtifacts'[k] = anArtifacts[k]
        BY <1>6, <1>13, <3>2 DEF AnJobs
      <4> QED BY <4>1 DEF AnInv, ReportIsComplete
    <3> QED BY <3>1, <3>2
  <2> QED BY <2>1 DEF ReportIsComplete
<1> QED BY <1>13, <1>14, <1>15, <1>16 DEF AnStepKept, AnInv

\* The executor leaves a report incomplete, and its run as it was.
LEMMA StopsEarlyKept == ASSUME AnInv, NEW j \in AnReports, StopsEarly(j) PROVE AnStepKept
<1>1. j \in AnJobs /\ j \notin AnSyncs
  BY AnNames DEF AnJobs
<1>2. /\ AnRuns(j) /\ AnAcknowledges(j)
      /\ anDropped' = IF anMail' = anMail THEN anDropped ELSE anDropped \cup {j}
      /\ anJobs' = anJobs /\ anCalls' = anCalls /\ anStored' = anStored /\ anResults' = anResults
  BY DEF StopsEarly, syncVars
<1>3. PICK written \in SUBSET AnFormats, hash \in AnHashes :
        /\ \E f \in AnFormats \ written : anArtifacts[j][f] = NoHash
        /\ anArtifacts' = [anArtifacts EXCEPT ![j] =
             [f \in AnFormats |-> IF f \in written THEN hash ELSE anArtifacts[j][f]]]
  BY DEF StopsEarly
<1>4. PICK files : files = [f \in AnFormats |-> IF f \in written THEN hash ELSE anArtifacts[j][f]]
  OBVIOUS
<1>5. files \in AnArtifactRows /\ ~(\A f \in AnFormats : files[f] # NoHash)
  <2>1. anArtifacts[j] \in AnArtifactRows
    BY DEF AnInv, AnTypes
  <2> QED BY <1>3, <1>4, <2>1 DEF AnArtifactRows
<1>6. /\ anArtifacts' \in [AnReports -> AnArtifactRows] /\ anArtifacts'[j] = files
      /\ \A k \in AnReports : k # j => anArtifacts'[k] = anArtifacts[k]
  <2>1. anArtifacts' = [anArtifacts EXCEPT ![j] = files]
    BY <1>3, <1>4
  <2> QED BY <1>5, <2>1 DEF AnInv, AnTypes
<1>7. PICK row : row = anJobs[j]
  OBVIOUS
<1>8. row \in AnRows /\ anJobs' = [anJobs EXCEPT ![j] = row]
  BY <1>1, <1>2, <1>7, AnRowIsOne
<1>9. /\ AnDelivered(j) /\ anDropped \subseteq anDropped' /\ (j \notin anDropped' => anMail' = anMail)
      /\ row.state # "SUCCEEDED"
  BY <1>2, <1>7 DEF AnRuns, COMPLETED_ATTEMPT_STATES
<1>10. (row.state \in {"QUEUED", "CANCEL_REQUESTED"} /\ j \notin anDropped') => anMail'[j] > 0
  BY <1>9 DEF AnDelivered
<1>11. RunMoves(j, row)
  BY <1>1, <1>2, <1>7, <1>8, <1>9, <1>10, AnAcknowledged DEF RunMoves
<1>12. /\ anJobs' \in [AnJobs -> AnRows] /\ anMail' \in [AnJobs -> Nat] /\ anJobs'[j] = row
       /\ NoAnalyticsRunForgotten' /\ AnalyticsEndIsFinal
  BY <1>1, <1>2, <1>8, <1>11, RunMoved
<1>13. AnTypes'
  BY <1>2, <1>6, <1>12 DEF AnInv, AnTypes
<1>14. ResultIsStored'
  BY <1>2 DEF AnInv, ResultIsStored
<1>15. ReportIsComplete'
  <2>1. ASSUME NEW k \in AnReports
        PROVE  (anJobs'[k].state = "SUCCEEDED") = (\A f \in AnFormats : anArtifacts'[k][f] # NoHash)
    <3>1. CASE k = j
      BY <1>5, <1>6, <1>9, <1>12, <3>1
    <3>2. CASE k # j
      <4>1. anJobs'[k] = anJobs[k] /\ anArtifacts'[k] = anArtifacts[k]
        BY <1>2, <1>6, <3>2
      <4> QED BY <4>1 DEF AnInv, ReportIsComplete
    <3> QED BY <3>1, <3>2
  <2> QED BY <2>1 DEF ReportIsComplete
<1> QED BY <1>12, <1>13, <1>14, <1>15 DEF AnStepKept, AnInv

\* A step that changes no run.
LEMMA RunsStay ==
  ASSUME AnInv, UNCHANGED <<anJobs, syncVars, anArtifacts, anMail, anDropped>> PROVE AnStepKept
<1>1. /\ anJobs' = anJobs /\ anCalls' = anCalls /\ anStored' = anStored /\ anResults' = anResults
      /\ anArtifacts' = anArtifacts /\ anMail' = anMail /\ anDropped' = anDropped
  BY DEF syncVars
<1>2. AnTypes'
  BY <1>1 DEF AnInv, AnTypes
<1>3. ResultIsStored' /\ NoAnalyticsRunForgotten' /\ ReportIsComplete'
  BY <1>1 DEF AnInv, ResultIsStored, NoAnalyticsRunForgotten, ReportIsComplete
<1>4. AnalyticsEndIsFinal
  BY <1>1 DEF AnalyticsEndIsFinal, AnInv, NoAnalyticsRunForgotten
<1> QED BY <1>2, <1>3, <1>4 DEF AnStepKept, AnInv

LEMMA AnalyticsStep == ASSUME AnInv, SyncNext \/ ReportNext PROVE AnStepKept
<1>1. ASSUME NEW j \in AnJobs,
             \/ CreateRun(j) \/ RepeatCommand(j) \/ Finalize(j) \/ AnReturns(j) \/ FailRuntime(j)
             \/ \E t \in {"CANCEL_REQUESTED", "QUEUED"} : CommandRun(j, t)
      PROVE  AnStepKept
  BY <1>1, CreateRunKept, RepeatCommandKept, EndsKept, GoneKept, CommandRunKept
<1>2. ASSUME NEW j \in AnSyncs, CreateSync(j) \/ CommandSync(j) \/ RepeatCommand(j) \/ RunSync(j)
      PROVE  AnStepKept
  <2>1. j \in AnJobs
    BY DEF AnJobs
  <2>2. CASE \E all \in SUBSET AnFacts : \E read \in SUBSET all : RecordProviderResult(j, read, all)
    BY <2>2, RecordKeptAll
  <2>3. CASE \E read \in SUBSET AnFacts : StoreError(j, read)
    BY <2>1, <2>3, GoneKept
  <2> QED BY <1>1, <1>2, <2>1, <2>2, <2>3 DEF CreateSync, CommandSync, RunSync
<1>3. ASSUME NEW j \in AnReports, CreateReportRun(j) \/ CommandReport(j) \/ RepeatCommand(j) \/ RunReport(j)
      PROVE  AnStepKept
  <2>1. j \in AnJobs
    BY DEF AnJobs
  <2>2. CASE RenderReport(j)
    BY <2>2, RenderReportKept
  <2>3. CASE StopsEarly(j)
    BY <2>3, StopsEarlyKept
  <2> QED BY <1>1, <1>3, <2>1, <2>2, <2>3 DEF CreateReportRun, CommandReport, RunReport
<1> QED BY <1>2, <1>3 DEF SyncNext, ReportNext

\* AnalyticsService: for any number of runs, facts, formats and clients, a success has
\* stored all of its result, a report is done exactly when it has every artifact, ends stay,
\* what waits has a message, and accepted evidence agrees in what its kind compares with
\* the one row stored first, however messages are repeated and workers lost.
THEOREM AnalyticsKeepTheirPromise == AnSpec => AnalyticsPromise
<1>1. ASSUME SyncNext \/ ReportNext PROVE UNCHANGED evVars
  BY <1>1 DEF SyncNext, ReportNext, CreateSync, CommandSync, RunSync, CreateReportRun, CommandReport,
     RunReport, CreateRun, CommandRun, RepeatCommand, Finalize, AnReturns, FailRuntime,
     RecordProviderResult, StoreError, RenderReport, StopsEarly
<1>2. ASSUME EvInv, UNCHANGED evVars PROVE EvInv' /\ FirstEvidenceStays
  <2>1. evKind' = evKind /\ evRows' = evRows /\ evClients' = evClients
    BY <1>2 DEF evVars
  <2> QED BY <1>2, <2>1 DEF EvInv, Agrees, FirstEvidenceStays
<1>3. ASSUME AnInv, EvInv, [AnNext]_anVars PROVE AnStepKept /\ EvInv' /\ FirstEvidenceStays
  <2>1. CASE EvidenceNext
    BY <1>3, <2>1, EvidenceStep, RunsStay DEF EvidenceNext
  <2>2. CASE SyncNext \/ ReportNext
    BY <1>1, <1>2, <1>3, <2>2, AnalyticsStep
  <2>3. CASE UNCHANGED anVars
    <3>1. UNCHANGED <<anJobs, syncVars, anArtifacts, anMail, anDropped>> /\ UNCHANGED evVars
      BY <2>3 DEF anVars, syncVars, evVars
    <3> QED BY <1>2, <1>3, <3>1, RunsStay
  <2> QED BY <1>3, <2>1, <2>2, <2>3 DEF AnNext
<1>4. EvInv' => AcceptedEvidenceIsStored'
  BY EvidenceHolds, PTL
<1>5. ASSUME AnInv, EvInv, [AnNext]_anVars
      PROVE  [ /\ ( /\ ResultIsStored
                    /\ NoAnalyticsRunForgotten
                    /\ ReportIsComplete
                    /\ AcceptedEvidenceIsStored )'
               /\ AnalyticsEndIsFinal
               /\ FirstEvidenceStays ]_anVars
  BY <1>3, <1>4, <1>5 DEF AnStepKept, AnInv
<1>6. ASSUME AnInv, EvInv, [AnNext]_anVars PROVE AnInv' /\ EvInv'
  BY <1>3, <1>6 DEF AnStepKept
<1> QED BY AnalyticsInitially, EvidenceInitially, <1>5, <1>6, PTL DEF AnSpec, AnalyticsPromise

-----------------------------------------------------------------------------
(* Privacy.                                                                *)

PvStepStates == {"NONE", "PENDING", "SUCCEEDED", "FAILED"}
PvQueues == {"request", "sweep"}
PvMailRows == [sending : BOOLEAN, sent : Nat, lost : BOOLEAN]
PvRunRows == [who : {"nobody", "request", "sweep"}, actions : [PvSteps -> PvStepStates], disposed : BOOLEAN]
PvHoldRows == [state : {"NONE", "ACTIVE", "LAPSED", "RELEASED"}, scope : {"matching", "other"},
               by : PvPeople \cup {"nobody"}]
PvSweepRows == [state : {"NONE", "QUEUED", "SUCCEEDED", "PARTIAL", "FAILED"}, policy : Int,
                holds : SUBSET PvHolds]

PvTypes ==
  /\ pvKind \in PvKinds /\ pvActions \in [PvSteps -> PvStepStates] /\ pvRun \in PvRunRows
  /\ pvErased \subseteq PvSteps /\ pvHolds \in [PvHolds -> PvHoldRows]
  /\ pvArtifact \in [made : BOOLEAN, downloads : Nat] /\ pvGrants \subseteq 1..PvMaxDownloads
  /\ pvMail \in [PvQueues -> PvMailRows] /\ pvPolicy \in Int /\ pvSweep \in PvSweepRows

\* A step recorded as done, or that the transaction will record as done, has happened.
PvDone ==
  \A i \in PvSteps : pvActions[i] = "SUCCEEDED" \/ pvRun.actions[i] = "SUCCEEDED" => i \in pvErased

PvPlanned == pvState = "QUEUED" => \A i \in StepsOf(pvKind) : pvActions[i] # "NONE"

\* While a worker has the guard, what it checked stays true.
PvRequestRun ==
  pvRun.who = "request" =>
    /\ pvState = "QUEUED" /\ ~HeldBack /\ pvMail["request"].sent > 0
    /\ \A i \in StepsOf(pvKind) : pvRun.actions[i] # "NONE"

PvSweepRun ==
  pvRun.who = "sweep" => HoldsInForce \subseteq pvSweep.holds /\ pvMail["sweep"].sent > 0

PvInv ==
  /\ PvTypes /\ PvDone /\ PvPlanned /\ PvRequestRun /\ PvSweepRun
  /\ CertificateIsTrue /\ PrivacyWorkIsQueued

PvStepKept == PvInv' /\ ErasureIsAuthorised /\ SweepRespectsHolds

LEMMA PvIdle ==
  /\ Idle \in PvRunRows /\ Idle.who = "nobody" /\ Idle.disposed = FALSE
  /\ Idle.actions \in [PvSteps -> PvStepStates]
  /\ \A i \in PvSteps : Idle.actions[i] = "NONE"
BY DEF Idle, PvRunRows, PvStepStates

LEMMA PvStepSets == \A kind : StepsOf(kind) \subseteq PvSteps
BY PvNumbers DEF StepsOf

LEMMA GrantsWithinLimit == ASSUME PvTypes PROVE DownloadsWithinLimit
<1>1. /\ IsFiniteSet(1..PvMaxDownloads)
      /\ Cardinality(1..PvMaxDownloads) = IF 1 > PvMaxDownloads THEN 0 ELSE PvMaxDownloads - 1 + 1
  BY PvNumbers, FS_Interval
<1>2. pvGrants \subseteq 1..PvMaxDownloads
  BY DEF PvTypes
<1>3. Cardinality(pvGrants) <= Cardinality(1..PvMaxDownloads)
  BY <1>1, <1>2, FS_Subset
<1>4. Cardinality(1..PvMaxDownloads) <= PvMaxDownloads /\ Cardinality(1..PvMaxDownloads) \in Nat
  BY <1>1, PvNumbers
<1>5. Cardinality(pvGrants) \in Nat
  BY <1>1, <1>2, FS_Subset, FS_CardinalityType
<1> QED BY <1>3, <1>4, <1>5, PvNumbers DEF DownloadsWithinLimit

LEMMA PrivacyInitially == PvInit => PvInv
<1> SUFFICES ASSUME PvInit PROVE PvInv
  OBVIOUS
<1>1. NoMail \in PvMailRows /\ NoPrivacyHold \in PvHoldRows
  BY DEF NoMail, PvMailRows, NoPrivacyHold, PvHoldRows
<1>2. PvTypes
  BY <1>1, PvIdle, PvNumbers DEF PvInit, PvTypes, PvQueues, PvSweepRows
<1>3. PvDone /\ PvPlanned /\ PvRequestRun /\ PvSweepRun
  BY PvIdle DEF PvInit, PvDone, PvPlanned, PvRequestRun, PvSweepRun
<1>4. CertificateIsTrue /\ PrivacyWorkIsQueued
  BY DEF PvInit, CertificateIsTrue, PrivacyWorkIsQueued
<1> QED BY <1>2, <1>3, <1>4 DEF PvInv

\* Messages.
LEMMA MailRow ==
  ASSUME PvTypes, NEW of \in PvQueues, NEW row \in PvMailRows, pvMail' = [pvMail EXCEPT ![of] = row]
  PROVE  /\ pvMail' \in [PvQueues -> PvMailRows] /\ pvMail'[of] = row
         /\ \A o \in PvQueues : o # of => pvMail'[o] = pvMail[o]
BY DEF PvTypes

LEMMA Announced ==
  ASSUME PvTypes, NEW of \in PvQueues, Announce(of)
  PROVE  /\ pvMail' \in [PvQueues -> PvMailRows] /\ pvMail'[of].sending
         /\ \A o \in PvQueues : pvMail'[o].sent = pvMail[o].sent /\ (o # of => pvMail'[o] = pvMail[o])
<1>1. PICK row : row = [pvMail[of] EXCEPT !.sending = TRUE]
  OBVIOUS
<1>2. pvMail[of] \in PvMailRows
  BY DEF PvTypes
<1>3. row \in PvMailRows /\ row.sending /\ row.sent = pvMail[of].sent
  BY <1>1, <1>2 DEF PvMailRows
<1>4. pvMail' = [pvMail EXCEPT ![of] = row]
  BY <1>1 DEF Announce
<1> QED BY <1>3, <1>4, MailRow

LEMMA Acknowledged ==
  ASSUME PvTypes, NEW of \in PvQueues, pvMail[of].sent > 0,
         Acknowledges(of) \/ pvMail' = [pvMail EXCEPT ![of].sent = @ - 1]
  PROVE  pvMail' \in [PvQueues -> PvMailRows] /\ \A o \in PvQueues : o # of => pvMail'[o] = pvMail[o]
<1>1. PICK row : row = [pvMail[of] EXCEPT !.sent = pvMail[of].sent - 1]
  OBVIOUS
<1>2. pvMail[of] \in PvMailRows /\ pvMail \in [PvQueues -> PvMailRows]
  BY DEF PvTypes
<1>3. row \in PvMailRows
  BY <1>1, <1>2 DEF PvMailRows
<1>4. pvMail' = pvMail \/ pvMail' = [pvMail EXCEPT ![of] = row]
  BY <1>1 DEF Acknowledges
<1> QED BY <1>2, <1>3, <1>4, MailRow

\* A step outside the transaction that has the guard, and what it must leave alone.
LEMMA OutsideRun ==
  ASSUME PvInv,
         UNCHANGED <<pvKind, pvErased, pvCertificate, pvHolds, pvRun>>,
         pvArtifact' \in [made : BOOLEAN, downloads : Nat], pvGrants' \subseteq 1..PvMaxDownloads,
         pvMail' \in [PvQueues -> PvMailRows], pvActions' \in [PvSteps -> PvStepStates],
         pvSweep' \in PvSweepRows, pvPolicy' \in Int,
         \A i \in PvSteps : pvActions'[i] = "SUCCEEDED" => pvActions[i] = "SUCCEEDED",
         pvState' = "QUEUED" => \A i \in StepsOf(pvKind) : pvActions'[i] # "NONE",
         pvRun.who = "request" => pvState' = "QUEUED" /\ pvMail'["request"].sent > 0,
         pvRun.who = "sweep" => pvSweep' = pvSweep /\ pvMail'["sweep"].sent > 0,
         PrivacyWorkIsQueued'
  PROVE  PvStepKept
<1>1. /\ pvKind' = pvKind /\ pvErased' = pvErased /\ pvCertificate' = pvCertificate /\ pvHolds' = pvHolds
      /\ pvRun' = pvRun /\ HeldBack' = HeldBack /\ HoldsInForce' = HoldsInForce
  BY DEF HeldBack, MatchingHolds, HoldsInForce
<1>2. PvTypes'
  BY <1>1 DEF PvInv, PvTypes
<1>3. PvDone'
  BY <1>1 DEF PvInv, PvDone
<1>4. PvPlanned'
  BY <1>1 DEF PvPlanned, StepsOf
<1>5. PvRequestRun'
  BY <1>1 DEF PvInv, PvRequestRun, StepsOf
<1>6. PvSweepRun' /\ CertificateIsTrue'
  BY <1>1 DEF PvInv, PvSweepRun, CertificateIsTrue
<1>7. ErasureIsAuthorised /\ SweepRespectsHolds
  BY <1>1 DEF ErasureIsAuthorised, SweepRespectsHolds
<1> QED BY <1>2, <1>3, <1>4, <1>5, <1>6, <1>7 DEF PvStepKept, PvInv

LEMMA WhoRuns ==
  ASSUME PvInv
  PROVE  /\ pvRun.who \in {"nobody", "request", "sweep"} /\ (GuardFree => pvRun.who = "nobody")
         /\ (pvState # "QUEUED" => pvRun.who # "request")
BY PvIdle DEF PvInv, PvTypes, PvRunRows, GuardFree, PvRequestRun

\* Which messages wait when one of them is as it was, or its work is not queued any more.
LEMMA QueuedStays ==
  ASSUME PvInv,
         pvState' = "QUEUED" => pvState = "QUEUED" /\ pvMail'["request"] = pvMail["request"],
         pvSweep'.state = "QUEUED" => pvSweep.state = "QUEUED" /\ pvMail'["sweep"] = pvMail["sweep"]
  PROVE  PrivacyWorkIsQueued'
BY DEF PvInv, PrivacyWorkIsQueued

LEMMA MailKept ==
  ASSUME PvInv, NEW of \in PvQueues, MessageSent(of) \/ MessageLost(of) PROVE PvStepKept
<1>1. /\ pvMail[of] \in PvMailRows /\ pvMail[of].sent \in Nat /\ pvMail[of].sending \in BOOLEAN
      /\ pvMail[of].lost \in BOOLEAN
  BY DEF PvInv, PvTypes, PvMailRows
<1>2. PICK row \in PvMailRows :
        /\ pvMail' = [pvMail EXCEPT ![of] = row]
        /\ row.sent >= pvMail[of].sent /\ (row.sent > 0 \/ row.lost)
  <2>1. CASE MessageSent(of)
    <3>1. PICK row : row = [pvMail[of] EXCEPT !.sending = FALSE, !.sent = pvMail[of].sent + 1]
      OBVIOUS
    <3>2. row \in PvMailRows /\ row.sent = pvMail[of].sent + 1
      <4>1. row = [sending |-> FALSE, sent |-> pvMail[of].sent + 1, lost |-> pvMail[of].lost]
        BY <1>1, <3>1 DEF PvMailRows
      <4> QED BY <1>1, <4>1 DEF PvMailRows
    <3>3. pvMail' = [pvMail EXCEPT ![of] = row]
      BY <2>1, <3>1 DEF MessageSent, PvInv, PvTypes
    <3>4. row.sent >= pvMail[of].sent /\ row.sent > 0
      BY <1>1, <3>2
    <3> QED BY <3>2, <3>3, <3>4
  <2>2. CASE MessageLost(of)
    <3>1. PICK row : row = [pvMail[of] EXCEPT !.sending = FALSE, !.lost = TRUE]
      OBVIOUS
    <3>2. row \in PvMailRows /\ row.sent = pvMail[of].sent /\ row.lost
      BY <1>1, <3>1 DEF PvMailRows
    <3>3. pvMail' = [pvMail EXCEPT ![of] = row]
      BY <2>2, <3>1 DEF MessageLost, PvInv, PvTypes
    <3>4. row.sent >= pvMail[of].sent
      BY <1>1, <3>2
    <3> QED BY <3>2, <3>3, <3>4
  <2> QED BY <2>1, <2>2
<1>3. /\ pvMail' \in [PvQueues -> PvMailRows] /\ pvMail'[of] = row
      /\ \A o \in PvQueues : o # of => pvMail'[o] = pvMail[o]
  BY <1>2, MailRow DEF PvInv
<1>4. UNCHANGED <<pvRequestVars, pvHolds, pvRun, pvPolicy, pvSweep>>
  BY DEF MessageSent, MessageLost
<1>5. \A o \in PvQueues : pvMail'[o].sent >= pvMail[o].sent
  <2>1. \A o \in PvQueues : pvMail[o].sent \in Nat
    BY DEF PvInv, PvTypes, PvMailRows
  <2> QED BY <1>2, <1>3, <2>1
<1>6. "request" \in PvQueues /\ "sweep" \in PvQueues
  BY DEF PvQueues
<1>7. PrivacyWorkIsQueued'
  BY <1>2, <1>3, <1>4, <1>6 DEF PvInv, PrivacyWorkIsQueued, pvRequestVars
<1>8. \A o \in PvQueues : pvMail[o].sent \in Nat /\ pvMail'[o].sent \in Nat
  BY <1>3 DEF PvInv, PvTypes, PvMailRows
<1>9. pvRun.who = "request" => pvState' = "QUEUED" /\ pvMail'["request"].sent > 0
  BY <1>4, <1>5, <1>6, <1>8 DEF PvInv, PvRequestRun, pvRequestVars
<1>10. pvRun.who = "sweep" => pvSweep' = pvSweep /\ pvMail'["sweep"].sent > 0
  BY <1>4, <1>5, <1>6, <1>8 DEF PvInv, PvSweepRun
<1> QED BY <1>3, <1>4, <1>7, <1>9, <1>10, OutsideRun DEF PvInv, PvTypes, PvPlanned, pvRequestVars

\* A request's state moves while no worker has its row, and it is not queued.
LEMMA NotQueuedKept ==
  ASSUME PvInv, pvRun.who # "request", pvState' # "QUEUED",
         UNCHANGED <<pvKind, pvActions, pvErased, pvCertificate, pvArtifact, pvGrants, pvHolds, pvRun,
                     pvPolicy, pvSweep>>,
         pvMail' \in [PvQueues -> PvMailRows], pvMail'["sweep"] = pvMail["sweep"]
  PROVE  PvStepKept
<1>1. PrivacyWorkIsQueued'
  BY QueuedStays
<1>2. pvRun.who = "sweep" => pvSweep' = pvSweep /\ pvMail'["sweep"].sent > 0
  BY DEF PvInv, PvSweepRun
<1> QED BY <1>1, <1>2, OutsideRun DEF PvInv, PvTypes

LEMMA PlanKept ==
  ASSUME PvInv, pvRun.who # "request", PlanPrivacyRequest PROVE PvStepKept
<1>1. "request" \in PvQueues /\ "sweep" \in PvQueues
  BY DEF PvQueues
<1>2. UNCHANGED <<pvKind, pvErased, pvCertificate, pvArtifact, pvGrants, pvHolds, pvRun, pvPolicy, pvSweep>>
  BY DEF PlanPrivacyRequest
<1>3. CASE HeldBack
  <2>1. pvState' = "ON_HOLD" /\ pvActions' = pvActions /\ pvMail' = pvMail
    BY <1>3 DEF PlanPrivacyRequest
  <2> QED BY <1>2, <2>1, NotQueuedKept DEF PvInv, PvTypes
<1>4. CASE ~HeldBack
  <2>1. pvState' = "QUEUED" /\ pvActions' = PlannedSteps /\ Announce("request")
    BY <1>4 DEF PlanPrivacyRequest
  <2>2. /\ pvMail' \in [PvQueues -> PvMailRows] /\ pvMail'["request"].sending
        /\ pvMail'["sweep"] = pvMail["sweep"]
    BY <1>1, <2>1, Announced DEF PvInv
  <2>3. /\ pvActions' \in [PvSteps -> PvStepStates]
        /\ \A i \in PvSteps : pvActions'[i] = "SUCCEEDED" => pvActions[i] = "SUCCEEDED"
        /\ \A i \in StepsOf(pvKind) : pvActions'[i] # "NONE"
    BY <2>1, PvStepSets DEF PlannedSteps, PvStepStates
  <2>4. PrivacyWorkIsQueued'
    BY <1>2, <2>2 DEF PvInv, PrivacyWorkIsQueued
  <2>5. pvRun.who = "sweep" => pvSweep' = pvSweep /\ pvMail'["sweep"].sent > 0
    BY <1>2, <2>2 DEF PvInv, PvSweepRun
  <2> QED BY <1>2, <2>2, <2>3, <2>4, <2>5, OutsideRun DEF PvInv, PvTypes
<1> QED BY <1>3, <1>4

LEMMA IssueKept ==
  ASSUME PvInv, NEW recorded \in BOOLEAN, IssueExportDownload(recorded) PROVE PvStepKept
<1>1. pvArtifact \in [made : BOOLEAN, downloads : Nat] /\ pvGrants \subseteq 1..PvMaxDownloads
  BY DEF PvInv, PvTypes
<1>2. pvArtifact.downloads \in Nat /\ pvArtifact.downloads < PvMaxDownloads
  BY <1>1 DEF IssueExportDownload
<1>3. GrantKey \in 1..PvMaxDownloads
  BY <1>2, PvNumbers DEF GrantKey
<1>4. pvGrants' \subseteq 1..PvMaxDownloads
  BY <1>1, <1>3 DEF IssueExportDownload
<1>5. pvArtifact' \in [made : BOOLEAN, downloads : Nat]
  BY <1>1, <1>2 DEF IssueExportDownload
<1>6. UNCHANGED <<pvKind, pvState, pvActions, pvErased, pvCertificate, pvHolds, pvRun, pvMail, pvPolicy, pvSweep>>
  BY DEF IssueExportDownload
<1>7. PrivacyWorkIsQueued'
  BY <1>6, QueuedStays
<1> QED BY <1>4, <1>5, <1>6, <1>7, OutsideRun DEF PvInv, PvTypes, PvPlanned, PvRequestRun, PvSweepRun

LEMMA DataRightsKept == ASSUME PvInv, DataRightsRequest PROVE PvStepKept
<1>1. CASE CreatePrivacyRequest \/ CancelPrivacyRequest \/ RejectPrivacyRequest
  <2>1. pvRun.who # "request"
    BY <1>1, WhoRuns DEF CreatePrivacyRequest, CancelPrivacyRequest, RejectPrivacyRequest, RowFree
  <2>2. pvState' # "QUEUED" /\ pvMail' = pvMail
    BY <1>1 DEF CreatePrivacyRequest, CancelPrivacyRequest, RejectPrivacyRequest
  <2>3. UNCHANGED <<pvKind, pvActions, pvErased, pvCertificate, pvArtifact, pvGrants, pvHolds, pvRun,
                    pvPolicy, pvSweep>>
    BY <1>1 DEF CreatePrivacyRequest, CancelPrivacyRequest, RejectPrivacyRequest
  <2> QED BY <2>1, <2>2, <2>3, NotQueuedKept DEF PvInv, PvTypes
<1>2. CASE VerifyPrivacyRequest \/ AcceptProviderDeletion \/ ResumePrivacyRequest
  <2>1. pvRun.who # "request" /\ PlanPrivacyRequest
    BY <1>2, WhoRuns DEF VerifyPrivacyRequest, AcceptProviderDeletion, ResumePrivacyRequest, RowFree
  <2> QED BY <2>1, PlanKept
<1> QED BY <1>1, <1>2, IssueKept DEF DataRightsRequest

\* Placing and releasing holds, and a hold that lapses.
LEMMA HoldsKept ==
  ASSUME PvInv, LegalHoldRequest \/ \E h \in PvHolds : HoldLapses(h) PROVE PvStepKept
<1>1. /\ UNCHANGED <<pvRequestVars, pvRun, pvMail, pvPolicy, pvSweep>>
      /\ pvHolds' \in [PvHolds -> PvHoldRows]
      /\ GuardFree \/ (HoldsInForce' \subseteq HoldsInForce /\ MatchingHolds' \subseteq MatchingHolds)
  <2>1. ASSUME NEW h \in PvHolds, NEW scope \in {"matching", "other"}, NEW actor \in PvPeople,
               CreateLegalHold(h, scope, actor)
        PROVE  pvHolds' \in [PvHolds -> PvHoldRows] /\ GuardFree
    <3>1. PICK row : row = [state |-> "ACTIVE", scope |-> scope, by |-> actor]
      OBVIOUS
    <3>2. row \in PvHoldRows
      BY <3>1 DEF PvHoldRows
    <3>3. pvHolds' = [pvHolds EXCEPT ![h] = row] /\ GuardFree
      BY <2>1, <3>1 DEF CreateLegalHold, MayPlaceHold
    <3> QED BY <3>2, <3>3 DEF PvInv, PvTypes
  <2>2. ASSUME NEW h \in PvHolds, NEW state \in {"RELEASED", "LAPSED"},
               pvHolds' = [pvHolds EXCEPT ![h].state = state]
        PROVE  /\ pvHolds' \in [PvHolds -> PvHoldRows]
               /\ HoldsInForce' \subseteq HoldsInForce /\ MatchingHolds' \subseteq MatchingHolds
    <3>1. PICK row : row = [pvHolds[h] EXCEPT !.state = state]
      OBVIOUS
    <3>2. pvHolds[h] \in PvHoldRows
      BY DEF PvInv, PvTypes
    <3>3. row \in PvHoldRows /\ row.state = state
      BY <3>1, <3>2 DEF PvHoldRows
    <3>4. pvHolds' = [pvHolds EXCEPT ![h] = row]
      BY <2>2, <3>1
    <3>5. /\ pvHolds' \in [PvHolds -> PvHoldRows] /\ pvHolds'[h] = row
          /\ \A k \in PvHolds : k # h => pvHolds'[k] = pvHolds[k]
      BY <3>3, <3>4 DEF PvInv, PvTypes
    <3>6. HoldsInForce' \subseteq HoldsInForce
      BY <3>3, <3>5 DEF HoldsInForce
    <3>7. MatchingHolds' \subseteq MatchingHolds
      BY <3>3, <3>5, <3>6 DEF MatchingHolds, HoldsInForce
    <3> QED BY <3>5, <3>6, <3>7
  <2>3. ASSUME NEW h \in PvHolds, NEW actor, ReleaseLegalHold(h, actor) PROVE pvHolds' = [pvHolds EXCEPT ![h].state = "RELEASED"]
    BY <2>3 DEF ReleaseLegalHold
  <2>4. ASSUME NEW h \in PvHolds, HoldLapses(h) PROVE pvHolds' = [pvHolds EXCEPT ![h].state = "LAPSED"]
    BY <2>4 DEF HoldLapses
  <2>5. UNCHANGED <<pvRequestVars, pvRun, pvMail, pvPolicy, pvSweep>>
    BY DEF LegalHoldRequest, CreateLegalHold, ReleaseLegalHold, HoldLapses
  <2> QED BY <2>1, <2>2, <2>3, <2>4, <2>5 DEF LegalHoldRequest
<1>2. /\ pvKind' = pvKind /\ pvState' = pvState /\ pvActions' = pvActions /\ pvErased' = pvErased
      /\ pvCertificate' = pvCertificate /\ pvArtifact' = pvArtifact /\ pvGrants' = pvGrants
      /\ pvRun' = pvRun /\ pvMail' = pvMail /\ pvPolicy' = pvPolicy /\ pvSweep' = pvSweep
  BY <1>1 DEF pvRequestVars
<1>3. PvTypes' /\ PvDone' /\ PvPlanned' /\ CertificateIsTrue' /\ PrivacyWorkIsQueued'
  BY <1>1, <1>2 DEF PvInv, PvTypes, PvDone, PvPlanned, CertificateIsTrue, PrivacyWorkIsQueued, StepsOf
<1>4. PvRequestRun'
  BY <1>1, <1>2, WhoRuns DEF PvInv, PvRequestRun, StepsOf, HeldBack
<1>5. PvSweepRun'
  BY <1>1, <1>2, WhoRuns DEF PvInv, PvSweepRun
<1> QED BY <1>2, <1>3, <1>4, <1>5 DEF PvStepKept, PvInv, ErasureIsAuthorised, SweepRespectsHolds

LEMMA HeldOrRefusedKept ==
  ASSUME PvInv, PrivacyRunHeld \/ PrivacyRunRefused \/ PrivacyRuntimeUnavailable PROVE PvStepKept
<1>1. "request" \in PvQueues /\ "sweep" \in PvQueues
  BY DEF PvQueues
<1>2. /\ pvMail' \in [PvQueues -> PvMailRows] /\ pvMail'["sweep"] = pvMail["sweep"]
  BY <1>1, Acknowledged DEF PvInv, PrivacyRunHeld, PrivacyRunRefused, PrivacyRuntimeUnavailable
<1>3. /\ UNCHANGED <<pvKind, pvActions, pvErased, pvCertificate, pvArtifact, pvGrants, pvHolds, pvRun,
                     pvPolicy, pvSweep>>
      /\ pvState' # "QUEUED"
  BY DEF PrivacyRunHeld, PrivacyRunRefused, PrivacyRuntimeUnavailable, pvRequestVars, PrivacyRuns
<1>4. pvRun.who # "request"
  BY WhoRuns DEF PrivacyRunHeld, PrivacyRunRefused, PrivacyRuntimeUnavailable, RowFree
<1> QED BY <1>2, <1>3, <1>4, NotQueuedKept

\* A step of the transaction that has the guard: what it checked, and what it has done.
LEMMA InsideRun ==
  ASSUME PvInv, UNCHANGED <<pvKind, pvState, pvActions, pvCertificate, pvArtifact, pvGrants, pvHolds, pvMail,
                            pvPolicy, pvSweep>>,
         pvRun' \in PvRunRows, pvErased \subseteq pvErased', pvErased' \subseteq PvSteps,
         pvErased' # pvErased => pvRun.who = "request",
         \A i \in PvSteps : pvRun'.actions[i] = "SUCCEEDED" => i \in pvErased',
         pvRun'.who = "request" =>
           /\ pvState = "QUEUED" /\ ~HeldBack /\ pvMail["request"].sent > 0
           /\ \A i \in StepsOf(pvKind) : pvRun'.actions[i] # "NONE",
         pvRun'.who = "sweep" => HoldsInForce \subseteq pvSweep.holds /\ pvMail["sweep"].sent > 0,
         pvRun'.disposed /\ ~pvRun.disposed => pvRun.who = "sweep"
  PROVE  PvStepKept
<1>1. HeldBack' = HeldBack /\ HoldsInForce' = HoldsInForce
  BY DEF HeldBack, MatchingHolds, HoldsInForce
<1>2. PvTypes'
  BY DEF PvInv, PvTypes
<1>3. PvDone' /\ PvPlanned'
  BY DEF PvInv, PvDone, PvPlanned, StepsOf
<1>4. PvRequestRun'
  BY <1>1 DEF PvRequestRun, StepsOf
<1>5. PvSweepRun'
  BY <1>1 DEF PvSweepRun
<1>6. CertificateIsTrue' /\ PrivacyWorkIsQueued'
  BY DEF PvInv, PvTypes, CertificateIsTrue, PrivacyWorkIsQueued
<1>7. ErasureIsAuthorised /\ SweepRespectsHolds
  BY DEF PvInv, PvRequestRun, PvSweepRun, ErasureIsAuthorised, SweepRespectsHolds
<1> QED BY <1>2, <1>3, <1>4, <1>5, <1>6, <1>7 DEF PvStepKept, PvInv

LEMMA StartRunKept == ASSUME PvInv, StartPrivacyRun \/ StartSweep PROVE PvStepKept
<1>1. Idle \in PvRunRows /\ Idle.disposed = FALSE /\ pvActions \in [PvSteps -> PvStepStates]
  BY PvIdle DEF PvInv, PvTypes
<1>2. UNCHANGED <<pvKind, pvState, pvActions, pvErased, pvCertificate, pvArtifact, pvGrants, pvHolds, pvMail,
                  pvPolicy, pvSweep>> /\ pvRun = Idle
  BY DEF StartPrivacyRun, StartSweep, pvRequestVars, GuardFree
<1>3. CASE StartPrivacyRun
  <2>1. PICK run : run = [Idle EXCEPT !.who = "request", !.actions = pvActions]
    OBVIOUS
  <2>2. run \in PvRunRows /\ run.who = "request" /\ run.actions = pvActions /\ run.disposed = FALSE
    BY <1>1, <2>1 DEF PvRunRows
  <2>3. pvRun' = run /\ pvState = "QUEUED" /\ ~HeldBack /\ pvMail["request"].sent > 0
    BY <1>3, <2>1 DEF StartPrivacyRun, PrivacyRuns
  <2>4. \A i \in StepsOf(pvKind) : pvRun'.actions[i] # "NONE"
    BY <2>2, <2>3 DEF PvInv, PvPlanned
  <2>5. \A i \in PvSteps : pvRun'.actions[i] = "SUCCEEDED" => i \in pvErased'
    BY <1>2, <2>2, <2>3 DEF PvInv, PvDone
  <2> QED BY <1>2, <2>2, <2>3, <2>4, <2>5, InsideRun DEF PvInv, PvTypes
<1>4. CASE StartSweep
  <2>1. PICK run : run = [Idle EXCEPT !.who = "sweep"]
    OBVIOUS
  <2>2. run \in PvRunRows /\ run.who = "sweep" /\ run.actions = Idle.actions /\ run.disposed = FALSE
    BY <1>1, <2>1 DEF PvRunRows
  <2>3. pvRun' = run /\ HoldsInForce \subseteq pvSweep.holds /\ pvMail["sweep"].sent > 0
    BY <1>4, <2>1 DEF StartSweep, SweepIsCurrent
  <2>4. \A i \in PvSteps : pvRun'.actions[i] = "SUCCEEDED" => i \in pvErased'
    BY <2>2, <2>3, PvIdle
  <2> QED BY <1>2, <2>2, <2>3, <2>4, InsideRun DEF PvInv, PvTypes
<1> QED BY <1>3, <1>4

LEMMA ExecuteKeptPv ==
  ASSUME PvInv, NEW i \in PvSteps, NEW effect \in BOOLEAN, NEW outcome \in {"SUCCEEDED", "FAILED"},
         ExecutePrivacyAction(i, effect, outcome)
  PROVE  PvStepKept
<1>1. pvRun \in PvRunRows /\ pvRun.actions \in [PvSteps -> PvStepStates]
  BY DEF PvInv, PvTypes, PvRunRows
<1>2. PICK done : done = [pvRun.actions EXCEPT ![i] = outcome]
  OBVIOUS
<1>3. /\ done \in [PvSteps -> PvStepStates] /\ done[i] = outcome
      /\ \A k \in PvSteps : k # i => done[k] = pvRun.actions[k]
  BY <1>1, <1>2 DEF PvStepStates
<1>4. PICK run : run = [pvRun EXCEPT !.actions = done]
  OBVIOUS
<1>5. run \in PvRunRows /\ run.who = pvRun.who /\ run.actions = done /\ run.disposed = pvRun.disposed
  BY <1>1, <1>3, <1>4 DEF PvRunRows
<1>6. /\ pvRun' = run /\ pvRun.who = "request" /\ (outcome = "SUCCEEDED" => effect)
      /\ pvErased' = (IF effect THEN pvErased \cup {i} ELSE pvErased)
      /\ UNCHANGED <<pvKind, pvState, pvActions, pvCertificate, pvArtifact, pvGrants, pvHolds, pvMail,
                     pvPolicy, pvSweep>>
  BY <1>2, <1>4 DEF ExecutePrivacyAction, NextStep
<1>7. /\ pvState = "QUEUED" /\ ~HeldBack /\ pvMail["request"].sent > 0
      /\ \A k \in StepsOf(pvKind) : pvRun.actions[k] # "NONE" /\ k \in PvSteps
  BY <1>6, PvStepSets DEF PvInv, PvRequestRun
<1>8. \A k \in StepsOf(pvKind) : done[k] # "NONE"
  BY <1>3, <1>7
<1>9. \A k \in PvSteps : done[k] = "SUCCEEDED" => k \in pvErased'
  BY <1>3, <1>6 DEF PvInv, PvDone
<1>10. pvErased \subseteq pvErased' /\ pvErased' \subseteq PvSteps
  BY <1>6 DEF PvInv, PvTypes
<1> QED BY <1>5, <1>6, <1>7, <1>8, <1>9, <1>10, InsideRun

LEMMA SweepDisposesKept == ASSUME PvInv, SweepDisposes PROVE PvStepKept
<1>1. pvRun \in PvRunRows
  BY DEF PvInv, PvTypes
<1>2. PICK run : run = [pvRun EXCEPT !.disposed = TRUE]
  OBVIOUS
<1>3. run \in PvRunRows /\ run.who = pvRun.who /\ run.actions = pvRun.actions
  BY <1>1, <1>2 DEF PvRunRows
<1>4. /\ pvRun' = run /\ pvRun.who = "sweep" /\ pvErased' = pvErased
      /\ UNCHANGED <<pvKind, pvState, pvActions, pvCertificate, pvArtifact, pvGrants, pvHolds, pvMail,
                     pvPolicy, pvSweep>>
  BY <1>2 DEF SweepDisposes, pvRequestVars
<1>5. HoldsInForce \subseteq pvSweep.holds /\ pvMail["sweep"].sent > 0
  BY <1>4 DEF PvInv, PvSweepRun
<1>6. \A i \in PvSteps : run.actions[i] = "SUCCEEDED" => i \in pvErased'
  BY <1>3, <1>4 DEF PvInv, PvDone
<1>7. pvErased' \subseteq PvSteps
  BY <1>4 DEF PvInv, PvTypes
<1> QED BY <1>3, <1>4, <1>5, <1>6, <1>7, InsideRun

LEMMA RunLostKept == ASSUME PvInv, RunLost PROVE PvStepKept
<1>1. /\ pvRun' = Idle /\ pvErased' = pvErased
      /\ UNCHANGED <<pvKind, pvState, pvActions, pvCertificate, pvArtifact, pvGrants, pvHolds, pvMail,
                     pvPolicy, pvSweep>>
  BY DEF RunLost, Redelivered, pvRequestVars
<1>2. \A i \in PvSteps : pvRun'.actions[i] = "SUCCEEDED" => i \in pvErased'
  BY <1>1, PvIdle
<1>3. pvErased' \subseteq PvSteps
  BY <1>1 DEF PvInv, PvTypes
<1> QED BY <1>1, <1>2, <1>3, PvIdle, InsideRun

\* An error of the store ends a run, or a message that waited, and is not recorded.
LEMMA UnrecordedKept == ASSUME PvInv, NEW of \in PvQueues, RunUnrecorded(of) PROVE PvStepKept
<1>1. pvMail[of] \in PvMailRows /\ pvMail[of].sent \in Nat /\ pvMail[of].sent > 0
  BY DEF PvInv, PvTypes, PvMailRows, RunUnrecorded
<1>2. PICK row : row = [pvMail[of] EXCEPT !.sent = pvMail[of].sent - 1, !.lost = TRUE]
  OBVIOUS
<1>3. row \in PvMailRows /\ row.sent = pvMail[of].sent - 1 /\ row.lost
  <2>1. row = [sending |-> pvMail[of].sending, sent |-> pvMail[of].sent - 1, lost |-> TRUE]
    BY <1>1, <1>2 DEF PvMailRows
  <2> QED BY <1>1, <2>1 DEF PvMailRows
<1>4. pvMail' = [pvMail EXCEPT ![of] = row]
  BY <1>2 DEF RunUnrecorded, PvInv, PvTypes
<1>5. /\ pvMail' \in [PvQueues -> PvMailRows] /\ pvMail'[of] = row
      /\ \A o \in PvQueues : o # of => pvMail'[o] = pvMail[o]
  BY <1>3, <1>4, MailRow DEF PvInv
<1>6. /\ UNCHANGED <<pvKind, pvState, pvActions, pvErased, pvCertificate, pvArtifact, pvGrants, pvHolds,
                     pvPolicy, pvSweep>>
      /\ \/ pvRun' = Idle
         \/ pvRun' = pvRun /\ (pvRun.who = of => pvMail[of].sent > 1)
  BY DEF RunUnrecorded, pvRequestVars
<1>7. "request" \in PvQueues /\ "sweep" \in PvQueues
  BY DEF PvQueues
<1>8. PrivacyWorkIsQueued'
  BY <1>3, <1>5, <1>6, <1>7 DEF PvInv, PrivacyWorkIsQueued
<1>9. pvRun' \in PvRunRows
  BY <1>6, PvIdle DEF PvInv, PvTypes
<1>10. PvTypes'
  BY <1>5, <1>6, <1>9 DEF PvInv, PvTypes
<1>11. HeldBack' = HeldBack /\ HoldsInForce' = HoldsInForce
  BY <1>6 DEF HeldBack, MatchingHolds, HoldsInForce
<1>12. \A o \in PvQueues : pvRun'.who = o => pvRun' = pvRun /\ (pvMail[o].sent > 0 => pvMail'[o].sent > 0)
  BY <1>1, <1>3, <1>5, <1>6, PvIdle DEF PvQueues
<1>13. PvRequestRun'
  BY <1>6, <1>7, <1>11, <1>12 DEF PvInv, PvRequestRun, StepsOf
<1>14. PvSweepRun'
  BY <1>6, <1>7, <1>11, <1>12 DEF PvInv, PvSweepRun
<1>15. PvDone' /\ PvPlanned' /\ CertificateIsTrue'
  BY <1>6, PvIdle DEF PvInv, PvDone, PvPlanned, CertificateIsTrue, StepsOf
<1>16. ErasureIsAuthorised /\ SweepRespectsHolds
  BY <1>6, PvIdle DEF ErasureIsAuthorised, SweepRespectsHolds
<1> QED BY <1>8, <1>10, <1>13, <1>14, <1>15, <1>16 DEF PvStepKept, PvInv

\* The worker commits what it did: a deletion is certified only if every step succeeded.
LEMMA FinishRunKept == ASSUME PvInv, FinishPrivacyRun PROVE PvStepKept
<1>1. "request" \in PvQueues /\ "sweep" \in PvQueues
  BY DEF PvQueues
<1>2. /\ pvRun.who = "request" /\ "PENDING" \notin Outcomes(pvRun.actions)
      /\ pvActions' = pvRun.actions /\ pvRun' = Idle /\ Acknowledges("request")
      /\ pvState' = PrivacyCompletionState(pvRun.actions)
      /\ pvCertificate' = (pvCertificate \/ (PrivacyCompletionState(pvRun.actions) = "COMPLETED"
                                               /\ pvKind = "DELETE"))
      /\ pvArtifact' = [pvArtifact EXCEPT !.made =
           @ \/ (pvKind = "EXPORT" /\ pvRun.actions[1] = "SUCCEEDED")]
      /\ pvKind' = pvKind /\ pvErased' = pvErased /\ pvGrants' = pvGrants /\ pvHolds' = pvHolds
      /\ pvPolicy' = pvPolicy /\ pvSweep' = pvSweep
  BY DEF FinishPrivacyRun
<1>3. /\ pvState = "QUEUED" /\ pvMail["request"].sent > 0
      /\ \A i \in StepsOf(pvKind) : pvRun.actions[i] # "NONE"
  BY <1>2 DEF PvInv, PvRequestRun
<1>4. pvMail' \in [PvQueues -> PvMailRows] /\ pvMail'["sweep"] = pvMail["sweep"]
  BY <1>1, <1>2, <1>3, Acknowledged DEF PvInv
<1>5. pvState' # "QUEUED"
  BY <1>2 DEF PrivacyCompletionState
<1>6. CertificateIsTrue'
  <2>1. ASSUME ~pvCertificate, pvCertificate' PROVE pvErased = PvSteps
    <3>1. pvKind = "DELETE" /\ PrivacyCompletionState(pvRun.actions) = "COMPLETED"
      BY <1>2, <2>1
    <3>2. "FAILED" \notin Outcomes(pvRun.actions) /\ StepsOf(pvKind) = PvSteps
      BY <3>1 DEF PrivacyCompletionState, StepsOf
    <3>3. pvRun.actions \in [PvSteps -> PvStepStates]
      BY DEF PvInv, PvTypes, PvRunRows
    <3>4. \A i \in PvSteps : pvRun.actions[i] = "SUCCEEDED"
      BY <1>2, <1>3, <3>2, <3>3 DEF Outcomes, PvStepStates
    <3> QED BY <3>4 DEF PvInv, PvDone, PvTypes
  <2> QED BY <1>2, <2>1 DEF PvInv, CertificateIsTrue
<1>7. PrivacyWorkIsQueued'
  BY <1>2, <1>4, <1>5, QueuedStays
<1>8. /\ pvActions' \in [PvSteps -> PvStepStates] /\ pvRun' \in PvRunRows
      /\ pvArtifact' \in [made : BOOLEAN, downloads : Nat]
  <2>1. pvRun \in PvRunRows /\ pvArtifact \in [made : BOOLEAN, downloads : Nat]
    BY DEF PvInv, PvTypes
  <2>2. pvRun.actions \in [PvSteps -> PvStepStates]
    BY <2>1 DEF PvRunRows
  <2>3. pvArtifact' \in [made : BOOLEAN, downloads : Nat]
    <3>1. PICK made \in BOOLEAN : made <=> pvArtifact.made \/ (pvKind = "EXPORT" /\ pvRun.actions[1] = "SUCCEEDED")
      BY Zenon
    <3>2. pvArtifact.made \in BOOLEAN
      BY <2>1
    <3>3. (pvArtifact.made \/ (pvKind = "EXPORT" /\ pvRun.actions[1] = "SUCCEEDED")) \in BOOLEAN
      BY Zenon
    <3> QED BY <1>2, <2>1, <3>3
  <2> QED BY <1>2, <2>2, <2>3, PvIdle
<1>9. PvTypes'
  BY <1>2, <1>4, <1>8 DEF PvInv, PvTypes
<1>10. PvDone' /\ PvPlanned' /\ PvRequestRun' /\ PvSweepRun'
  BY <1>2, <1>5, PvIdle DEF PvInv, PvDone, PvPlanned, PvRequestRun, PvSweepRun
<1>11. ErasureIsAuthorised /\ SweepRespectsHolds
  BY <1>2, PvIdle DEF ErasureIsAuthorised, SweepRespectsHolds
<1> QED BY <1>6, <1>7, <1>9, <1>10, <1>11 DEF PvStepKept, PvInv

\* Retention: a sweep's row, its message, and the end of its transaction.
LEMMA RetentionKept == ASSUME PvInv, RetentionRequest PROVE PvStepKept
<1>1. "request" \in PvQueues /\ "sweep" \in PvQueues
  BY DEF PvQueues
<1>2. CASE CreateRetentionPolicy
  <2>1. /\ UNCHANGED <<pvKind, pvState, pvActions, pvErased, pvCertificate, pvArtifact, pvGrants, pvHolds,
                       pvRun, pvMail, pvSweep>>
        /\ pvPolicy' = pvPolicy + 1
    BY <1>2 DEF CreateRetentionPolicy, pvRequestVars
  <2>2. pvPolicy' \in Int
    BY <2>1 DEF PvInv, PvTypes
  <2>3. PrivacyWorkIsQueued'
    BY <2>1, QueuedStays
  <2> QED BY <2>1, <2>2, <2>3, OutsideRun DEF PvInv, PvTypes, PvPlanned, PvRequestRun, PvSweepRun
<1>3. CASE CreateRetentionSweep
  <2>1. PICK row : row = [state |-> "QUEUED", policy |-> pvPolicy, holds |-> HoldsInForce]
    OBVIOUS
  <2>2. row \in PvSweepRows
    BY <2>1 DEF PvInv, PvTypes, PvSweepRows, HoldsInForce
  <2>3. /\ UNCHANGED <<pvKind, pvState, pvActions, pvErased, pvCertificate, pvArtifact, pvGrants, pvHolds,
                       pvRun, pvPolicy>>
        /\ pvSweep' = row /\ GuardFree /\ Announce("sweep")
    BY <1>3, <2>1 DEF CreateRetentionSweep, pvRequestVars
  <2>4. pvRun.who = "nobody"
    BY <2>3, WhoRuns
  <2>5. /\ pvMail' \in [PvQueues -> PvMailRows] /\ pvMail'["sweep"].sending
        /\ pvMail'["request"] = pvMail["request"]
    BY <1>1, <2>3, Announced DEF PvInv
  <2>6. PrivacyWorkIsQueued'
    BY <2>3, <2>5 DEF PvInv, PrivacyWorkIsQueued
  <2> QED BY <2>2, <2>3, <2>4, <2>5, <2>6, OutsideRun DEF PvInv, PvTypes, PvPlanned
<1> QED BY <1>2, <1>3 DEF RetentionRequest

LEMMA SweepEndsKept == ASSUME PvInv, SweepFails \/ SweepRefused PROVE PvStepKept
<1>1. "request" \in PvQueues /\ "sweep" \in PvQueues
  BY DEF PvQueues
<1>2. PICK row : row = [pvSweep EXCEPT !.state = "FAILED"]
  OBVIOUS
<1>3. row \in PvSweepRows /\ row.state = "FAILED"
  BY <1>2 DEF PvInv, PvTypes, PvSweepRows
<1>4. /\ UNCHANGED <<pvKind, pvState, pvActions, pvErased, pvCertificate, pvArtifact, pvGrants, pvHolds,
                     pvRun, pvPolicy>>
      /\ GuardFree /\ pvMail["sweep"].sent > 0 /\ pvSweep' \in {row, pvSweep} /\ pvSweep'.state # "QUEUED"
  BY <1>2, <1>3 DEF SweepFails, SweepRefused, pvRequestVars
<1>5. pvMail' \in [PvQueues -> PvMailRows] /\ pvMail'["request"] = pvMail["request"]
  BY <1>1, <1>4, Acknowledged DEF PvInv, SweepFails, SweepRefused
<1>6. pvRun.who = "nobody"
  BY <1>4, WhoRuns
<1>7. PrivacyWorkIsQueued'
  BY <1>4, <1>5, QueuedStays
<1>8. pvSweep' \in PvSweepRows
  BY <1>3, <1>4 DEF PvInv, PvTypes
<1> QED BY <1>4, <1>5, <1>6, <1>7, <1>8, OutsideRun DEF PvInv, PvTypes, PvPlanned

LEMMA FinishSweepKept ==
  ASSUME PvInv, NEW final \in {"SUCCEEDED", "PARTIAL", "FAILED"}, FinishSweep(final) PROVE PvStepKept
<1>1. "request" \in PvQueues /\ "sweep" \in PvQueues
  BY DEF PvQueues
<1>2. PICK row : row = [pvSweep EXCEPT !.state = final]
  OBVIOUS
<1>3. row \in PvSweepRows /\ row.state = final
  BY <1>2 DEF PvInv, PvTypes, PvSweepRows
<1>4. /\ pvKind' = pvKind /\ pvState' = pvState /\ pvActions' = pvActions /\ pvErased' = pvErased
      /\ pvCertificate' = pvCertificate /\ pvArtifact' = pvArtifact /\ pvGrants' = pvGrants
      /\ pvHolds' = pvHolds /\ pvPolicy' = pvPolicy /\ pvSweep' = row /\ pvRun' = Idle
      /\ pvRun.who = "sweep" /\ Acknowledges("sweep")
  BY <1>2 DEF FinishSweep, pvRequestVars
<1>5. pvMail["sweep"].sent > 0
  BY <1>4 DEF PvInv, PvSweepRun
<1>6. pvMail' \in [PvQueues -> PvMailRows] /\ pvMail'["request"] = pvMail["request"]
  BY <1>1, <1>4, <1>5, Acknowledged DEF PvInv
<1>7. PrivacyWorkIsQueued'
  BY <1>3, <1>4, <1>6, QueuedStays
<1>8. PvTypes'
  BY <1>3, <1>4, <1>6, PvIdle DEF PvInv, PvTypes
<1>9. PvDone' /\ PvPlanned' /\ PvRequestRun' /\ PvSweepRun' /\ CertificateIsTrue'
  BY <1>4, PvIdle DEF PvInv, PvDone, PvPlanned, PvRequestRun, PvSweepRun, CertificateIsTrue, StepsOf
<1>10. ErasureIsAuthorised /\ SweepRespectsHolds
  BY <1>4, PvIdle DEF ErasureIsAuthorised, SweepRespectsHolds
<1> QED BY <1>7, <1>8, <1>9, <1>10 DEF PvStepKept, PvInv

LEMMA PrivacyStep == ASSUME PvInv, PvNext PROVE PvStepKept
<1>1. CASE LegalHoldRequest \/ DataRightsRequest \/ RetentionRequest
  BY <1>1, HoldsKept, DataRightsKept, RetentionKept
<1>2. CASE RunPrivacy
  BY <1>2, StartRunKept, HeldOrRefusedKept, ExecuteKeptPv, FinishRunKept DEF RunPrivacy
<1>3. CASE RunRetention
  BY <1>3, StartRunKept, SweepEndsKept, SweepDisposesKept, FinishSweepKept DEF RunRetention
<1>4. CASE PvDelivery
  BY <1>4, RunLostKept, MailKept, UnrecordedKept, HoldsKept DEF PvDelivery, PvQueues
<1> QED BY <1>1, <1>2, <1>3, <1>4 DEF PvNext

LEMMA PrivacyStays == ASSUME PvInv, UNCHANGED pvVars PROVE PvStepKept
<1>1. UNCHANGED <<pvKind, pvState, pvActions, pvErased, pvCertificate, pvArtifact, pvGrants, pvHolds,
                  pvRun, pvMail, pvPolicy, pvSweep>>
  BY DEF pvVars, pvRequestVars
<1>2. PrivacyWorkIsQueued'
  BY <1>1, QueuedStays
<1> QED BY <1>1, <1>2, OutsideRun DEF PvInv, PvTypes, PvPlanned, PvRequestRun, PvSweepRun

\* domain/security/privacy: for any number of steps, holds, messages and downloads, nothing
\* is erased under a hold or without a queued request, a certificate is only issued for a
\* deletion that happened, what is queued has a message unless its sender was lost, an export
\* is handed out no more often than allowed, and a sweep knows the holds in force.
THEOREM PrivacyKeepsItsPromise == PvSpec => PrivacyPromise
<1>1. ASSUME PvInv, [PvNext]_pvVars PROVE PvStepKept
  BY <1>1, PrivacyStep, PrivacyStays
<1>2. PvTypes' => DownloadsWithinLimit'
  BY GrantsWithinLimit, PTL
<1>3. ASSUME PvInv, [PvNext]_pvVars
      PROVE  [ /\ ( /\ CertificateIsTrue
                    /\ PrivacyWorkIsQueued
                    /\ DownloadsWithinLimit )'
               /\ ErasureIsAuthorised
               /\ SweepRespectsHolds ]_pvVars
  BY <1>1, <1>2, <1>3 DEF PvStepKept, PvInv
<1>4. PvInv /\ [PvNext]_pvVars => PvInv'
  BY <1>1 DEF PvStepKept
<1> QED BY PrivacyInitially, <1>3, <1>4, PTL DEF PvSpec, PrivacyPromise

-----------------------------------------------------------------------------
(* Accounts.                                                               *)

IUserRows ==
  [status : {"NONE", "PENDING_EMAIL", "ACTIVE", "DELETION_PENDING"}, verified : BOOLEAN,
   mfa : BOOLEAN]
ICredentialRows == [failed : 0..IMaxFailures, locked : BOOLEAN, pw : Nat]
ISessionRows ==
  [status : {"NONE", "ACTIVE", "REVOKED", "COMPROMISED", "EXPIRED"}, mfa : BOOLEAN, pw : Nat,
   late : BOOLEAN]
IRefreshRows == [IGenerations -> {"NONE", "LIVE", "CONSUMED"}]
IFactorRows ==
  [status : {"NONE", "INSERTING", "PENDING", "CONFIRMING", "ACTIVE", "DISABLED"},
   step : 0..IMaxStep, recovery : BOOLEAN, drops : SUBSET IFactorIds]
ILogins == [kind : {"none", "session", "challenge"}, pw : Nat]
IChallenges == [state : {"NONE", "LIVE", "CONSUMED", "EXPIRED"}, pw : Nat]

ITypes ==
  /\ iUser \in IUserRows
  /\ iCredential \in ICredentialRows
  /\ iSessions \in [ISessionIds -> ISessionRows]
  /\ iRefresh \in [ISessionIds -> IRefreshRows]
  /\ iLogin \in ILogins
  /\ iChallenge \in IChallenges
  /\ iFactors \in [IFactorIds -> IFactorRows]
  /\ iWrong \in Nat
  /\ iReplayed \subseteq ISessionIds
  /\ iCutoff \in Nat
  /\ iAccepted \in [IFactorIds -> [ICodes -> Nat]]

\* Whoever became active has verified the address, so a link that is still valid
\* has nothing left to do.
VerifiedOnce == iUser.status \in {"ACTIVE", "DELETION_PENDING"} => iUser.verified

\* The failures the credential counts cover the guesses, and an unlocked
\* credential has either none behind it or one left.
GuessesCounted ==
  /\ iWrong = 0 \/ iWrong <= iCredential.failed
  /\ ~iCredential.locked => iWrong = 0 \/ iCredential.failed < IMaxFailures

\* A login under way has the password as it is, and no reset was of a later one.
LoginKnowsPassword ==
  /\ iCutoff <= iCredential.pw
  /\ iLogin # NoLogin => iLogin.pw = iCredential.pw

\* One session with its family of refresh tokens.
SessionOk(row, tokens, replayed, cutoff) ==
  /\ \A g, h \in IGenerations : tokens[g] = "LIVE" /\ tokens[h] = "LIVE" => g = h
  /\ row.status = "NONE" => ~replayed /\ \A g \in IGenerations : tokens[g] = "NONE"
  /\ replayed => row.status # "ACTIVE"
  /\ row.status = "ACTIVE" /\ row.pw < cutoff => row.mfa

SessionsOk ==
  \A s \in ISessionIds : SessionOk(iSessions[s], iRefresh[s], s \in iReplayed, iCutoff)

\* One factor: what may still be accepted was not accepted before, and nothing was
\* before the factor was confirmed.
FactorOk(row, accepted) ==
  /\ \A c \in ICodes : accepted[c] <= 1
  /\ row.recovery => accepted[RecoveryCode] = 0
  /\ \A c \in 1..IMaxStep : c > row.step => accepted[c] = 0
  /\ row.status \in {"NONE", "INSERTING", "PENDING", "CONFIRMING"} =>
       \A c \in ICodes : accepted[c] = 0
  /\ row.status = "CONFIRMING" => row.step # RecoveryCode

FactorsOk == \A f \in IFactorIds : FactorOk(iFactors[f], iAccepted[f])

IInv ==
  /\ ITypes /\ VerifiedOnce /\ GuessesCounted /\ LoginKnowsPassword
  /\ SessionsOk /\ FactorsOk /\ MfaHasFactor
IKept == IInv' /\ DeletionIsFinal

LEMMA AccountPromised == ASSUME IInv PROVE
  RefreshFamily /\ GuessesBounded /\ ResetCutsOffOldPassword /\ SecondFactorUsedOnce /\ MfaHasFactor
<1>1. RefreshFamily
  <2> SUFFICES ASSUME NEW s \in ISessionIds
               PROVE  /\ Cardinality({g \in IGenerations : iRefresh[s][g] = "LIVE"}) <= 1
                      /\ s \in iReplayed => iSessions[s].status # "ACTIVE"
    BY DEF RefreshFamily
  <2> DEFINE live == {g \in IGenerations : iRefresh[s][g] = "LIVE"}
  <2>1. /\ \A g, h \in live : g = h
        /\ s \in iReplayed => iSessions[s].status # "ACTIVE"
    BY DEF IInv, SessionsOk, SessionOk
  <2>2. live = {} \/ \E g \in live : live = {g}
    BY <2>1
  <2>3. live = {} => Cardinality(live) = 0
    BY FS_EmptySet
  <2>4. ASSUME NEW g \in live, live = {g} PROVE Cardinality(live) = 1
    BY <2>4, FS_Singleton
  <2>5. Cardinality(live) <= 1
    BY <2>2, <2>3, <2>4
  <2> QED BY <2>1, <2>5
<1>2. GuessesBounded
  BY INumbers DEF IInv, ITypes, GuessesCounted, GuessesBounded, ICredentialRows
<1>3. ResetCutsOffOldPassword
  BY DEF IInv, SessionsOk, SessionOk, ResetCutsOffOldPassword
<1>4. SecondFactorUsedOnce
  BY DEF IInv, FactorsOk, FactorOk, SecondFactorUsedOnce
<1> QED BY <1>1, <1>2, <1>3, <1>4 DEF IInv

LEMMA AccountInitial == IInit => IInv
<1> SUFFICES ASSUME IInit PROVE IInv
  OBVIOUS
<1>1. /\ iUser \in IUserRows /\ ~iUser.mfa
      /\ iUser.status \in {"ACTIVE", "DELETION_PENDING"} => iUser.verified
  <2>1. NewUser \in IUserRows /\ ~NewUser.mfa /\ NewUser.status = "NONE"
    BY DEF NewUser, IUserRows
  <2>2. SignedUp \in IUserRows
    BY <2>1 DEF SignedUp, IUserRows
  <2>6. SignedUp.verified = TRUE
    BY <2>1 DEF SignedUp, IUserRows
  <2>7. ~SignedUp.mfa
    BY <2>1 DEF SignedUp, IUserRows
  <2>3. iUser = NewUser \/ iUser = SignedUp
    BY DEF IInit
  <2>4. CASE iUser = NewUser
    BY <2>4, <2>1
  <2>5. CASE iUser = SignedUp
    BY <2>5, <2>2, <2>6, <2>7
  <2> QED BY <2>3, <2>4, <2>5
<1>2. iCredential \in ICredentialRows /\ iCredential.pw = 0
  BY INumbers DEF IInit, ICredentialRows
<1>3. iSessions \in [ISessionIds -> ISessionRows]
  BY DEF IInit, NoSession, ISessionRows
<1>4. iRefresh \in [ISessionIds -> IRefreshRows]
  BY DEF IInit, IRefreshRows
<1>5. NoFactor \in IFactorRows
  BY INumbers DEF NoFactor, IFactorRows
<1>6. iFactors \in [IFactorIds -> IFactorRows]
  BY <1>5 DEF IInit
<1>7. iLogin \in ILogins /\ iChallenge \in IChallenges
  BY DEF IInit, NoLogin, ILogins, IChallenges
<1>8. iAccepted \in [IFactorIds -> [ICodes -> Nat]]
  BY DEF IInit
<1>9. ITypes
  BY <1>1, <1>2, <1>3, <1>4, <1>6, <1>7, <1>8 DEF IInit, ITypes
<1>10. VerifiedOnce /\ GuessesCounted /\ LoginKnowsPassword /\ MfaHasFactor
  BY <1>1, <1>2 DEF IInit, VerifiedOnce, GuessesCounted, LoginKnowsPassword, MfaHasFactor
<1>11. SessionsOk
  BY DEF IInit, SessionsOk, SessionOk, NoSession
<1>12. FactorsOk
  BY DEF IInit, FactorsOk, FactorOk, NoFactor, ICodes, RecoveryCode
<1> QED BY <1>9, <1>10, <1>11, <1>12 DEF IInv

\* Requests that touch only the account's own row and its tokens.
LEMMA AccountMoves ==
  ASSUME IInv, iUser' \in IUserRows,
         iUser'.status \in {"ACTIVE", "DELETION_PENDING"} => iUser'.verified,
         iUser.status = "DELETION_PENDING" => iUser'.status = "DELETION_PENDING",
         iUser'.mfa = iUser.mfa,
         UNCHANGED <<loginVars, sessionVars, iChallenge, mfaVars, iCutoff>>
  PROVE  IKept
<1> USE DEF loginVars, sessionVars, mfaVars
<1>1. ITypes'
  BY DEF IInv, ITypes
<1>2. VerifiedOnce' /\ GuessesCounted' /\ LoginKnowsPassword' /\ MfaHasFactor' /\ DeletionIsFinal
  BY DEF IInv, VerifiedOnce, GuessesCounted, LoginKnowsPassword, MfaHasFactor, DeletionIsFinal
<1>3. SessionsOk' /\ FactorsOk'
  BY DEF IInv, SessionsOk, FactorsOk
<1> QED BY <1>1, <1>2, <1>3 DEF IInv, IKept

LEMMA EmailKeeps ==
  ASSUME IInv, EmailRequest PROVE IKept
<1> USE DEF IUserRows
<1>1. iUser \in IUserRows /\ VerifiedOnce
  BY DEF IInv, ITypes
<1>2. CASE Signup
  BY <1>1, <1>2, AccountMoves DEF Signup, VerifiedOnce
<1>3. CASE \E t \in ITokenIds : ResendEmailVerification(t) \/ TokenCommitted(t)
  <2>1. UNCHANGED <<iUser, loginVars, sessionVars, iChallenge, mfaVars, iCutoff>>
    BY <1>3 DEF ResendEmailVerification, TokenCommitted
  <2> QED BY <2>1, <1>1, AccountMoves DEF VerifiedOnce
<1>4. CASE \E t \in ITokenIds : VerifyEmail(t)
  <2>1. /\ iUser' = UserVerified(iUser)
        /\ UNCHANGED <<loginVars, sessionVars, iChallenge, mfaVars, iCutoff>>
    BY <1>4 DEF VerifyEmail
  <2>2. /\ iUser' \in IUserRows /\ iUser'.mfa = iUser.mfa
        /\ iUser'.status \in {"ACTIVE", "DELETION_PENDING"} => iUser'.verified
        /\ iUser.status = "DELETION_PENDING" => iUser'.status = "DELETION_PENDING"
    BY <2>1, <1>1 DEF UserVerified, VerifiedOnce
  <2> QED BY <2>1, <2>2, AccountMoves
<1> QED BY <1>2, <1>3, <1>4 DEF EmailRequest

-----------------------------------------------------------------------------
(* Passwords and logins.                                                   *)

\* Sessions that are over have nothing left to keep but their tokens.
LEMMA EndedSessionOk ==
  ASSUME NEW row, NEW tokens, NEW replayed, NEW cutoff, SessionOk(row, tokens, replayed, cutoff),
         NEW r, NEW again, NEW later, r.status \notin {"NONE", "ACTIVE"}
  PROVE  SessionOk(r, tokens, again, later)
BY DEF SessionOk

LEMMA AllSessionsRevoked ==
  ASSUME IInv, NEW except, NEW later \in Nat, except = {} \/ later = iCutoff,
         NEW rows, rows = RevokeAllSessions(except)
  PROVE  /\ rows \in [ISessionIds -> ISessionRows]
         /\ \A s \in ISessionIds : SessionOk(rows[s], iRefresh[s], s \in iReplayed, later)
<1>1. iSessions \in [ISessionIds -> ISessionRows] /\ SessionsOk
  BY DEF IInv, ITypes
<1>2. rows \in [ISessionIds -> ISessionRows]
  BY <1>1 DEF RevokeAllSessions, ISessionRows
<1>3. ASSUME NEW s \in ISessionIds
      PROVE  SessionOk(rows[s], iRefresh[s], s \in iReplayed, later)
  <2>1. SessionOk(iSessions[s], iRefresh[s], s \in iReplayed, iCutoff)
    BY <1>1 DEF SessionsOk
  <2>2. CASE iSessions[s].status = "ACTIVE" /\ s \notin except
    <3>1. rows[s].status = "REVOKED"
      BY <2>2, <1>1 DEF RevokeAllSessions, ISessionRows
    <3> QED BY <3>1, <2>1, EndedSessionOk
  <2>3. CASE ~(iSessions[s].status = "ACTIVE" /\ s \notin except)
    <3>1. rows[s] = iSessions[s]
      BY <2>3 DEF RevokeAllSessions
    <3>2. CASE later = iCutoff
      BY <3>1, <3>2, <2>1
    <3>3. CASE except = {}
      <4>1. iSessions[s].status # "ACTIVE"
        BY <2>3, <3>3
      <4> QED BY <4>1, <3>1, <2>1 DEF SessionOk
    <3> QED BY <3>2, <3>3
  <2> QED BY <2>2, <2>3
<1> QED BY <1>2, <1>3

LEMMA ResetKeeps ==
  ASSUME IInv, NEW t \in ITokenIds, NEW all \in BOOLEAN, ResetPassword(t, all) PROVE IKept
<1> USE DEF sessionVars, mfaVars
<1>1. ITypes /\ SessionsOk /\ LoginKnowsPassword
  BY DEF IInv
<1>2. /\ iLogin = NoLogin /\ iCredential' = [failed |-> 0, locked |-> FALSE, pw |-> iCredential.pw + 1]
      /\ iWrong' = 0
      /\ iSessions' = IF all THEN RevokeAllSessions({}) ELSE iSessions
      /\ iCutoff' = IF all THEN iCredential.pw + 1 ELSE iCutoff
      /\ UNCHANGED <<iUser, iLogin, iRefresh, iReplayed, iChallenge, mfaVars>>
  BY DEF ResetPassword
<1>3. iCredential.pw \in Nat /\ iCutoff \in Nat /\ iCutoff <= iCredential.pw
  BY <1>1 DEF ITypes, ICredentialRows, LoginKnowsPassword
<1>4. /\ iCredential' \in ICredentialRows /\ iCredential'.pw = iCredential.pw + 1
      /\ iCutoff' \in Nat /\ iCutoff' <= iCredential'.pw
  BY <1>2, <1>3, INumbers DEF ICredentialRows
<1>5. /\ iSessions' \in [ISessionIds -> ISessionRows]
      /\ \A s \in ISessionIds : SessionOk(iSessions'[s], iRefresh[s], s \in iReplayed, iCutoff')
  <2>1. CASE all
    BY <2>1, <1>2, <1>3, AllSessionsRevoked
  <2>2. CASE ~all
    BY <2>2, <1>2, <1>1 DEF ITypes, SessionsOk
  <2> QED BY <2>1, <2>2
<1>6. ITypes'
  BY <1>1, <1>2, <1>4, <1>5 DEF ITypes
<1>7. SessionsOk'
  BY <1>2, <1>5 DEF SessionsOk
<1>8. GuessesCounted' /\ LoginKnowsPassword'
  BY <1>2, <1>3, <1>4, INumbers DEF GuessesCounted, LoginKnowsPassword
<1>9. FactorsOk' /\ VerifiedOnce' /\ MfaHasFactor' /\ DeletionIsFinal
  BY <1>2 DEF IInv, FactorsOk, VerifiedOnce, MfaHasFactor, DeletionIsFinal
<1> QED BY <1>6, <1>7, <1>8, <1>9 DEF IInv, IKept

LEMMA PasswordKeeps ==
  ASSUME IInv, PasswordRequest PROVE IKept
<1>1. CASE \E t \in ITokenIds : RequestPasswordReset(t) \/ TokenCommitted(t)
  <2>1. UNCHANGED <<iUser, loginVars, sessionVars, iChallenge, mfaVars, iCutoff>>
    BY <1>1 DEF RequestPasswordReset, TokenCommitted
  <2> QED BY <2>1, AccountMoves DEF VerifiedOnce, IInv, ITypes
<1>2. CASE \E t \in ITokenIds : \E all \in BOOLEAN : ResetPassword(t, all)
  BY <1>2, ResetKeeps
<1> QED BY <1>1, <1>2 DEF PasswordRequest

\* Requests that only count guesses.
LEMMA GuessMoves ==
  ASSUME IInv, iCredential' \in ICredentialRows, iCredential'.pw = iCredential.pw, iWrong' \in Nat,
         GuessesCounted',
         UNCHANGED <<iUser, iLogin, sessionVars, iChallenge, mfaVars, iCutoff>>
  PROVE  IKept
<1> USE DEF sessionVars, mfaVars
<1>1. ITypes'
  BY DEF IInv, ITypes
<1>2. VerifiedOnce' /\ LoginKnowsPassword' /\ MfaHasFactor' /\ DeletionIsFinal
  BY DEF IInv, VerifiedOnce, LoginKnowsPassword, MfaHasFactor, DeletionIsFinal
<1>3. SessionsOk' /\ FactorsOk'
  BY DEF IInv, SessionsOk, FactorsOk
<1> QED BY <1>1, <1>2, <1>3 DEF IInv, IKept

LEMMA LockKeeps ==
  ASSUME IInv, LockRequest PROVE IKept
<1> USE INumbers DEF ICredentialRows
<1>1. iCredential \in ICredentialRows /\ iWrong \in Nat /\ GuessesCounted
  BY DEF IInv, ITypes
<1>2. CASE LoginWrongPassword
  <2>1. /\ ~iCredential.locked /\ iWrong' = iWrong + 1
        /\ iCredential' = FailureRecorded(iCredential)
        /\ UNCHANGED <<iUser, iLogin, sessionVars, iChallenge, mfaVars, iCutoff>>
    BY <1>2 DEF LoginWrongPassword
  <2> DEFINE failed == IF iCredential.failed < IMaxFailures THEN iCredential.failed + 1 ELSE IMaxFailures
  <2>2. failed \in 1..IMaxFailures
    BY <1>1
  <2>9. iCredential' = [failed |-> failed, locked |-> failed >= IMaxFailures, pw |-> iCredential.pw]
    BY <2>1, <1>1 DEF FailureRecorded
  <2>3. /\ iCredential' \in ICredentialRows /\ iCredential'.pw = iCredential.pw
        /\ iCredential'.failed = failed /\ iCredential'.locked = (failed >= IMaxFailures)
    BY <2>9, <2>2, <1>1
  <2>4. iWrong + 1 <= failed
    BY <2>1, <1>1 DEF GuessesCounted
  <2>5. GuessesCounted'
    BY <2>1, <2>2, <2>3, <2>4, <1>1 DEF GuessesCounted
  <2> QED BY <2>1, <2>3, <2>5, <1>1, GuessMoves
<1>3. CASE LockExpires
  <2>1. /\ iWrong' = 0 /\ iCredential' = [iCredential EXCEPT !.locked = FALSE]
        /\ UNCHANGED <<iUser, iLogin, sessionVars, iChallenge, mfaVars, iCutoff>>
    BY <1>3 DEF LockExpires
  <2>2. iCredential' \in ICredentialRows /\ iCredential'.pw = iCredential.pw /\ GuessesCounted'
    BY <2>1, <1>1 DEF GuessesCounted
  <2> QED BY <2>1, <2>2, GuessMoves
<1> QED BY <1>2, <1>3 DEF LockRequest

\* Create_session: the row is free, with no token and no replay.
LEMMA SessionOpened ==
  ASSUME IInv, NEW s \in ISessionIds, NEW mfa \in BOOLEAN, NEW pw \in Nat,
         Create_session(s, mfa, pw), pw < iCutoff => mfa, UNCHANGED iCutoff
  PROVE  /\ iSessions' \in [ISessionIds -> ISessionRows]
         /\ iRefresh' \in [ISessionIds -> IRefreshRows]
         /\ SessionsOk' /\ UNCHANGED iReplayed
<1>1. /\ iSessions \in [ISessionIds -> ISessionRows] /\ iRefresh \in [ISessionIds -> IRefreshRows]
      /\ SessionsOk /\ 0 \in IGenerations
  BY INumbers DEF IInv, ITypes, IGenerations
<1>2. /\ iSessions[s].status = "NONE"
      /\ iSessions' = [iSessions EXCEPT ![s] = [status |-> "ACTIVE", mfa |-> mfa, pw |-> pw,
                                                late |-> FALSE]]
      /\ iRefresh' = [iRefresh EXCEPT ![s][0] = "LIVE"] /\ UNCHANGED iReplayed
  BY DEF Create_session, NoSession
<1>3. iSessions' \in [ISessionIds -> ISessionRows] /\ iRefresh' \in [ISessionIds -> IRefreshRows]
  BY <1>1, <1>2 DEF ISessionRows, IRefreshRows
<1>4. /\ \A r \in ISessionIds \ {s} : iSessions'[r] = iSessions[r] /\ iRefresh'[r] = iRefresh[r]
      /\ iSessions'[s].status = "ACTIVE" /\ iSessions'[s].mfa = mfa /\ iSessions'[s].pw = pw
      /\ iRefresh'[s] = [iRefresh[s] EXCEPT ![0] = "LIVE"]
  BY <1>1, <1>2
<1>5. /\ s \notin iReplayed
      /\ \A g \in IGenerations : iRefresh[s][g] = "NONE"
  BY <1>1, <1>2 DEF SessionsOk, SessionOk
<1>6. \A g \in IGenerations : iRefresh'[s][g] = "LIVE" => g = 0
  BY <1>4, <1>5, <1>1 DEF IRefreshRows
<1>7. SessionOk(iSessions'[s], iRefresh'[s], s \in iReplayed', iCutoff')
  BY <1>2, <1>4, <1>5, <1>6 DEF SessionOk
<1>8. SessionsOk'
  BY <1>1, <1>2, <1>4, <1>7 DEF SessionsOk
<1> QED BY <1>2, <1>3, <1>8

LEMMA LoginKeeps ==
  ASSUME IInv, LoginRequest PROVE IKept
<1> USE DEF mfaVars
<1>0. /\ ITypes /\ VerifiedOnce /\ GuessesCounted /\ LoginKnowsPassword /\ SessionsOk /\ FactorsOk
      /\ MfaHasFactor /\ iCredential \in ICredentialRows /\ iCredential.pw \in Nat
  BY DEF IInv, ITypes, ICredentialRows
<1>1. CASE LoginStart
  <2>1. /\ iLogin' = [kind |-> IF iUser.mfa THEN "challenge" ELSE "session", pw |-> iCredential.pw]
        /\ UNCHANGED <<iUser, iTokens, iCredential, iWrong, sessionVars, iChallenge, mfaVars, iCutoff>>
    BY <1>1 DEF LoginStart
  <2>2. iLogin' \in ILogins /\ iLogin'.pw = iCredential.pw
    BY <2>1, <1>0 DEF ILogins
  <2>3. ITypes'
    BY <2>1, <2>2, <1>0 DEF ITypes, sessionVars
  <2>4. GuessesCounted' /\ LoginKnowsPassword'
    BY <2>1, <2>2, <1>0 DEF GuessesCounted, LoginKnowsPassword
  <2>5. SessionsOk' /\ FactorsOk' /\ VerifiedOnce' /\ MfaHasFactor' /\ DeletionIsFinal
    BY <2>1, <1>0 DEF SessionsOk, FactorsOk, VerifiedOnce, MfaHasFactor, DeletionIsFinal, sessionVars
  <2> QED BY <2>3, <2>4, <2>5 DEF IInv, IKept
<1>2. CASE LoginCommit
  <2>1. /\ iLogin # NoLogin /\ iLogin' = NoLogin
        /\ iCredential' = [iCredential EXCEPT !.failed = 0, !.locked = FALSE]
        /\ iWrong' = 0 /\ UNCHANGED <<iUser, iTokens, mfaVars, iCutoff>>
    BY <1>2 DEF LoginCommit
  <2>2. iLogin.pw \in Nat /\ iLogin.pw = iCredential.pw /\ ~(iLogin.pw < iCutoff) /\ iLogin' \in ILogins
    BY <2>1, <1>0 DEF LoginKnowsPassword, ITypes, ILogins, NoLogin
  <2>8. iCredential' = [failed |-> 0, locked |-> FALSE, pw |-> iCredential.pw]
    BY <2>1, <1>0 DEF ICredentialRows
  <2>3. iCredential' \in ICredentialRows /\ iCredential'.pw = iCredential.pw
    BY <2>8, <1>0, INumbers DEF ICredentialRows
  <2>4. /\ iSessions' \in [ISessionIds -> ISessionRows] /\ iRefresh' \in [ISessionIds -> IRefreshRows]
        /\ SessionsOk' /\ iChallenge' \in IChallenges /\ UNCHANGED iReplayed
    <3>1. CASE \E s \in ISessionIds : Create_session(s, FALSE, iLogin.pw) /\ UNCHANGED iChallenge
      <4>1. PICK s \in ISessionIds : Create_session(s, FALSE, iLogin.pw)
        BY <3>1
      <4>2. iChallenge' \in IChallenges
        BY <3>1, <1>0 DEF ITypes
      <4> QED BY <4>1, <4>2, <2>1, <2>2, SessionOpened
    <3>2. CASE iChallenge' = [state |-> "LIVE", pw |-> iLogin.pw] /\ UNCHANGED sessionVars
      BY <3>2, <2>1, <2>2, <1>0 DEF ITypes, SessionsOk, IChallenges, sessionVars
    <3> QED BY <3>1, <3>2, <1>2 DEF LoginCommit
  <2>5. ITypes'
    BY <2>1, <2>2, <2>3, <2>4, <1>0 DEF ITypes
  <2>6. GuessesCounted' /\ LoginKnowsPassword'
    BY <2>1, <2>2, <2>3, <1>0, INumbers DEF GuessesCounted, LoginKnowsPassword, ITypes
  <2>7. FactorsOk' /\ VerifiedOnce' /\ MfaHasFactor' /\ DeletionIsFinal
    BY <2>1, <1>0 DEF FactorsOk, VerifiedOnce, MfaHasFactor, DeletionIsFinal
  <2> QED BY <2>4, <2>5, <2>6, <2>7 DEF IInv, IKept
<1> QED BY <1>1, <1>2 DEF LoginRequest

-----------------------------------------------------------------------------
(* Sessions.                                                               *)

\* Requests that only move sessions and their refresh tokens.
LEMMA SessionMoves ==
  ASSUME IInv, iSessions' \in [ISessionIds -> ISessionRows],
         iRefresh' \in [ISessionIds -> IRefreshRows], iReplayed' \subseteq ISessionIds, SessionsOk',
         iUser' \in IUserRows, iUser'.mfa = iUser.mfa, VerifiedOnce', DeletionIsFinal,
         UNCHANGED <<loginVars, iChallenge, mfaVars, iCutoff>>
  PROVE  IKept
<1> USE DEF loginVars, mfaVars
<1>1. ITypes'
  BY DEF IInv, ITypes
<1>2. GuessesCounted' /\ LoginKnowsPassword' /\ MfaHasFactor' /\ FactorsOk'
  BY DEF IInv, GuessesCounted, LoginKnowsPassword, MfaHasFactor, FactorsOk
<1> QED BY <1>1, <1>2 DEF IInv, IKept

\* The account stays as it is.
LEMMA OnlySessionsMove ==
  ASSUME IInv, iSessions' \in [ISessionIds -> ISessionRows],
         iRefresh' \in [ISessionIds -> IRefreshRows], iReplayed' \subseteq ISessionIds, SessionsOk',
         UNCHANGED <<iUser, loginVars, iChallenge, mfaVars, iCutoff>>
  PROVE  IKept
<1>1. /\ iUser' \in IUserRows /\ iUser'.mfa = iUser.mfa /\ VerifiedOnce' /\ DeletionIsFinal
  BY DEF IInv, ITypes, VerifiedOnce, DeletionIsFinal
<1> QED BY <1>1, SessionMoves

\* One session's status is overwritten with a final one.
LEMMA SessionEnded ==
  ASSUME IInv, NEW s \in ISessionIds, NEW end \in {"REVOKED", "COMPROMISED", "EXPIRED"},
         iSessions' = [iSessions EXCEPT ![s].status = end],
         iReplayed' \in {iReplayed, iReplayed \cup {s}},
         UNCHANGED <<iUser, loginVars, iRefresh, iChallenge, mfaVars, iCutoff>>
  PROVE  IKept
<1>1. /\ iSessions \in [ISessionIds -> ISessionRows] /\ iRefresh \in [ISessionIds -> IRefreshRows]
      /\ SessionsOk /\ iReplayed \subseteq ISessionIds
  BY DEF IInv, ITypes
<1>2. iSessions' \in [ISessionIds -> ISessionRows] /\ iSessions'[s].status = end
  BY <1>1 DEF ISessionRows
<1>3. \A r \in ISessionIds \ {s} : iSessions'[r] = iSessions[r] /\ (r \in iReplayed' <=> r \in iReplayed)
  BY <1>1
<1>4. SessionOk(iSessions'[s], iRefresh[s], s \in iReplayed', iCutoff)
  <2>1. SessionOk(iSessions[s], iRefresh[s], s \in iReplayed, iCutoff)
    BY <1>1 DEF SessionsOk
  <2> QED BY <2>1, <1>2, EndedSessionOk
<1>5. ASSUME NEW r \in ISessionIds
      PROVE  SessionOk(iSessions'[r], iRefresh'[r], r \in iReplayed', iCutoff')
  <2>1. CASE r = s
    BY <2>1, <1>4
  <2>2. CASE r # s
    BY <2>2, <1>3, <1>1 DEF SessionsOk, SessionOk
  <2> QED BY <2>1, <2>2
<1>6. SessionsOk'
  BY <1>5 DEF SessionsOk
<1> QED BY <1>1, <1>2, <1>6, OnlySessionsMove

LEMMA RefreshKeeps ==
  ASSUME IInv, NEW s \in ISessionIds, NEW g \in IGenerations, Refresh(s, g) PROVE IKept
<1>1. /\ iSessions \in [ISessionIds -> ISessionRows] /\ iRefresh \in [ISessionIds -> IRefreshRows]
      /\ SessionsOk /\ iReplayed \subseteq ISessionIds
  BY DEF IInv, ITypes
<1>2. /\ g < IMaxGeneration /\ iRefresh[s][g] = "LIVE" /\ iSessions[s].status = "ACTIVE"
      /\ iRefresh' = [iRefresh EXCEPT ![s][g] = "CONSUMED", ![s][g + 1] = "LIVE"]
      /\ UNCHANGED <<iUser, iTokens, loginVars, iSessions, iReplayed, iChallenge, mfaVars, iCutoff>>
  BY DEF Refresh, Rotated, IsPrincipal
<1>3. g \in Nat /\ g + 1 \in IGenerations /\ g + 1 # g
  BY <1>2, INumbers DEF IGenerations
<1>4. PICK tokens : tokens = [iRefresh[s] EXCEPT ![g] = "CONSUMED", ![g + 1] = "LIVE"]
  OBVIOUS
<1>5. /\ tokens \in IRefreshRows /\ tokens[g] = "CONSUMED" /\ tokens[g + 1] = "LIVE"
      /\ \A h \in IGenerations : h # g /\ h # g + 1 => tokens[h] = iRefresh[s][h]
  BY <1>1, <1>3, <1>4 DEF IRefreshRows
<1>6. iRefresh' = [iRefresh EXCEPT ![s] = tokens]
  BY <1>1, <1>2, <1>4
<1>7. iRefresh' \in [ISessionIds -> IRefreshRows] /\ iRefresh'[s] = tokens
      /\ \A r \in ISessionIds \ {s} : iRefresh'[r] = iRefresh[r]
  BY <1>1, <1>5, <1>6
<1>8. \A h \in IGenerations : tokens[h] = "LIVE" => h = g + 1
  BY <1>1, <1>2, <1>5 DEF SessionsOk, SessionOk
<1>9. SessionOk(iSessions[s], tokens, s \in iReplayed, iCutoff)
  <2>1. SessionOk(iSessions[s], iRefresh[s], s \in iReplayed, iCutoff)
    BY <1>1 DEF SessionsOk
  <2>2. \A h, k \in IGenerations : tokens[h] = "LIVE" /\ tokens[k] = "LIVE" => h = k
    BY <1>8
  <2> QED BY <2>1, <2>2, <1>2 DEF SessionOk
<1>10. SessionsOk'
  BY <1>1, <1>2, <1>7, <1>9 DEF SessionsOk
<1> QED BY <1>1, <1>2, <1>7, <1>10, OnlySessionsMove

LEMMA LateKeeps ==
  ASSUME IInv, NEW s \in ISessionIds, SessionExpires(s) PROVE IKept
<1>1. /\ iSessions \in [ISessionIds -> ISessionRows] /\ iRefresh \in [ISessionIds -> IRefreshRows]
      /\ SessionsOk /\ iReplayed \subseteq ISessionIds
  BY DEF IInv, ITypes
<1>2. /\ iSessions' = [iSessions EXCEPT ![s].late = TRUE]
      /\ UNCHANGED <<iUser, iTokens, loginVars, iRefresh, iReplayed, iChallenge, mfaVars, iCutoff>>
  BY DEF SessionExpires
<1>3. iSessions' \in [ISessionIds -> ISessionRows]
  BY <1>1, <1>2 DEF ISessionRows
<1>4. \A r \in ISessionIds : /\ iSessions'[r].status = iSessions[r].status
                             /\ iSessions'[r].pw = iSessions[r].pw
                             /\ iSessions'[r].mfa = iSessions[r].mfa
  BY <1>1, <1>2 DEF ISessionRows
<1>5. SessionsOk'
  BY <1>1, <1>2, <1>4 DEF SessionsOk, SessionOk
<1> QED BY <1>1, <1>2, <1>3, <1>5, OnlySessionsMove

LEMMA SessionKeeps ==
  ASSUME IInv, SessionRequest PROVE IKept
<1> USE DEF sessionVars
<1>0. /\ iRefresh \in [ISessionIds -> IRefreshRows] /\ iReplayed \subseteq ISessionIds /\ iCutoff \in Nat
  BY DEF IInv, ITypes
<1>1. ASSUME NEW s \in ISessionIds, NEW g \in IGenerations, RefreshReplayed(s, g) PROVE IKept
  BY <1>1, SessionEnded DEF RefreshReplayed, ReplayEnds
<1>2. ASSUME NEW s \in ISessionIds, NEW g \in IGenerations, RefreshExpired(s, g) PROVE IKept
  BY <1>2, SessionEnded DEF RefreshExpired
<1>3. ASSUME NEW s \in ISessionIds, RevokeSession(s) PROVE IKept
  BY <1>3, SessionEnded DEF RevokeSession
<1>4. ASSUME NEW keep \in BOOLEAN, RevokeAll(keep) PROVE IKept
  <2>1. PICK me \in ActingSecurely : iSessions' = RevokeAllSessions(IF keep THEN {me} ELSE {})
    BY <1>4 DEF RevokeAll
  <2>2. UNCHANGED <<iUser, iTokens, loginVars, iRefresh, iReplayed, iChallenge, mfaVars, iCutoff>>
    BY <1>4 DEF RevokeAll
  <2>3. PICK rows : rows = RevokeAllSessions(IF keep THEN {me} ELSE {})
    OBVIOUS
  <2>4. /\ rows \in [ISessionIds -> ISessionRows]
        /\ \A s \in ISessionIds : SessionOk(rows[s], iRefresh[s], s \in iReplayed, iCutoff)
    BY <2>3, <1>0, AllSessionsRevoked
  <2>5. iSessions' \in [ISessionIds -> ISessionRows] /\ SessionsOk'
    BY <2>1, <2>2, <2>3, <2>4 DEF SessionsOk
  <2> QED BY <2>2, <2>5, <1>0, OnlySessionsMove
<1>5. CASE \E s \in ISessionIds, g \in IGenerations :
             RefreshReplayed(s, g) \/ RefreshExpired(s, g) \/ Refresh(s, g)
  BY <1>5, <1>1, <1>2, RefreshKeeps
<1>6. CASE \E s \in ISessionIds : RevokeSession(s) \/ SessionExpires(s)
  BY <1>6, <1>3, LateKeeps
<1>7. CASE \E keep \in BOOLEAN : RevokeAll(keep)
  BY <1>7, <1>4
<1> QED BY <1>5, <1>6, <1>7 DEF SessionRequest

LEMMA AccountDeletionKeeps ==
  ASSUME IInv, RequestAccountDeletion PROVE IKept
<1>1. /\ iSessions \in [ISessionIds -> ISessionRows] /\ iRefresh \in [ISessionIds -> IRefreshRows]
      /\ iReplayed \subseteq ISessionIds /\ iUser \in IUserRows /\ VerifiedOnce /\ iCutoff \in Nat
  BY DEF IInv, ITypes
<1>2. /\ iUser.status = "ACTIVE" /\ iUser' = [iUser EXCEPT !.status = "DELETION_PENDING"]
      /\ iSessions' = RevokeAllSessions({})
      /\ UNCHANGED <<iTokens, loginVars, iRefresh, iReplayed, iChallenge, mfaVars, iCutoff>>
  BY DEF RequestAccountDeletion, ActingSecurely, ActingSession, IsPrincipal
<1>3. PICK rows : rows = RevokeAllSessions({})
  OBVIOUS
<1>4. /\ rows \in [ISessionIds -> ISessionRows]
      /\ \A s \in ISessionIds : SessionOk(rows[s], iRefresh[s], s \in iReplayed, iCutoff)
  BY <1>3, <1>1, AllSessionsRevoked
<1>5. iSessions' \in [ISessionIds -> ISessionRows] /\ SessionsOk'
  BY <1>2, <1>3, <1>4 DEF SessionsOk
<1>6. /\ iUser' \in IUserRows /\ iUser'.mfa = iUser.mfa /\ VerifiedOnce' /\ DeletionIsFinal
  BY <1>1, <1>2 DEF IUserRows, VerifiedOnce, DeletionIsFinal
<1> QED BY <1>1, <1>2, <1>5, <1>6, SessionMoves

-----------------------------------------------------------------------------
(* Second factors.                                                         *)

\* A request about factors that opens no session.
LEMMA FactorMoves ==
  ASSUME IInv, iFactors' \in [IFactorIds -> IFactorRows],
         iAccepted' \in [IFactorIds -> [ICodes -> Nat]], FactorsOk', MfaHasFactor',
         iUser' \in IUserRows, iUser'.status = iUser.status, iUser'.verified = iUser.verified,
         UNCHANGED <<loginVars, sessionVars, iChallenge, iCutoff>>
  PROVE  IKept
<1> USE DEF loginVars, sessionVars
<1>1. ITypes'
  BY DEF IInv, ITypes
<1>2. VerifiedOnce' /\ GuessesCounted' /\ LoginKnowsPassword' /\ SessionsOk' /\ DeletionIsFinal
  BY DEF IInv, VerifiedOnce, GuessesCounted, LoginKnowsPassword, SessionsOk, DeletionIsFinal
<1> QED BY <1>1, <1>2 DEF IInv, IKept

\* A code is accepted: the factor notes it, and no code it could accept again was
\* accepted before.
LEMMA CodeAccepted ==
  ASSUME IInv, NEW f \in IFactorIds, NEW code \in ICodes, SecondFactorVerifies(f, code),
         NEW row, row = FactorAfter(f, code)
  PROVE  /\ row \in IFactorRows /\ row.status = "ACTIVE" /\ iFactors[f].status = "ACTIVE"
         /\ iAccepted' \in [IFactorIds -> [ICodes -> Nat]]
         /\ \A g \in IFactorIds \ {f} : iAccepted'[g] = iAccepted[g]
         /\ FactorOk(row, iAccepted'[f])
<1>1. /\ iFactors[f] \in IFactorRows /\ iAccepted \in [IFactorIds -> [ICodes -> Nat]]
      /\ FactorOk(iFactors[f], iAccepted[f])
  BY DEF IInv, ITypes, FactorsOk
<1>2. /\ iFactors[f].status = "ACTIVE"
      /\ IF code = RecoveryCode THEN iFactors[f].recovery ELSE code > iFactors[f].step
      /\ iAccepted' = [iAccepted EXCEPT ![f][code] = IF @ = 2 THEN 2 ELSE @ + 1]
  BY DEF SecondFactorVerifies
<1>3. iAccepted[f][code] = 0
  BY <1>1, <1>2 DEF FactorOk, ICodes
<1>4. PICK counts : counts = [iAccepted[f] EXCEPT ![code] = 1]
  OBVIOUS
<1>5. /\ counts \in [ICodes -> Nat] /\ counts[code] = 1
      /\ \A c \in ICodes \ {code} : counts[c] = iAccepted[f][c]
  BY <1>1, <1>4
<1>6. iAccepted' = [iAccepted EXCEPT ![f] = counts]
  BY <1>1, <1>2, <1>3, <1>4
<1>7. /\ iAccepted' \in [IFactorIds -> [ICodes -> Nat]] /\ iAccepted'[f] = counts
      /\ \A g \in IFactorIds \ {f} : iAccepted'[g] = iAccepted[g]
  BY <1>1, <1>5, <1>6
<1>8. CASE code = RecoveryCode
  <2>1. row = [iFactors[f] EXCEPT !.recovery = FALSE]
    BY <1>8 DEF FactorAfter
  <2>2. /\ row \in IFactorRows /\ row.status = "ACTIVE" /\ ~row.recovery
        /\ row.step = iFactors[f].step /\ row.step \in 0..IMaxStep
    BY <2>1, <1>1, <1>2 DEF IFactorRows
  <2>3. FactorOk(row, counts)
    BY <2>2, <1>1, <1>5, <1>8, INumbers DEF FactorOk, ICodes, RecoveryCode
  <2> QED BY <2>2, <2>3, <1>2, <1>7
<1>9. CASE code # RecoveryCode
  <2>1. row = [iFactors[f] EXCEPT !.step = code] /\ code \in 1..IMaxStep
    BY <1>9 DEF FactorAfter, ICodes
  <2>2. /\ row \in IFactorRows /\ row.status = "ACTIVE" /\ row.recovery = iFactors[f].recovery
        /\ row.step = code /\ iFactors[f].step \in 0..IMaxStep
    BY <2>1, <1>1, <1>2, INumbers DEF IFactorRows
  <2>3. FactorOk(row, counts)
    BY <2>1, <2>2, <1>1, <1>2, <1>5, <1>9, INumbers DEF FactorOk, ICodes, RecoveryCode
  <2> QED BY <2>2, <2>3, <1>2, <1>7
<1> QED BY <1>8, <1>9

\* One factor's row and its counts move, the others stay.
LEMMA OneFactorMoves ==
  ASSUME IInv, NEW f \in IFactorIds, NEW row \in IFactorRows,
         iFactors' = [iFactors EXCEPT ![f] = row],
         iAccepted' \in [IFactorIds -> [ICodes -> Nat]],
         \A g \in IFactorIds \ {f} : iAccepted'[g] = iAccepted[g], FactorOk(row, iAccepted'[f])
  PROVE  /\ iFactors' \in [IFactorIds -> IFactorRows] /\ FactorsOk'
         /\ (iFactors[f].status = "ACTIVE" => row.status = "ACTIVE") /\ iUser'.mfa = iUser.mfa
              => MfaHasFactor'
<1>1. iFactors \in [IFactorIds -> IFactorRows] /\ FactorsOk /\ MfaHasFactor
  BY DEF IInv, ITypes
<1>2. /\ iFactors' \in [IFactorIds -> IFactorRows] /\ iFactors'[f] = row
      /\ \A g \in IFactorIds \ {f} : iFactors'[g] = iFactors[g]
  BY <1>1
<1>3. FactorsOk'
  BY <1>1, <1>2 DEF FactorsOk
<1>4. ASSUME iFactors[f].status = "ACTIVE" => row.status = "ACTIVE", iUser'.mfa = iUser.mfa, iUser.mfa
      PROVE  \E g \in IFactorIds : iFactors'[g].status = "ACTIVE"
  <2>1. PICK g \in IFactorIds : iFactors[g].status = "ACTIVE"
    BY <1>1, <1>4 DEF MfaHasFactor
  <2>2. iFactors'[g].status = "ACTIVE"
    BY <2>1, <1>2, <1>4
  <2> QED BY <2>2
<1>5. (iFactors[f].status = "ACTIVE" => row.status = "ACTIVE") /\ iUser'.mfa = iUser.mfa
        => MfaHasFactor'
  BY <1>4 DEF MfaHasFactor
<1> QED BY <1>2, <1>3, <1>5

LEMMA ChallengeKeeps ==
  ASSUME IInv, ChallengeRequest PROVE IKept
<1>0. /\ iChallenge \in IChallenges /\ iChallenge.pw \in Nat /\ ITypes /\ VerifiedOnce /\ GuessesCounted
      /\ LoginKnowsPassword /\ SessionsOk /\ FactorsOk /\ MfaHasFactor
  BY DEF IInv, ITypes, IChallenges
<1>1. CASE ChallengeExpires
  <2>1. /\ iChallenge' = [iChallenge EXCEPT !.state = "EXPIRED"]
        /\ UNCHANGED <<iUser, iTokens, loginVars, sessionVars, mfaVars, iCutoff>>
    BY <1>1 DEF ChallengeExpires
  <2>2. iChallenge' \in IChallenges
    BY <2>1, <1>0 DEF IChallenges
  <2>3. ITypes'
    BY <2>1, <2>2, <1>0 DEF ITypes, loginVars, sessionVars, mfaVars
  <2>4. GuessesCounted' /\ LoginKnowsPassword' /\ SessionsOk' /\ FactorsOk' /\ VerifiedOnce'
        /\ MfaHasFactor' /\ DeletionIsFinal
    BY <2>1, <1>0 DEF GuessesCounted, LoginKnowsPassword, SessionsOk, FactorsOk, VerifiedOnce,
       MfaHasFactor, DeletionIsFinal, loginVars, sessionVars, mfaVars
  <2> QED BY <2>3, <2>4 DEF IInv, IKept
<1>2. ASSUME NEW f \in IFactorIds, NEW code \in ICodes, VerifyMfaLogin(f, code) PROVE IKept
  <2>1. PICK s \in ISessionIds : Create_session(s, TRUE, iChallenge.pw)
    BY <1>2 DEF VerifyMfaLogin
  <2>2. /\ SecondFactorVerifies(f, code)
        /\ iFactors' = [iFactors EXCEPT ![f] = FactorAfter(f, code)]
        /\ iChallenge' = [iChallenge EXCEPT !.state = "CONSUMED"]
        /\ UNCHANGED <<iUser, iTokens, loginVars, iCutoff>>
    BY <1>2 DEF VerifyMfaLogin
  <2>3. /\ iSessions' \in [ISessionIds -> ISessionRows] /\ iRefresh' \in [ISessionIds -> IRefreshRows]
        /\ SessionsOk' /\ UNCHANGED iReplayed
    BY <2>1, <2>2, <1>0, SessionOpened
  <2>4. PICK row : row = FactorAfter(f, code)
    OBVIOUS
  <2>5. /\ row \in IFactorRows /\ row.status = "ACTIVE" /\ iFactors[f].status = "ACTIVE"
        /\ iAccepted' \in [IFactorIds -> [ICodes -> Nat]]
        /\ \A g \in IFactorIds \ {f} : iAccepted'[g] = iAccepted[g]
        /\ FactorOk(row, iAccepted'[f])
    BY <2>2, <2>4, CodeAccepted
  <2>6. iFactors' \in [IFactorIds -> IFactorRows] /\ FactorsOk' /\ MfaHasFactor'
    BY <2>2, <2>4, <2>5, OneFactorMoves
  <2>7. iChallenge' \in IChallenges
    BY <2>2, <1>0 DEF IChallenges
  <2>8. ITypes'
    BY <2>2, <2>3, <2>5, <2>6, <2>7, <1>0 DEF ITypes, loginVars
  <2>9. GuessesCounted' /\ LoginKnowsPassword' /\ VerifiedOnce' /\ DeletionIsFinal
    BY <2>2, <1>0 DEF GuessesCounted, LoginKnowsPassword, VerifiedOnce, DeletionIsFinal, loginVars
  <2> QED BY <2>3, <2>6, <2>8, <2>9 DEF IInv, IKept
<1> QED BY <1>1, <1>2 DEF ChallengeRequest

LEMMA FactorKeeps ==
  ASSUME IInv, FactorRequest PROVE IKept
<1>0. /\ iUser \in IUserRows /\ VerifiedOnce /\ iSessions \in [ISessionIds -> ISessionRows] /\ SessionsOk
      /\ iFactors \in [IFactorIds -> IFactorRows] /\ ITypes
  BY DEF IInv, ITypes
<1>1. ASSUME NEW f \in IFactorIds, NEW code \in ICodes, DisableMfa(f, code) PROVE IKept
  <2>1. /\ SecondFactorVerifies(f, code)
        /\ iFactors' = [iFactors EXCEPT ![f] = [FactorAfter(f, code) EXCEPT !.status = "DISABLED"]]
        /\ iUser' = [iUser EXCEPT !.mfa = FALSE]
        /\ UNCHANGED <<iTokens, loginVars, sessionVars, iChallenge, iCutoff>>
    BY <1>1 DEF DisableMfa, MfaOff
  <2>2. PICK after, row : after = FactorAfter(f, code) /\ row = [after EXCEPT !.status = "DISABLED"]
    OBVIOUS
  <2>3. /\ after \in IFactorRows /\ iAccepted' \in [IFactorIds -> [ICodes -> Nat]]
        /\ \A g \in IFactorIds \ {f} : iAccepted'[g] = iAccepted[g]
        /\ FactorOk(after, iAccepted'[f])
    BY <2>1, <2>2, CodeAccepted
  <2>4. /\ row \in IFactorRows /\ row.status = "DISABLED" /\ row.recovery = after.recovery
        /\ row.step = after.step
    BY <2>2, <2>3 DEF IFactorRows
  <2>5. FactorOk(row, iAccepted'[f])
    BY <2>3, <2>4 DEF FactorOk
  <2>6. iFactors' \in [IFactorIds -> IFactorRows] /\ FactorsOk'
    BY <2>1, <2>2, <2>3, <2>4, <2>5, OneFactorMoves
  <2>7. /\ iUser' \in IUserRows /\ iUser'.status = iUser.status /\ iUser'.verified = iUser.verified
        /\ ~iUser'.mfa
    BY <2>1, <1>0 DEF IUserRows
  <2>8. MfaHasFactor'
    BY <2>7 DEF MfaHasFactor
  <2> QED BY <2>1, <2>3, <2>6, <2>7, <2>8, FactorMoves
<1>2. ASSUME NEW f \in IFactorIds, NEW code \in ICodes, NEW s \in ISessionIds,
             ReauthenticateMfa(s, f, code) PROVE IKept
  <2>1. /\ iSessions[s].status = "ACTIVE" /\ SecondFactorVerifies(f, code)
        /\ iFactors' = [iFactors EXCEPT ![f] = FactorAfter(f, code)]
        /\ iSessions' = [iSessions EXCEPT ![s].mfa = TRUE]
        /\ UNCHANGED <<iUser, iTokens, loginVars, iRefresh, iReplayed, iChallenge, iCutoff>>
    BY <1>2 DEF ReauthenticateMfa, IsPrincipal
  <2>2. PICK row : row = FactorAfter(f, code)
    OBVIOUS
  <2>3. /\ row \in IFactorRows /\ row.status = "ACTIVE" /\ iFactors[f].status = "ACTIVE"
        /\ iAccepted' \in [IFactorIds -> [ICodes -> Nat]]
        /\ \A g \in IFactorIds \ {f} : iAccepted'[g] = iAccepted[g]
        /\ FactorOk(row, iAccepted'[f])
    BY <2>1, <2>2, CodeAccepted
  <2>4. iFactors' \in [IFactorIds -> IFactorRows] /\ FactorsOk' /\ MfaHasFactor'
    BY <2>1, <2>2, <2>3, OneFactorMoves
  <2>5. iSessions' \in [ISessionIds -> ISessionRows]
    BY <2>1, <1>0 DEF ISessionRows
  <2>6. \A r \in ISessionIds : /\ iSessions'[r].status = iSessions[r].status
                               /\ iSessions'[r].pw = iSessions[r].pw
                               /\ iSessions[r].mfa => iSessions'[r].mfa
    BY <2>1, <1>0 DEF ISessionRows
  <2>7. SessionsOk'
    BY <2>1, <2>6, <1>0 DEF SessionsOk, SessionOk
  <2>8. ITypes'
    BY <2>1, <2>3, <2>4, <2>5, <1>0 DEF ITypes, loginVars
  <2>9. GuessesCounted' /\ LoginKnowsPassword' /\ VerifiedOnce' /\ DeletionIsFinal
    BY <2>1 DEF IInv, GuessesCounted, LoginKnowsPassword, VerifiedOnce, DeletionIsFinal, loginVars
  <2> QED BY <2>4, <2>7, <2>8, <2>9 DEF IInv, IKept
<1> QED BY <1>1, <1>2 DEF FactorRequest

LEMMA EnrollKeeps ==
  ASSUME IInv, EnrollRequest PROVE IKept
<1>0. /\ iUser \in IUserRows /\ iFactors \in [IFactorIds -> IFactorRows] /\ FactorsOk /\ MfaHasFactor
      /\ iAccepted \in [IFactorIds -> [ICodes -> Nat]]
  BY DEF IInv, ITypes
<1>1. PICK f \in IFactorIds :
        \/ BeginMfaEnrollment(f) \/ EnrollmentCommitted(f) \/ ConfirmationCommitted(f)
        \/ \E step \in 1..IMaxStep : ConfirmMfaEnrollment(f, step)
  BY DEF EnrollRequest
\* Rows that change their status only, away from a state no code was accepted in.
<1>2. ASSUME NEW rows \in [IFactorIds -> IFactorRows], iFactors' = rows,
             \A g \in IFactorIds : /\ rows[g].step = iFactors[g].step
                                   /\ rows[g].recovery = iFactors[g].recovery
                                   /\ \/ rows[g].status = iFactors[g].status
                                      \/ /\ iFactors[g].status \in {"NONE", "INSERTING", "PENDING"}
                                         /\ rows[g].status \in {"INSERTING", "PENDING", "DISABLED"},
             UNCHANGED <<iUser, iTokens, loginVars, sessionVars, iChallenge, iCutoff, iAccepted>>
      PROVE  IKept
  <2>1. FactorsOk'
    <3> SUFFICES ASSUME NEW g \in IFactorIds PROVE FactorOk(rows[g], iAccepted[g])
      BY <1>2 DEF FactorsOk
    <3>1. FactorOk(iFactors[g], iAccepted[g])
      BY <1>0 DEF FactorsOk
    <3> QED BY <3>1, <1>2 DEF FactorOk
  <2>2. MfaHasFactor'
    <3>1. \A g \in IFactorIds : iFactors[g].status = "ACTIVE" => iFactors'[g].status = "ACTIVE"
      BY <1>2
    <3> QED BY <3>1, <1>0, <1>2 DEF MfaHasFactor
  <2> QED BY <2>1, <2>2, <1>0, <1>2, FactorMoves
<1>3. CASE BeginMfaEnrollment(f)
  <2> DEFINE rows == [g \in IFactorIds |->
                IF g = f THEN [NoFactor EXCEPT !.status = "INSERTING"]
                ELSE IF iFactors[g].status = "PENDING" THEN [iFactors[g] EXCEPT !.status = "DISABLED"]
                ELSE iFactors[g]]
  <2>1. /\ iFactors[f] = NoFactor /\ iFactors' = rows
        /\ UNCHANGED <<iUser, iTokens, loginVars, sessionVars, iChallenge, iCutoff, iAccepted>>
    BY <1>3 DEF BeginMfaEnrollment
  <2>2. rows[f] = [iFactors[f] EXCEPT !.status = "INSERTING"] /\ iFactors[f].status = "NONE"
    BY <2>1 DEF NoFactor
  <2>3. ASSUME NEW g \in IFactorIds
        PROVE  /\ rows[g] \in IFactorRows
               /\ rows[g].step = iFactors[g].step /\ rows[g].recovery = iFactors[g].recovery
               /\ \/ rows[g].status = iFactors[g].status
                  \/ /\ iFactors[g].status \in {"NONE", "INSERTING", "PENDING"}
                     /\ rows[g].status \in {"INSERTING", "PENDING", "DISABLED"}
    <3>1. iFactors[g] \in IFactorRows
      BY <1>0
    <3>2. CASE g = f
      BY <3>1, <3>2, <2>2 DEF IFactorRows
    <3>3. CASE g # f /\ iFactors[g].status = "PENDING"
      <4>1. rows[g] = [iFactors[g] EXCEPT !.status = "DISABLED"]
        BY <3>3
      <4> QED BY <4>1, <3>1, <3>3 DEF IFactorRows
    <3>4. CASE g # f /\ iFactors[g].status # "PENDING"
      BY <3>1, <3>4
    <3> QED BY <3>2, <3>3, <3>4
  <2>4. rows \in [IFactorIds -> IFactorRows]
    BY <2>3
  <2> HIDE DEF rows
  <2> QED BY <2>1, <2>3, <2>4, <1>2
<1>4. CASE EnrollmentCommitted(f)
  <2>1. /\ iFactors[f].status = "INSERTING" /\ iFactors' = [iFactors EXCEPT ![f].status = "PENDING"]
        /\ UNCHANGED <<iUser, iTokens, loginVars, sessionVars, iChallenge, iCutoff, iAccepted>>
    BY <1>4 DEF EnrollmentCommitted
  <2>2. PICK rows : rows = [iFactors EXCEPT ![f].status = "PENDING"]
    OBVIOUS
  <2>3. PICK row : row = [iFactors[f] EXCEPT !.status = "PENDING"]
    OBVIOUS
  <2>4. /\ row \in IFactorRows /\ row.status = "PENDING" /\ row.step = iFactors[f].step
        /\ row.recovery = iFactors[f].recovery
    <3>1. iFactors[f] \in IFactorRows
      BY <1>0
    <3> QED BY <3>1, <2>3 DEF IFactorRows
  <2>5. rows[f] = row /\ \A g \in IFactorIds : g # f => rows[g] = iFactors[g]
    BY <2>2, <2>3, <1>0
  <2>6. rows \in [IFactorIds -> IFactorRows]
    BY <2>2, <2>3, <2>4, <1>0
  <2>7. \A g \in IFactorIds : /\ rows[g].step = iFactors[g].step
                              /\ rows[g].recovery = iFactors[g].recovery
                              /\ g # f => rows[g].status = iFactors[g].status
    BY <2>4, <2>5
  <2> QED BY <2>1, <2>2, <2>4, <2>5, <2>6, <2>7, <1>2
<1>5. CASE \E step \in 1..IMaxStep : ConfirmMfaEnrollment(f, step)
  <2>1. PICK step \in 1..IMaxStep : ConfirmMfaEnrollment(f, step)
    BY <1>5
  <2>2. PICK drops : drops = {g \in IFactorIds : iFactors[g].status = "ACTIVE"}
    OBVIOUS
  <2>3. /\ iFactors[f].status = "PENDING"
        /\ iFactors' = [iFactors EXCEPT ![f].status = "CONFIRMING", ![f].step = step, ![f].drops = drops]
        /\ UNCHANGED <<iUser, iTokens, loginVars, sessionVars, iChallenge, iCutoff, iAccepted>>
    BY <2>1, <2>2 DEF ConfirmMfaEnrollment
  <2>4. PICK row : row = [iFactors[f] EXCEPT !.status = "CONFIRMING", !.step = step, !.drops = drops]
    OBVIOUS
  <2>5. iFactors[f] \in IFactorRows
    BY <1>0
  <2>6. iFactors' = [iFactors EXCEPT ![f] = row]
    <3>1. \A g \in IFactorIds : iFactors'[g] = IF g = f THEN row ELSE iFactors[g]
      BY <2>3, <2>4, <1>0
    <3>2. iFactors' = [g \in IFactorIds |-> iFactors'[g]]
      BY <2>3, <1>0
    <3> QED BY <3>1, <3>2, <1>0
  <2>7. step \in 0..IMaxStep /\ drops \subseteq IFactorIds
    BY <2>2, INumbers
  <2>8. row \in IFactorRows /\ row.status = "CONFIRMING" /\ row.step = step
    BY <2>4, <2>5, <2>7 DEF IFactorRows
  <2>9. FactorOk(row, iAccepted[f])
    <3>1. FactorOk(iFactors[f], iAccepted[f])
      BY <1>0 DEF FactorsOk
    <3>2. \A c \in ICodes : iAccepted[f][c] = 0
      BY <3>1, <2>3 DEF FactorOk
    <3>3. row.step # RecoveryCode
      BY <2>8 DEF RecoveryCode
    <3> QED BY <3>2, <3>3, <2>8 DEF FactorOk, ICodes, RecoveryCode
  <2>10. iFactors' \in [IFactorIds -> IFactorRows] /\ FactorsOk' /\ MfaHasFactor'
    BY <2>3, <2>6, <2>8, <2>9, <1>0, OneFactorMoves
  <2> QED BY <2>3, <2>10, <1>0, FactorMoves
<1>6. CASE ConfirmationCommitted(f)
  <2> DEFINE rows == [g \in IFactorIds |->
                IF g = f THEN [iFactors[f] EXCEPT !.status = "ACTIVE", !.drops = {}]
                ELSE IF g \in iFactors[f].drops THEN [iFactors[g] EXCEPT !.status = "DISABLED"]
                ELSE iFactors[g]]
  <2>1. /\ iFactors[f].status = "CONFIRMING" /\ iFactors' = rows
        /\ iUser' = [iUser EXCEPT !.mfa = TRUE]
        /\ iAccepted' = [iAccepted EXCEPT ![f][iFactors[f].step] = @ + 1]
        /\ UNCHANGED <<iTokens, loginVars, sessionVars, iChallenge, iCutoff>>
    BY <1>6 DEF ConfirmationCommitted
  <2>2. iFactors[f] \in IFactorRows /\ FactorOk(iFactors[f], iAccepted[f])
    BY <1>0 DEF FactorsOk
  <2>3. PICK step, counts : step = iFactors[f].step /\ counts = [iAccepted[f] EXCEPT ![step] = @ + 1]
    OBVIOUS
  <2>4. step \in 0..IMaxStep /\ step \in ICodes /\ \A c \in ICodes : iAccepted[f][c] = 0
    BY <2>1, <2>2, <2>3, INumbers DEF IFactorRows, ICodes, RecoveryCode, FactorOk
  <2>5. /\ counts \in [ICodes -> Nat] /\ counts[step] = 1
        /\ \A c \in ICodes \ {step} : counts[c] = 0
    BY <2>3, <2>4, <1>0
  <2>6. /\ iAccepted' = [iAccepted EXCEPT ![f] = counts]
    BY <2>1, <2>3, <1>0
  <2>7. /\ iAccepted' \in [IFactorIds -> [ICodes -> Nat]] /\ iAccepted'[f] = counts
        /\ \A g \in IFactorIds \ {f} : iAccepted'[g] = iAccepted[g]
    BY <2>5, <2>6, <1>0
  <2>8. rows[f] = [status |-> "ACTIVE", step |-> step, recovery |-> iFactors[f].recovery, drops |-> {}]
    BY <2>2, <2>3 DEF IFactorRows
  <2>9. /\ rows[f] \in IFactorRows /\ rows[f].status = "ACTIVE" /\ rows[f].step = step
        /\ rows[f].recovery = iFactors[f].recovery
    BY <2>2, <2>4, <2>8 DEF IFactorRows
  <2>10. step # RecoveryCode
    BY <2>1, <2>2, <2>3 DEF FactorOk
  <2>11. FactorOk(rows[f], counts)
    BY <2>4, <2>5, <2>9, <2>10, INumbers DEF FactorOk, ICodes, RecoveryCode
  <2>12. ASSUME NEW g \in IFactorIds, g # f
         PROVE  rows[g] \in IFactorRows /\ FactorOk(rows[g], iAccepted[g])
    <3>1. iFactors[g] \in IFactorRows /\ FactorOk(iFactors[g], iAccepted[g])
      BY <1>0 DEF FactorsOk
    <3>2. CASE g \in iFactors[f].drops
      <4>1. rows[g] = [iFactors[g] EXCEPT !.status = "DISABLED"]
        BY <3>2, <2>12
      <4>2. /\ rows[g] \in IFactorRows /\ rows[g].status = "DISABLED"
            /\ rows[g].step = iFactors[g].step /\ rows[g].recovery = iFactors[g].recovery
        BY <4>1, <3>1 DEF IFactorRows
      <4> QED BY <4>2, <3>1 DEF FactorOk
    <3>3. CASE g \notin iFactors[f].drops
      <4>1. rows[g] = iFactors[g]
        BY <3>3, <2>12
      <4> QED BY <4>1, <3>1
    <3> QED BY <3>2, <3>3
  <2>13. rows \in [IFactorIds -> IFactorRows]
    BY <2>9, <2>12
  <2> HIDE DEF rows
  <2>14. FactorsOk'
    <3> SUFFICES ASSUME NEW g \in IFactorIds PROVE FactorOk(rows[g], iAccepted'[g])
      BY <2>1 DEF FactorsOk
    <3> QED BY <2>7, <2>11, <2>12
  <2>15. MfaHasFactor'
    BY <2>1, <2>9 DEF MfaHasFactor
  <2>16. iUser' \in IUserRows /\ iUser'.status = iUser.status /\ iUser'.verified = iUser.verified
    BY <2>1, <1>0 DEF IUserRows
  <2> QED BY <2>1, <2>7, <2>13, <2>14, <2>15, <2>16, FactorMoves
<1> QED BY <1>1, <1>3, <1>4, <1>5, <1>6

-----------------------------------------------------------------------------
\* Every request, and what an account promises.
LEMMA AccountStep == IInv /\ [INext]_iVars => IKept
<1> SUFFICES ASSUME IInv, [INext]_iVars PROVE IKept
  OBVIOUS
<1>1. CASE UNCHANGED iVars
  <2> USE <1>1 DEF iVars, loginVars, sessionVars, mfaVars
  <2>1. ITypes'
    BY DEF IInv, ITypes
  <2>2. VerifiedOnce' /\ GuessesCounted' /\ LoginKnowsPassword' /\ SessionsOk'
    BY DEF IInv, VerifiedOnce, GuessesCounted, LoginKnowsPassword, SessionsOk
  <2>3. FactorsOk' /\ MfaHasFactor' /\ DeletionIsFinal
    BY DEF IInv, FactorsOk, MfaHasFactor, DeletionIsFinal
  <2> QED BY <2>1, <2>2, <2>3 DEF IInv, IKept
<1> QED BY <1>1, EmailKeeps, PasswordKeeps, LoginKeeps, LockKeeps, SessionKeeps,
           AccountDeletionKeeps, ChallengeKeeps, EnrollKeeps, FactorKeeps DEF INext

LEMMA AccountStepKept ==
  IInv /\ [INext]_iVars =>
    /\ ( /\ RefreshFamily
         /\ GuessesBounded
         /\ ResetCutsOffOldPassword
         /\ SecondFactorUsedOnce
         /\ MfaHasFactor )'
    /\ DeletionIsFinal
<1>1. IInv => RefreshFamily /\ GuessesBounded /\ ResetCutsOffOldPassword /\ SecondFactorUsedOnce
              /\ MfaHasFactor
  BY AccountPromised
<1>2. IInv' => (RefreshFamily /\ GuessesBounded /\ ResetCutsOffOldPassword /\ SecondFactorUsedOnce
              /\ MfaHasFactor)'
  BY <1>1, PTL
<1> QED BY <1>2, AccountStep DEF IKept

\* A session has one valid refresh token and ends when a used one comes back,
\* guesses, old passwords and used codes open nothing, and a deletion is not
\* undone, for any limits, sessions, tokens, factors and codes (domain/identity).
THEOREM AccountsKeepTheirPromise == ISpec => AccountPromise
BY AccountInitial, AccountStep, AccountStepKept, PTL DEF ISpec, AccountPromise, IKept
=============================================================================
