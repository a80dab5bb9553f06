----------------------------- MODULE Workspaces -----------------------------
(***************************************************************************)
(* Members, roles and invitations of one workspace (domain/identity,       *)
(* WorkspaceService).  The requests that change members lock the actor's   *)
(* membership, role and workspace rows and so run one at a time; inviting  *)
(* and the owner check of an account deletion read without a lock.         *)
(***************************************************************************)
EXTENDS Integers, FiniteSets

CONSTANTS
  MPeople,              \* User rows
  MCreator,             \* who created the workspace
  MInvited,             \* bound: people who are invited
  MMaxInvitations       \* bound: WorkspaceInvitation rows of a person

ASSUME MNames == MInvited \subseteq MPeople

VARIABLES
  mAccounts,            \* User: status, and where its deletion request stands
  mMembers,             \* Membership of a person: status and role key
  mInvitations,         \* WorkspaceInvitation rows of a person
  mManages,             \* whether the custom role has workspace.manage
  mWorkspace,           \* Workspace.status
  mLast                 \* history: whether a transfer or an acceptance ran last

mVars == <<mAccounts, mMembers, mInvitations, mManages, mWorkspace, mLast>>

MRoles == {"owner", "admin", "custom"}
NoInvitation == [status |-> "NONE", role |-> "custom"]
MInvitationIds == 1..MMaxInvitations
\* An invitation whose time is over still says PENDING in its row.
MPending == {"PENDING", "EXPIRED"}

MInit ==
  /\ mMembers = [p \in MPeople |->
         IF p = MCreator THEN [status |-> "ACTIVE", role |-> "owner"]
         ELSE [status |-> "NONE", role |-> "custom"]]
  /\ mAccounts = [p \in MPeople |-> "ACTIVE"]
  /\ mInvitations = [p \in MInvited |-> [i \in MInvitationIds |-> NoInvitation]]
  /\ mManages = FALSE
  /\ mWorkspace = "ACTIVE"
  /\ mLast = "other"

IsMember(p) == mMembers[p].status = "ACTIVE"
IsOwner(p) == IsMember(p) /\ mMembers[p].role = "owner"
Owners == {p \in MPeople : IsOwner(p)}
\* resolve_principal, then authorize(WORKSPACE_MANAGE).
CanManage(p) ==
  /\ mAccounts[p] = "ACTIVE" /\ IsMember(p) /\ mWorkspace = "ACTIVE"
  /\ mMembers[p].role \in {"owner", "admin"} \cup (IF mManages THEN {"custom"} ELSE {})

Done(request) == mLast' = request

-----------------------------------------------------------------------------
(* Invitations.  The new row is seen by others once it is committed.       *)

InviteMember(actor, p, i, role) ==
  /\ CanManage(actor) /\ role # "owner" /\ ~IsMember(p)
  /\ mInvitations[p][i] = NoInvitation /\ \A j \in 1..(i - 1) : mInvitations[p][j] # NoInvitation
  /\ mInvitations' = [mInvitations EXCEPT ![p] =
       [j \in MInvitationIds |->
          IF j = i THEN [status |-> "INSERTING", role |-> role]
          ELSE IF @[j].status \in MPending THEN [@[j] EXCEPT !.status = "CANCELLED"] ELSE @[j]]]
  /\ Done("other") /\ UNCHANGED <<mAccounts, mMembers, mManages, mWorkspace>>

InvitationCommitted(p, i) ==
  /\ mInvitations[p][i].status = "INSERTING"
  /\ mInvitations' = [mInvitations EXCEPT ![p][i].status = "PENDING"]
  /\ Done("other") /\ UNCHANGED <<mAccounts, mMembers, mManages, mWorkspace>>

InvitationExpires(p, i) ==
  /\ mInvitations[p][i].status = "PENDING"
  /\ mInvitations' = [mInvitations EXCEPT ![p][i].status = "EXPIRED"]
  /\ Done("other") /\ UNCHANGED <<mAccounts, mMembers, mManages, mWorkspace>>

CancelInvitation(actor, p, i) ==
  /\ CanManage(actor) /\ mInvitations[p][i].status \in MPending
  /\ mInvitations' = [mInvitations EXCEPT ![p][i].status = "CANCELLED"]
  /\ Done("other") /\ UNCHANGED <<mAccounts, mMembers, mManages, mWorkspace>>

Acceptable(invitation) == invitation.status = "PENDING"

\* Whoever is a member already gets the role of the invitation too.
AcceptInvitation(p, i) ==
  /\ mAccounts[p] = "ACTIVE" /\ Acceptable(mInvitations[p][i])
  /\ mMembers' = [mMembers EXCEPT ![p] = [status |-> "ACTIVE", role |-> mInvitations[p][i].role]]
  /\ mInvitations' = [mInvitations EXCEPT ![p][i].status = "ACCEPTED"]
  /\ Done("accept") /\ UNCHANGED <<mAccounts, mManages, mWorkspace>>

-----------------------------------------------------------------------------
(* Members and roles.                                                      *)

\* _protect_last_owner
\* Deviation: the owner who asks may go.
ProtectOthers(p, actor) == p = actor \/ \E q \in MPeople \ {p} : IsOwner(q)

ProtectLastOwner(p, actor) == \E q \in MPeople \ {p} : IsOwner(q)

RoleAllowed(p, role) == role = "owner" => IsOwner(p)

ChangeMemberRole(actor, p, role) ==
  /\ CanManage(actor) /\ IsMember(p) /\ RoleAllowed(p, role)
  /\ IsOwner(p) /\ role # "owner" => ProtectLastOwner(p, actor)
  /\ mMembers' = [mMembers EXCEPT ![p].role = role]
  /\ Done("other") /\ UNCHANGED <<mAccounts, mInvitations, mManages, mWorkspace>>

RemoveMember(actor, p) ==
  /\ CanManage(actor) /\ IsMember(p)
  /\ IsOwner(p) => ProtectLastOwner(p, actor)
  /\ mMembers' = [mMembers EXCEPT ![p].status = "REMOVED"]
  /\ Done("other") /\ UNCHANGED <<mAccounts, mInvitations, mManages, mWorkspace>>

\* The actor passed MFA in the last five minutes, which it may do at any time
\* (Identity).  The target becomes owner, then the actor admin; both may be one row.
TransferOwnership(actor, p) ==
  /\ CanManage(actor) /\ IsOwner(actor) /\ IsMember(p)
  /\ mMembers' = [[mMembers EXCEPT ![p].role = "owner"] EXCEPT ![actor].role = "admin"]
  /\ Done("transfer") /\ UNCHANGED <<mAccounts, mInvitations, mManages, mWorkspace>>

UpdateRole(actor, manages) ==
  /\ CanManage(actor) /\ mManages' = manages
  /\ Done("other") /\ UNCHANGED <<mAccounts, mMembers, mInvitations, mWorkspace>>

ScheduleWorkspaceDeletion(actor) ==
  /\ CanManage(actor) /\ IsOwner(actor)
  /\ mWorkspace' = "DELETION_SCHEDULED"
  /\ Done("other") /\ UNCHANGED <<mAccounts, mMembers, mInvitations, mManages>>

\* request_account_deletion: the owner check, and the rest of the handler.
DeletionChecked(p) ==
  /\ mAccounts[p] = "ACTIVE" /\ ~IsOwner(p)
  /\ mAccounts' = [mAccounts EXCEPT ![p] = "LEAVING"]
  /\ Done("other") /\ UNCHANGED <<mMembers, mInvitations, mManages, mWorkspace>>

DeletionCommitted(p) ==
  /\ mAccounts[p] = "LEAVING"
  /\ mAccounts' = [mAccounts EXCEPT ![p] = "DELETION_PENDING"]
  /\ Done("other") /\ UNCHANGED <<mMembers, mInvitations, mManages, mWorkspace>>

MNext ==
  \/ \E p \in MPeople :
       \/ DeletionChecked(p) \/ DeletionCommitted(p) \/ ScheduleWorkspaceDeletion(p)
       \/ \E manages \in BOOLEAN : UpdateRole(p, manages)
  \/ \E p \in MInvited, i \in MInvitationIds :
       InvitationCommitted(p, i) \/ InvitationExpires(p, i) \/ AcceptInvitation(p, i)
  \/ \E actor, p \in MPeople :
       \/ RemoveMember(actor, p) \/ TransferOwnership(actor, p)
       \/ \E role \in MRoles : ChangeMemberRole(actor, p, role)
  \/ \E actor \in MPeople, p \in MInvited, i \in MInvitationIds :
       CancelInvitation(actor, p, i) \/ \E role \in MRoles : InviteMember(actor, p, i, role)

MSpec == MInit /\ [][MNext]_mVars

-----------------------------------------------------------------------------
(* Properties.                                                             *)

\* A workspace never has two owners: no role change, invitation or transfer
\* makes a second one, in whatever order they come.
AtMostOneOwner == Cardinality(Owners) <= 1

\* _protect_last_owner: no role change and no removal takes a workspace's last
\* owner.  (A transfer to oneself and an invitation accepted by an owner do.)
OwnerNotRemoved ==
  Owners # {} /\ Owners' = {} => mLast' \in {"transfer", "accept"}

\* An invitation that was used, cancelled or replaced stays so, and one that has
\* expired can only be cancelled: cancelling races with accepting and only one wins.
InvitationIsFinal ==
  \A p \in MInvited : \A i \in MInvitationIds :
    /\ mInvitations[p][i].status \in {"ACCEPTED", "CANCELLED"} =>
         mInvitations'[p][i] = mInvitations[p][i]
    /\ mInvitations[p][i].status = "EXPIRED" =>
         mInvitations'[p][i].status \in {"EXPIRED", "CANCELLED"}

\* What a workspace promises: one owner, whom nobody can remove, and invitations that
\* end once (domain/identity, WorkspaceService).
MembershipPromise ==
  [][ /\ AtMostOneOwner'
      /\ OwnerNotRemoved
      /\ InvitationIsFinal ]_mVars

=============================================================================
