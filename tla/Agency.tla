------------------------------- MODULE Agency -------------------------------
(***************************************************************************)
(* Agencies and their clients (domain/b2b): client relationships, portal   *)
(* invitations and the grants they become, and the provisioning of client  *)
(* workspaces by a worker that asks a provider under the request's id.     *)
(***************************************************************************)
EXTENDS Integers, FiniteSets

CONSTANTS
  AgClients,            \* client workspaces
  AgUsers,              \* users of the client workspaces
  AgInvitations,        \* PortalInvitation rows
  AgScopes,             \* PORTAL_ALLOWED_SCOPES
  AgForbidden,          \* PORTAL_FORBIDDEN_SCOPES
  AgRequests,           \* ClientProvisioningRequest rows
  AgMaxMsgs,            \* bound: messages of one request
  AgMaxLost             \* bound: workers and enqueues lost

VARIABLES
  agClients,            \* AgencyClient: permissions of an active relationship
  agInvitations,        \* PortalInvitation rows
  agGrants,             \* PortalAccessGrant by client and user: its scopes
  agRequests,           \* ClientProvisioningRequest: state
  agProvisioned,        \* workspaces the provider made, by request
  agMsgs, agLost

agVars == <<agClients, agInvitations, agGrants, agRequests, agProvisioned, agMsgs, agLost>>
agPortalVars == <<agClients, agInvitations, agGrants>>
agWorkVars == <<agRequests, agProvisioned, agMsgs, agLost>>

NoInvitation == [state |-> "NONE", client |-> "none", scopes |-> {}, acceptedBy |-> "none", live |-> FALSE]

AgInit ==
  /\ agClients = [c \in AgClients |-> {}]
  /\ agInvitations = [i \in AgInvitations |-> NoInvitation]
  /\ agGrants = [g \in AgClients \X AgUsers |-> {}]
  /\ agRequests = [r \in AgRequests |-> "NONE"]
  /\ agProvisioned = [r \in AgRequests |-> 0]
  /\ agMsgs = [r \in AgRequests |-> 0]
  /\ agLost = 0

AgLose == agLost < AgMaxLost /\ agLost' = agLost + 1

-----------------------------------------------------------------------------

\* A client that is added again answers with the relationship there is.
AddClient(c, permissions) ==
  /\ agClients[c] = {} /\ permissions # {}
  /\ agClients' = [agClients EXCEPT ![c] = permissions]
  /\ UNCHANGED <<agInvitations, agGrants, agWorkVars>>

AuthorizePortalScopes(requested, permissions) ==
  /\ requested # {}
  /\ requested \cap AgForbidden = {}
  /\ requested \subseteq permissions \cap AgScopes

IssuePortalInvitation(i, c, scopes) ==
  /\ agInvitations[i] = NoInvitation
  /\ agClients[c] # {}
  /\ AuthorizePortalScopes(scopes, agClients[c])
  /\ agInvitations' = [agInvitations EXCEPT ![i] =
       [state |-> "PENDING", client |-> c, scopes |-> scopes, acceptedBy |-> "none", live |-> TRUE]]
  /\ UNCHANGED <<agClients, agGrants, agWorkVars>>

InvitationExpires(i) ==
  /\ agInvitations[i].live
  /\ agInvitations' = [agInvitations EXCEPT ![i].live = FALSE]
  /\ UNCHANGED <<agClients, agGrants, agWorkVars>>

\* Deviation: the state of the invitation is not looked at.
AcceptsLive(invitation) == invitation.live

Accepts(invitation) == invitation.state = "PENDING" /\ invitation.live

\* A user who has a grant keeps it as it is: the invitation is used up and its
\* scopes are not added.
AcceptPortalInvitation(i, user) ==
  LET g == <<agInvitations[i].client, user>>
  IN  /\ Accepts(agInvitations[i])
      /\ agInvitations' = [agInvitations EXCEPT ![i].state = "ACCEPTED", ![i].acceptedBy = user]
      /\ agGrants' = [agGrants EXCEPT ![g] = IF @ # {} THEN @ ELSE agInvitations[i].scopes]
      /\ UNCHANGED <<agClients, agWorkVars>>

-----------------------------------------------------------------------------

EnqueueClientProvisioning(r) ==
  \/ agMsgs[r] < AgMaxMsgs /\ agMsgs' = [agMsgs EXCEPT ![r] = @ + 1] /\ UNCHANGED agLost
  \/ AgLose /\ UNCHANGED agMsgs

\* The router enqueues a request it finds again as well.
QueueClientProvisioning(r) ==
  /\ agRequests' = [agRequests EXCEPT ![r] = IF @ = "NONE" THEN "QUEUED" ELSE @]
  /\ EnqueueClientProvisioning(r)
  /\ UNCHANGED <<agProvisioned, agPortalVars>>

AcknowledgeProvisioning(r) ==
  \/ agMsgs' = [agMsgs EXCEPT ![r] = @ - 1] /\ UNCHANGED agLost
  \/ AgLose /\ UNCHANGED agMsgs

\* The provider answers a repeated request id with the workspace it made.
ProvisionOnce(n) == 1

\* RUNNING is only ever seen inside the transaction.
ProvisioningRuns == {"QUEUED", "RUNNING"}

ExecuteClientProvisioning(r, made, state) ==
  /\ agMsgs[r] > 0
  /\ agRequests[r] \in ProvisioningRuns
  /\ state = "SUCCEEDED" => made
  /\ agProvisioned' = [agProvisioned EXCEPT ![r] = IF made THEN ProvisionOnce(@) ELSE @]
  /\ agRequests' = [agRequests EXCEPT ![r] = state]
  /\ AcknowledgeProvisioning(r)
  /\ UNCHANGED agPortalVars

ReturnProvisioning(r) ==
  /\ agMsgs[r] > 0
  /\ agRequests[r] \notin ProvisioningRuns
  /\ AcknowledgeProvisioning(r)
  /\ UNCHANGED <<agRequests, agProvisioned, agPortalVars>>

\* The worker is lost with or without a workspace made, and the message comes back; or
\* the commit fails, and it does not.
LostProvisioning(r, made) ==
  /\ agMsgs[r] > 0
  /\ agRequests[r] \in ProvisioningRuns
  /\ AgLose
  /\ agProvisioned' = [agProvisioned EXCEPT ![r] = IF made THEN ProvisionOnce(@) ELSE @]
  /\ agMsgs' \in {agMsgs, [agMsgs EXCEPT ![r] = @ - 1]}
  /\ UNCHANGED <<agRequests, agPortalVars>>

PortalRequest ==
  \/ \E c \in AgClients, p \in SUBSET (AgScopes \cup AgForbidden) :
       \/ AddClient(c, p)
       \/ \E i \in AgInvitations : IssuePortalInvitation(i, c, p)
  \/ \E i \in AgInvitations : InvitationExpires(i) \/ \E u \in AgUsers : AcceptPortalInvitation(i, u)

ProvisioningRequest == \E r \in AgRequests : QueueClientProvisioning(r)

AgWorker ==
  \E r \in AgRequests :
    \/ \E made \in BOOLEAN, state \in {"SUCCEEDED", "FAILED"} : ExecuteClientProvisioning(r, made, state)
    \/ ReturnProvisioning(r)
    \/ \E made \in BOOLEAN : LostProvisioning(r, made)

AgNext == PortalRequest \/ ProvisioningRequest \/ AgWorker
AgSpec == AgInit /\ [][AgNext]_agVars

-----------------------------------------------------------------------------

\* A grant holds what one invitation its user accepted offered, within what the
\* relationship permits and never a forbidden scope, however many invitations
\* the user accepts later (accept_portal_invitation).
GrantsWithinRelationship ==
  \A c \in AgClients, u \in AgUsers :
    agGrants[<<c, u>>] # {} =>
      /\ agGrants[<<c, u>>] \subseteq agClients[c] \ AgForbidden
      /\ \E i \in AgInvitations :
           /\ agInvitations[i].client = c /\ agInvitations[i].acceptedBy = u
           /\ agInvitations[i].scopes = agGrants[<<c, u>>]

\* An invitation lets one user in, once.
InvitationUsedOnce ==
  \A i \in AgInvitations : agInvitations[i].state = "ACCEPTED" =>
    agInvitations'[i].acceptedBy = agInvitations[i].acceptedBy

\* One workspace per request however often its worker is lost, its message
\* repeated or its key used again, and a success is one (execute_client_provisioning).
OneWorkspacePerRequest ==
  \A r \in AgRequests :
    agProvisioned[r] <= 1 /\ (agRequests[r] = "SUCCEEDED" => agProvisioned[r] = 1)

\* What became of a request is final: a message that comes later changes nothing.
ProvisioningIsFinal ==
  \A r \in AgRequests : agRequests[r] \in {"SUCCEEDED", "FAILED"} =>
    agRequests'[r] = agRequests[r]

\* What agencies promise: portal access stays within the relationship, and a client
\* gets one workspace (domain/b2b).
AgencyPromise ==
  [][ /\ ( /\ GrantsWithinRelationship
           /\ OneWorkspacePerRequest )'
      /\ InvitationUsedOnce
      /\ ProvisioningIsFinal ]_agVars

=============================================================================
