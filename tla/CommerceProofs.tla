--------------------------- MODULE CommerceProofs ---------------------------
(***************************************************************************)
(* Proofs about Payments, Agency, Webhooks and AdminOps: what each of them *)
(* promises, for any number of rows, workers and messages.                 *)
(***************************************************************************)
EXTENDS Webhooks, Payments, Agency, AdminOps, FiniteSetTheorems, SequenceTheorems, TLAPS

-----------------------------------------------------------------------------
(* Payments.                                                               *)

PayRows == [state : {"NONE", "PENDING_PROVIDER"} \cup PaySettled, hash : PayBodies \cup {"none"}]

PayTypes ==
  /\ payCommands \in [PayCommands -> PayRows]
  /\ payCheckouts \in [PayCommands -> Nat]
  /\ payMsgs \in [PayCommands -> Nat]
  /\ payLost \in [PayCommands -> Nat]
  /\ payEvents \in [PayEvents -> PayBodies \cup {"none"}]
  /\ payCalls \in [PayCallers -> {NoCall} \cup [event : PayEvents, body : PayBodies]]
  /\ payAnswers \in [PayEvents -> SUBSET PayBodies]

\* What a stored event and a request in progress rely on is in the archive.
ArchivedFirst ==
  /\ \A v \in PayEvents : payEvents[v] # "none" => <<v, payEvents[v]>> \in payArchive
  /\ \A r \in PayCallers :
       payCalls[r] # NoCall => <<payCalls[r].event, payCalls[r].body>> \in payArchive

PayInv ==
  /\ PayTypes
  /\ OneCheckoutPerCommand
  /\ AnswersMatchStore
  /\ NoPaymentForgotten
  /\ ArchivedFirst

LEMMA PayInitInv == PayInit => PayInv
BY PayHashes DEF PayInit, PayInv, PayTypes, OneCheckoutPerCommand, AnswersMatchStore, NoPaymentForgotten,
       ArchivedFirst, NoCommand, PayRows

\* A request or a worker of one command.
LEMMA PayIntentKeeps ==
  ASSUME PayInv, PayRequest \/ PayWorker
  PROVE  PayInv' /\ PaymentOutcomeIsFinal
<1> USE DEF PayInv, PayTypes
<1>1. UNCHANGED payEventVars
  BY DEF PayRequest, PayWorker, QueuePaymentIntent, ExecutePaymentIntent, ReturnPayment, LostAfterCheckout
<1>2. AnswersMatchStore' /\ ArchivedFirst'
  BY <1>1 DEF AnswersMatchStore, ArchivedFirst, payEventVars
<1>3. ASSUME NEW c \in PayCommands, NEW h \in PayBodies, QueuePaymentIntent(c, h)
      PROVE  PayInv' /\ PaymentOutcomeIsFinal
  <2>0. payCommands' \in [PayCommands -> PayRows]
    BY <1>3 DEF QueuePaymentIntent, QueueOnce, PayRows
  <2>1. PayTypes'
    BY <1>1, <1>3, <2>0 DEF QueuePaymentIntent, EnqueuePaymentIntent, PayLose, payEventVars
  <2>2. OneCheckoutPerCommand' /\ PaymentOutcomeIsFinal
    BY <1>3 DEF QueuePaymentIntent, QueueOnce, NoCommand, OneCheckoutPerCommand, PaymentOutcomeIsFinal,
                PaySettled
  <2>3. NoPaymentForgotten'
    BY <1>3 DEF QueuePaymentIntent, QueueOnce, EnqueuePaymentIntent, PayLose, NoPaymentForgotten
  <2> QED BY <1>2, <2>1, <2>2, <2>3
<1>4. ASSUME NEW c \in PayCommands, NEW outcome \in CheckoutOutcomes, ExecutePaymentIntent(c, outcome)
      PROVE  PayInv' /\ PaymentOutcomeIsFinal
  <2>0. /\ outcome.made \in BOOLEAN /\ outcome.state \in PaySettled
        /\ outcome.state = "PROVIDER_ACCEPTED" => outcome.made
    <3>1. outcome.state \in PaySettled
      BY DEF CheckoutOutcomes, PaySettled
    <3>2. outcome.made = TRUE \/ outcome.made = FALSE
      BY DEF CheckoutOutcomes
    <3>3. outcome.state = "PROVIDER_ACCEPTED" => outcome.made = TRUE
      BY DEF CheckoutOutcomes
    <3> QED BY <3>1, <3>2, <3>3
  <2>4. payCommands' \in [PayCommands -> PayRows]
    BY <1>4, <2>0 DEF ExecutePaymentIntent, PayRows
  <2>1. PayTypes'
    BY <1>1, <1>4, <2>4 DEF ExecutePaymentIntent, CheckoutsAfter, CheckoutOnce, AcknowledgePayment, PayLose,
                            payEventVars
  <2>2. OneCheckoutPerCommand' /\ PaymentOutcomeIsFinal
    BY <1>4, <2>0 DEF ExecutePaymentIntent, CheckoutsAfter, CheckoutOnce, OneCheckoutPerCommand,
                      PaymentOutcomeIsFinal, PaySettled
  <2>3. NoPaymentForgotten'
    BY <1>4, <2>0 DEF ExecutePaymentIntent, AcknowledgePayment, PayLose, NoPaymentForgotten, PaySettled
  <2> QED BY <1>2, <2>1, <2>2, <2>3
<1>5. ASSUME NEW c \in PayCommands, ReturnPayment(c)
      PROVE  PayInv' /\ PaymentOutcomeIsFinal
  <2>1. PayTypes'
    BY <1>1, <1>5 DEF ReturnPayment, AcknowledgePayment, PayLose, PaySettled, payEventVars
  <2>2. OneCheckoutPerCommand' /\ PaymentOutcomeIsFinal
    BY <1>5 DEF ReturnPayment, OneCheckoutPerCommand, PaymentOutcomeIsFinal, PaySettled
  <2>3. NoPaymentForgotten'
    BY <1>5 DEF ReturnPayment, AcknowledgePayment, PayLose, NoPaymentForgotten, PaySettled
  <2> QED BY <1>2, <2>1, <2>2, <2>3
<1>6. ASSUME NEW c \in PayCommands, NEW made \in BOOLEAN, LostAfterCheckout(c, made)
      PROVE  PayInv' /\ PaymentOutcomeIsFinal
  BY <1>1, <1>2, <1>6 DEF LostAfterCheckout, CheckoutsAfter, CheckoutOnce, PayLose, OneCheckoutPerCommand,
     NoPaymentForgotten, PaymentOutcomeIsFinal, PaySettled, payEventVars
<1> QED BY <1>3, <1>4, <1>5, <1>6 DEF PayRequest, PayWorker

\* A delivery of an event; a second insert of it is refused, so what was answered stands.
LEMMA PayEventKeeps ==
  ASSUME PayInv, ReceivePaymentEvent
  PROVE  PayInv' /\ PaymentOutcomeIsFinal
<1> USE DEF PayInv, PayTypes
<1>1. UNCHANGED <<payIntentVars, payLost>>
  BY DEF ReceivePaymentEvent, IngestArchives, IngestRepeats, IngestInserts, IngestFails
<1>2. OneCheckoutPerCommand' /\ NoPaymentForgotten' /\ PaymentOutcomeIsFinal
  BY <1>1 DEF OneCheckoutPerCommand, NoPaymentForgotten, PaymentOutcomeIsFinal, payIntentVars
<1>3. ASSUME NEW r \in PayCallers, NEW v \in PayEvents, NEW b \in PayBodies, IngestArchives(r, v, b)
      PROVE  PayInv'
  BY <1>1, <1>2, <1>3 DEF IngestArchives, AnswersMatchStore, ArchivedFirst, payIntentVars
<1>4. ASSUME NEW r \in PayCallers, NEW v \in PayEvents, NEW b \in PayBodies, IngestRepeats(r, v, b)
      PROVE  PayInv'
  BY <1>1, <1>2, <1>4, PayHashes DEF IngestRepeats, AnswersSame, AnswersMatchStore, ArchivedFirst, payIntentVars
<1>5. ASSUME NEW r \in PayCallers, IngestInserts(r)
      PROVE  PayInv'
  BY <1>1, <1>2, <1>5, PayHashes DEF IngestInserts, InsertOnce, AnswersMatchStore, ArchivedFirst, payIntentVars
<1>6. ASSUME NEW r \in PayCallers, IngestFails(r)
      PROVE  PayInv'
  BY <1>1, <1>2, <1>6 DEF IngestFails, AnswersMatchStore, ArchivedFirst, payIntentVars
<1> QED BY <1>2, <1>3, <1>4, <1>5, <1>6 DEF ReceivePaymentEvent

LEMMA PayStep == PayInv /\ [PayNext]_payVars => PayInv' /\ [PaymentOutcomeIsFinal]_payVars
<1> SUFFICES ASSUME PayInv, [PayNext]_payVars PROVE PayInv' /\ [PaymentOutcomeIsFinal]_payVars
  OBVIOUS
<1>1. CASE PayNext
  BY <1>1, PayIntentKeeps, PayEventKeeps DEF PayNext
<1>2. CASE UNCHANGED payVars
  BY <1>2 DEF payVars, PayInv, PayTypes, OneCheckoutPerCommand, AnswersMatchStore, NoPaymentForgotten,
              ArchivedFirst
<1> QED BY <1>1, <1>2

\* One checkout and one outcome for a command, and an acknowledged event is the stored
\* and archived one, however many workers, requests and losses there are
\* (execute_payment_intent, ingest_payment_event).
THEOREM PaymentsKeepTheirPromise == PaySpec => PaymentPromise
<1>1. PayInv /\ [PayNext]_payVars =>
        [ /\ ( /\ OneCheckoutPerCommand /\ AnswersMatchStore /\ NoPaymentForgotten )'
          /\ PaymentOutcomeIsFinal ]_payVars
  BY PayStep DEF PayInv
<1> QED BY <1>1, PayInitInv, PayStep, PTL DEF PaySpec, PaymentPromise

-----------------------------------------------------------------------------
(* Agency.                                                                 *)

AgInvitationRows ==
  [state : {"NONE", "PENDING", "ACCEPTED"}, client : AgClients \cup {"none"},
   scopes : SUBSET (AgScopes \cup AgForbidden), acceptedBy : AgUsers \cup {"none"}, live : BOOLEAN]

AgPortalTypes ==
  /\ agClients \in [AgClients -> SUBSET (AgScopes \cup AgForbidden)]
  /\ agInvitations \in [AgInvitations -> AgInvitationRows]
  /\ agGrants \in [AgClients \X AgUsers -> SUBSET (AgScopes \cup AgForbidden)]

AgWorkTypes ==
  /\ agRequests \in [AgRequests -> {"NONE", "SUCCEEDED", "FAILED"} \cup ProvisioningRuns]
  /\ agProvisioned \in [AgRequests -> Nat]
  /\ agMsgs \in [AgRequests -> Nat]
  /\ agLost \in Nat

\* An invitation offers what the relationship permits, then and ever after.
OffersWithinRelationship ==
  \A i \in AgInvitations : agInvitations[i].state # "NONE" =>
    /\ agInvitations[i].client \in AgClients
    /\ agInvitations[i].scopes \subseteq agClients[agInvitations[i].client] \ AgForbidden
    /\ agClients[agInvitations[i].client] # {}

\* A grant stems from an invitation that was accepted, and so is used up.
GrantsStemFromAccepted ==
  \A c \in AgClients, u \in AgUsers :
    agGrants[<<c, u>>] # {} =>
      \E i \in AgInvitations :
        /\ agInvitations[i].state = "ACCEPTED"
        /\ agInvitations[i].client = c /\ agInvitations[i].acceptedBy = u
        /\ agInvitations[i].scopes = agGrants[<<c, u>>]

AgInv ==
  /\ AgPortalTypes /\ AgWorkTypes
  /\ OffersWithinRelationship
  /\ GrantsStemFromAccepted
  /\ OneWorkspacePerRequest

LEMMA AgGrants == AgInv => GrantsWithinRelationship
<1> SUFFICES ASSUME AgInv, NEW c \in AgClients, NEW u \in AgUsers, agGrants[<<c, u>>] # {}
             PROVE  /\ agGrants[<<c, u>>] \subseteq agClients[c] \ AgForbidden
                    /\ \E i \in AgInvitations :
                         /\ agInvitations[i].client = c /\ agInvitations[i].acceptedBy = u
                         /\ agInvitations[i].scopes = agGrants[<<c, u>>]
  BY DEF GrantsWithinRelationship
<1> PICK i \in AgInvitations :
      /\ agInvitations[i].state = "ACCEPTED"
      /\ agInvitations[i].client = c /\ agInvitations[i].acceptedBy = u
      /\ agInvitations[i].scopes = agGrants[<<c, u>>]
  BY DEF AgInv, GrantsStemFromAccepted
<1>1. agInvitations[i].scopes \subseteq agClients[c] \ AgForbidden
  BY DEF AgInv, OffersWithinRelationship
<1> QED BY <1>1

LEMMA AgInitInv == AgInit => AgInv
BY DEF AgInit, AgInv, AgPortalTypes, AgWorkTypes, AgInvitationRows, OffersWithinRelationship,
       GrantsStemFromAccepted, OneWorkspacePerRequest, NoInvitation

\* A request about clients, invitations and grants.
LEMMA AgPortalKeeps ==
  ASSUME AgInv, PortalRequest
  PROVE  AgInv' /\ InvitationUsedOnce /\ ProvisioningIsFinal
<1> USE DEF AgInv
<1>1. UNCHANGED agWorkVars
  BY DEF PortalRequest, AddClient, IssuePortalInvitation, InvitationExpires, AcceptPortalInvitation
<1>2. AgWorkTypes' /\ OneWorkspacePerRequest' /\ ProvisioningIsFinal
  BY <1>1 DEF agWorkVars, AgWorkTypes, OneWorkspacePerRequest, ProvisioningIsFinal
<1>3. ASSUME NEW c \in AgClients, NEW p \in SUBSET (AgScopes \cup AgForbidden), AddClient(c, p)
      PROVE  AgInv' /\ InvitationUsedOnce
  <2>1. AgPortalTypes'
    BY <1>3 DEF AddClient, AgPortalTypes
  <2>2. OffersWithinRelationship' /\ GrantsStemFromAccepted' /\ InvitationUsedOnce
    BY <1>3 DEF AddClient, AgPortalTypes, OffersWithinRelationship, GrantsStemFromAccepted, InvitationUsedOnce
  <2> QED BY <1>2, <2>1, <2>2
<1>4. ASSUME NEW c \in AgClients, NEW p \in SUBSET (AgScopes \cup AgForbidden), NEW i \in AgInvitations,
             IssuePortalInvitation(i, c, p)
      PROVE  AgInv' /\ InvitationUsedOnce
  <2>1. AgPortalTypes'
    BY <1>4 DEF IssuePortalInvitation, AgPortalTypes, AgInvitationRows
  <2>2. OffersWithinRelationship'
    BY <1>4 DEF IssuePortalInvitation, AuthorizePortalScopes, AgPortalTypes, OffersWithinRelationship
  <2>3. GrantsStemFromAccepted' /\ InvitationUsedOnce
    BY <1>4 DEF IssuePortalInvitation, NoInvitation, AgPortalTypes, GrantsStemFromAccepted, InvitationUsedOnce
  <2> QED BY <1>2, <2>1, <2>2, <2>3
<1>5. ASSUME NEW i \in AgInvitations, InvitationExpires(i)
      PROVE  AgInv' /\ InvitationUsedOnce
  <2>1. AgPortalTypes'
    BY <1>5 DEF InvitationExpires, AgPortalTypes, AgInvitationRows
  <2>2. OffersWithinRelationship'
    BY <1>5 DEF InvitationExpires, AgPortalTypes, AgInvitationRows, OffersWithinRelationship
  <2>3. \A k \in AgInvitations :
          /\ agInvitations'[k].state = agInvitations[k].state
          /\ agInvitations'[k].client = agInvitations[k].client
          /\ agInvitations'[k].acceptedBy = agInvitations[k].acceptedBy
          /\ agInvitations'[k].scopes = agInvitations[k].scopes
    BY <1>5 DEF InvitationExpires, AgPortalTypes, AgInvitationRows
  <2>4. InvitationUsedOnce
    BY <2>3 DEF InvitationUsedOnce
  <2>5. GrantsStemFromAccepted'
    <3>1. agGrants' = agGrants
      BY <1>5 DEF InvitationExpires
    <3> SUFFICES ASSUME NEW c \in AgClients, NEW u \in AgUsers, agGrants'[<<c, u>>] # {}
                 PROVE  \E k \in AgInvitations :
                          /\ agInvitations'[k].state = "ACCEPTED"
                          /\ agInvitations'[k].client = c /\ agInvitations'[k].acceptedBy = u
                          /\ agInvitations'[k].scopes = agGrants'[<<c, u>>]
      BY DEF GrantsStemFromAccepted
    <3> PICK k \in AgInvitations :
          /\ agInvitations[k].state = "ACCEPTED"
          /\ agInvitations[k].client = c /\ agInvitations[k].acceptedBy = u
          /\ agInvitations[k].scopes = agGrants[<<c, u>>]
      BY <3>1 DEF GrantsStemFromAccepted
    <3> QED BY <2>3, <3>1
  <2> QED BY <1>2, <2>1, <2>2, <2>4, <2>5
<1>6. ASSUME NEW i \in AgInvitations, NEW u \in AgUsers, AcceptPortalInvitation(i, u)
      PROVE  AgInv' /\ InvitationUsedOnce
  <2>0. agInvitations[i].state = "PENDING" /\ agInvitations[i].client \in AgClients
    BY <1>6 DEF AcceptPortalInvitation, Accepts, OffersWithinRelationship
  <2>5. agInvitations' \in [AgInvitations -> AgInvitationRows]
    BY <1>6 DEF AcceptPortalInvitation, AgPortalTypes, AgInvitationRows
  <2>6. agGrants' \in [AgClients \X AgUsers -> SUBSET (AgScopes \cup AgForbidden)]
    <3>1. <<agInvitations[i].client, u>> \in AgClients \X AgUsers
      BY <2>0
    <3>2. agInvitations[i].scopes \in SUBSET (AgScopes \cup AgForbidden)
      BY DEF AgPortalTypes, AgInvitationRows
    <3> QED BY <1>6, <3>1, <3>2 DEF AcceptPortalInvitation, AgPortalTypes
  <2>1. AgPortalTypes'
    BY <1>6, <2>5, <2>6 DEF AcceptPortalInvitation, AgPortalTypes
  <2>2. OffersWithinRelationship'
    BY <1>6, <2>0 DEF AcceptPortalInvitation, AgPortalTypes, AgInvitationRows, OffersWithinRelationship
  <2>3. InvitationUsedOnce
    BY <1>6, <2>0 DEF AcceptPortalInvitation, AgPortalTypes, AgInvitationRows, InvitationUsedOnce
  <2>4. GrantsStemFromAccepted'
    <3> SUFFICES ASSUME NEW c \in AgClients, NEW w \in AgUsers, agGrants'[<<c, w>>] # {}
                 PROVE  \E k \in AgInvitations :
                          /\ agInvitations'[k].state = "ACCEPTED"
                          /\ agInvitations'[k].client = c /\ agInvitations'[k].acceptedBy = w
                          /\ agInvitations'[k].scopes = agGrants'[<<c, w>>]
      BY DEF GrantsStemFromAccepted
    <3>1. CASE agGrants[<<c, w>>] # {}
      <4> PICK k \in AgInvitations :
            /\ agInvitations[k].state = "ACCEPTED"
            /\ agInvitations[k].client = c /\ agInvitations[k].acceptedBy = w
            /\ agInvitations[k].scopes = agGrants[<<c, w>>]
        BY <3>1 DEF GrantsStemFromAccepted
      <4>1. k # i /\ agInvitations'[k] = agInvitations[k]
        BY <1>6, <2>0 DEF AcceptPortalInvitation, AgPortalTypes
      <4>2. agGrants'[<<c, w>>] = agGrants[<<c, w>>]
        BY <1>6, <3>1 DEF AcceptPortalInvitation, AgPortalTypes
      <4> QED BY <4>1, <4>2
    <3>2. CASE agGrants[<<c, w>>] = {}
      BY <1>6, <2>0, <3>2 DEF AcceptPortalInvitation, AgPortalTypes, AgInvitationRows
    <3> QED BY <3>1, <3>2
  <2> QED BY <1>2, <2>1, <2>2, <2>3, <2>4
<1> QED BY <1>2, <1>3, <1>4, <1>5, <1>6 DEF PortalRequest

\* Provisioning: the provider makes one workspace for a request's id.
LEMMA AgWorkKeeps ==
  ASSUME AgInv, ProvisioningRequest \/ AgWorker
  PROVE  AgInv' /\ InvitationUsedOnce /\ ProvisioningIsFinal
<1> USE DEF AgInv
<1>1. UNCHANGED agPortalVars
  BY DEF ProvisioningRequest, AgWorker, QueueClientProvisioning, ExecuteClientProvisioning,
         ReturnProvisioning, LostProvisioning
<1>2. AgPortalTypes' /\ OffersWithinRelationship' /\ GrantsStemFromAccepted' /\ InvitationUsedOnce
  BY <1>1 DEF agPortalVars, AgPortalTypes, OffersWithinRelationship, GrantsStemFromAccepted, InvitationUsedOnce
<1>3. ASSUME NEW r \in AgRequests, QueueClientProvisioning(r)
      PROVE  AgWorkTypes' /\ OneWorkspacePerRequest' /\ ProvisioningIsFinal
  <2>1. AgWorkTypes'
    BY <1>3 DEF QueueClientProvisioning, EnqueueClientProvisioning, AgLose, AgWorkTypes, ProvisioningRuns
  <2>2. OneWorkspacePerRequest' /\ ProvisioningIsFinal
    BY <1>3 DEF QueueClientProvisioning, AgWorkTypes, OneWorkspacePerRequest, ProvisioningIsFinal
  <2> QED BY <2>1, <2>2
<1>4. ASSUME NEW r \in AgRequests, NEW made \in BOOLEAN, NEW state \in {"SUCCEEDED", "FAILED"},
             ExecuteClientProvisioning(r, made, state)
      PROVE  AgWorkTypes' /\ OneWorkspacePerRequest' /\ ProvisioningIsFinal
  <2>1. AgWorkTypes'
    BY <1>4 DEF ExecuteClientProvisioning, AcknowledgeProvisioning, ProvisionOnce, AgLose, AgWorkTypes
  <2>2. OneWorkspacePerRequest' /\ ProvisioningIsFinal
    BY <1>4 DEF ExecuteClientProvisioning, ProvisionOnce, ProvisioningRuns, AgWorkTypes,
                OneWorkspacePerRequest, ProvisioningIsFinal
  <2> QED BY <2>1, <2>2
<1>5. ASSUME NEW r \in AgRequests, ReturnProvisioning(r)
      PROVE  AgWorkTypes' /\ OneWorkspacePerRequest' /\ ProvisioningIsFinal
  BY <1>5 DEF ReturnProvisioning, AcknowledgeProvisioning, AgLose, AgWorkTypes, OneWorkspacePerRequest,
              ProvisioningIsFinal
<1>6. ASSUME NEW r \in AgRequests, NEW made \in BOOLEAN, LostProvisioning(r, made)
      PROVE  AgWorkTypes' /\ OneWorkspacePerRequest' /\ ProvisioningIsFinal
  <2>1. AgWorkTypes'
    BY <1>6 DEF LostProvisioning, ProvisionOnce, AgLose, AgWorkTypes
  <2>2. OneWorkspacePerRequest' /\ ProvisioningIsFinal
    BY <1>6 DEF LostProvisioning, ProvisionOnce, ProvisioningRuns, AgWorkTypes, OneWorkspacePerRequest,
                ProvisioningIsFinal
  <2> QED BY <2>1, <2>2
<1> QED BY <1>2, <1>3, <1>4, <1>5, <1>6 DEF ProvisioningRequest, AgWorker

LEMMA AgStep == AgInv /\ [AgNext]_agVars => AgInv' /\ [InvitationUsedOnce /\ ProvisioningIsFinal]_agVars
<1> SUFFICES ASSUME AgInv, [AgNext]_agVars
             PROVE  AgInv' /\ [InvitationUsedOnce /\ ProvisioningIsFinal]_agVars
  OBVIOUS
<1>1. CASE AgNext
  BY <1>1, AgPortalKeeps, AgWorkKeeps DEF AgNext
<1>2. CASE UNCHANGED agVars
  BY <1>2 DEF agVars, AgInv, AgPortalTypes, AgWorkTypes, OffersWithinRelationship, GrantsStemFromAccepted,
              OneWorkspacePerRequest
<1> QED BY <1>1, <1>2

\* Portal access stays within the relationship and stems from an accepted invitation,
\* and a client gets one workspace, whatever is accepted, retried or lost
\* (accept_portal_invitation, execute_client_provisioning).
THEOREM AgenciesKeepTheirPromise == AgSpec => AgencyPromise
<1>1. AgInv /\ [AgNext]_agVars =>
        [ /\ ( /\ GrantsWithinRelationship /\ OneWorkspacePerRequest )'
          /\ InvitationUsedOnce
          /\ ProvisioningIsFinal ]_agVars
  <2>1. (AgInv => GrantsWithinRelationship)'
    BY AgGrants, PTL
  <2> QED BY AgStep, <2>1 DEF AgInv
<1> QED BY <1>1, AgInitInv, AgStep, PTL DEF AgSpec, AgencyPromise

-----------------------------------------------------------------------------
(* AdminOps.                                                               *)

AdAccessRows ==
  [state : {"NONE", "PENDING_CUSTOMER", "APPROVED", "DENIED"}, by : AdOperators \cup {"none"},
   requested : SUBSET AdScopes, content : BOOLEAN, approved : SUBSET AdScopes, consent : BOOLEAN,
   live : BOOLEAN]
AdAccessTypes ==
  /\ adAccess \in [AdRequests -> AdAccessRows]
  /\ adSessions \in [AdRequests -> SUBSET AdScopes]

\* What the customer approves was requested, and content only with consent to it; a
\* session is opened with what was approved.
ApprovedWithinRequest ==
  \A r \in AdRequests :
    /\ adAccess[r].approved \subseteq adAccess[r].requested
    /\ AdContent \in adAccess[r].approved => adAccess[r].consent /\ adAccess[r].content
    /\ adAccess[r].state \in {"NONE", "PENDING_CUSTOMER"} => adAccess[r].approved = {} /\ ~adAccess[r].live
    /\ adSessions[r] # {} => adSessions[r] = adAccess[r].approved /\ adAccess[r].state = "APPROVED"

AdAccessInv == AdAccessTypes /\ ApprovedWithinRequest

LEMMA AdElevation == AdAccessInv => ElevationWasApproved
BY DEF AdAccessInv, AdAccessTypes, ApprovedWithinRequest, ElevationWasApproved

LEMMA AdAccessInit == AdInit => AdAccessInv
BY DEF AdInit, AdAccessInv, AdAccessTypes, AdAccessRows, ApprovedWithinRequest, NoAccess

LEMMA AdAccessKeeps ==
  ASSUME AdAccessInv, AccessRequests
  PROVE  AdAccessInv'
<1> USE DEF AdAccessInv
<1>1. ASSUME NEW r \in AdRequests, NEW o \in AdOperators, NEW s \in SUBSET AdScopes, NEW content \in BOOLEAN,
             CreateSupportAccessRequest(r, o, s, content)
      PROVE  AdAccessInv'
  <2>1. AdAccessTypes'
    BY <1>1 DEF CreateSupportAccessRequest, NoAccess, AdAccessTypes, AdAccessRows
  <2>2. ApprovedWithinRequest'
    BY <1>1 DEF CreateSupportAccessRequest, NoAccess, AdAccessTypes, AdAccessRows, ApprovedWithinRequest
  <2> QED BY <2>1, <2>2
<1>2. ASSUME NEW r \in AdRequests, NEW o \in AdOperators, StartElevationSession(r, o)
      PROVE  AdAccessInv'
  BY <1>2 DEF StartElevationSession, ScopesApproved, AdAccessTypes, AdAccessRows, ApprovedWithinRequest
<1>3. ASSUME NEW r \in AdRequests, NEW s \in SUBSET AdScopes, NEW consent \in BOOLEAN,
             DecideSupportAccess(r, s, consent)
      PROVE  AdAccessInv'
  <2>0. adSessions[r] = {}
    BY <1>3 DEF DecideSupportAccess, ApprovedWithinRequest
  <2>1. AdAccessTypes'
    BY <1>3 DEF DecideSupportAccess, AdAccessTypes, AdAccessRows
  <2>2. ApprovedWithinRequest'
    BY <1>3, <2>0 DEF DecideSupportAccess, AuthorizeSupportScopes, AdAccessTypes, AdAccessRows,
                      ApprovedWithinRequest
  <2> QED BY <2>1, <2>2
<1>4. ASSUME NEW r \in AdRequests, AccessExpires(r)
      PROVE  AdAccessInv'
  <2>1. AdAccessTypes'
    BY <1>4 DEF AccessExpires, AdAccessTypes, AdAccessRows
  <2>2. ApprovedWithinRequest'
    BY <1>4 DEF AccessExpires, AdAccessTypes, AdAccessRows, ApprovedWithinRequest
  <2> QED BY <2>1, <2>2
<1> QED BY <1>1, <1>2, <1>3, <1>4 DEF AccessRequests

AdApprovalRows == [by : AdOperators, decision : {"APPROVE", "REJECT"}]
AdCommandTypes ==
  /\ adCommands \in [AdCommands -> [state : {"NONE", "PENDING_APPROVAL", "READY"} \cup AdSettled,
                                    by : AdOperators \cup {"none"}, count : Nat]]
  /\ adApprovals \in [AdCommands -> SUBSET AdApprovalRows]
  /\ adEffects \in [AdCommands -> Nat]

Approvals(c) == {a \in adApprovals[c] : a.decision = "APPROVE"}

\* The count of a command is the number of its approvals, of which a command that may
\* be executed, and no other that may have had its effect, has enough.
CountedApprovals ==
  \A c \in AdCommands :
    /\ IsFiniteSet(adApprovals[c])
    /\ adCommands[c].count = Cardinality(Approvals(c))
    /\ adCommands[c].count <= AdRequired
    /\ adCommands[c].state = "NONE" => adApprovals[c] = {}
    /\ adCommands[c].state = "PENDING_APPROVAL" =>
         Approvals(c) = adApprovals[c] /\ adCommands[c].count < AdRequired
    /\ adCommands[c].state \in {"READY", "SUCCEEDED", "FAILED"} =>
         Approvals(c) = adApprovals[c] /\ adCommands[c].count >= AdRequired
    /\ adCommands[c].state # "NONE" => adCommands[c].by \notin Approvers(c)
    /\ adEffects[c] > 0 => adCommands[c].state \in {"READY", "SUCCEEDED", "FAILED"}

AdCommandInv == AdCommandTypes /\ CountedApprovals /\ OneEffectPerCommand

LEMMA AdEffects == AdCommandInv => EffectsWereApproved
<1> SUFFICES ASSUME AdCommandInv, NEW c \in AdCommands, adEffects[c] > 0
             PROVE  /\ Cardinality(Approvals(c)) >= AdRequired
                    /\ adCommands[c].by \notin Approvers(c)
                    /\ \A a \in adApprovals[c] : a.decision = "APPROVE"
  BY DEF EffectsWereApproved, Approvals
<1>1. adCommands[c].state \in {"READY", "SUCCEEDED", "FAILED"}
  BY DEF AdCommandInv, CountedApprovals
<1>2. /\ Approvals(c) = adApprovals[c] /\ Cardinality(Approvals(c)) >= AdRequired
      /\ adCommands[c].by \notin Approvers(c)
  BY <1>1 DEF AdCommandInv, CountedApprovals
<1> QED BY <1>2 DEF Approvals

LEMMA AdCommandInit == AdInit => AdCommandInv
<1> SUFFICES ASSUME AdInit PROVE AdCommandInv
  OBVIOUS
<1>1. AdCommandTypes /\ OneEffectPerCommand
  BY DEF AdInit, AdCommandTypes, OneEffectPerCommand, NoAdCommand
<1>2. \A c \in AdCommands : adApprovals[c] = {} /\ Approvals(c) = {} /\ adCommands[c] = NoAdCommand
                            /\ adEffects[c] = 0
  BY DEF AdInit, Approvals
<1>3. CountedApprovals
  BY <1>2, FS_EmptySet, AdLimits DEF CountedApprovals, NoAdCommand
<1> QED BY <1>1, <1>3 DEF AdCommandInv

\* What a decision adds to a command that is still to be approved.
LEMMA AdDecides ==
  ASSUME AdCommandInv, NEW c \in AdCommands, NEW o \in AdOperators, NEW d \in {"APPROVE", "REJECT"},
         DecideCommand(c, o, d)
  PROVE  CountedApprovals'
<1> USE DEF AdCommandInv
<1> DEFINE row == [by |-> o, decision |-> d]
<1>1. /\ adCommands[c].state = "PENDING_APPROVAL"
      /\ adCommands[c].by # o /\ o \notin Approvers(c)
      /\ adApprovals' = [adApprovals EXCEPT ![c] = @ \cup {row}]
      /\ adCommands' = [adCommands EXCEPT ![c].state = DecidedState(c, d),
                                         ![c].count = @ + IF d = "APPROVE" THEN 1 ELSE 0]
      /\ adEffects' = adEffects
  BY DEF DecideCommand, ValidateTwoPersonApproval, adAccessVars, adNoticeVars
<1>2. row \notin adApprovals[c]
  BY <1>1 DEF Approvers
<1>3. /\ adApprovals'[c] = adApprovals[c] \cup {row}
      /\ \A k \in AdCommands \ {c} : adApprovals'[k] = adApprovals[k] /\ adCommands'[k] = adCommands[k]
      /\ adCommands'[c].by = adCommands[c].by
      /\ adCommands'[c].state = DecidedState(c, d)
      /\ adCommands'[c].count = adCommands[c].count + IF d = "APPROVE" THEN 1 ELSE 0
  BY <1>1 DEF AdCommandTypes
<1>4. /\ IsFiniteSet(adApprovals[c]) /\ Approvals(c) = adApprovals[c]
      /\ adCommands[c].count = Cardinality(adApprovals[c]) /\ adCommands[c].count < AdRequired
      /\ adCommands[c].by \notin Approvers(c) /\ adEffects[c] \in Nat /\ ~(adEffects[c] > 0)
  BY <1>1 DEF CountedApprovals, AdCommandTypes
<1>5. IsFiniteSet(adApprovals'[c]) /\ adCommands[c].count \in Nat
  <2>1. IsFiniteSet(adApprovals'[c])
    <3>1. IsFiniteSet(adApprovals[c])
      BY <1>4
    <3>2. IsFiniteSet(adApprovals[c] \cup {row})
      BY <3>1, FS_AddElement
    <3> QED BY <1>3, <3>2
  <2>2. adCommands[c].count \in Nat
    BY DEF AdCommandTypes
  <2> QED BY <2>1, <2>2
<1>6. Approvers(c)' \subseteq Approvers(c) \cup {o}
  <2> SUFFICES ASSUME NEW a \in adApprovals'[c] PROVE a.by \in Approvers(c) \cup {o}
    BY DEF Approvers
  <2> QED BY <1>3 DEF Approvers
<1>7. adCommands'[c].count = Cardinality(Approvals(c)') /\ adCommands'[c].count <= AdRequired
  <2>1. CASE d = "APPROVE"
    <3>1. Approvals(c)' = adApprovals[c] \cup {row}
      BY <2>1, <1>3, <1>4 DEF Approvals
    <3> QED BY <3>1, <2>1, <1>2, <1>3, <1>4, <1>5, FS_AddElement, AdLimits
  <2>2. CASE d = "REJECT"
    <3>1. Approvals(c)' = adApprovals[c]
      BY <2>2, <1>3, <1>4 DEF Approvals
    <3> QED BY <3>1, <2>2, <1>3, <1>4, <1>5, AdLimits
  <2> QED BY <2>1, <2>2
<1>8. adCommands'[c].state \in {"PENDING_APPROVAL", "READY"} => Approvals(c)' = adApprovals'[c]
  BY <1>3, <1>4 DEF DecidedState, Approvals
<1>9. /\ adCommands'[c].state \in {"PENDING_APPROVAL", "READY", "REJECTED"}
      /\ adCommands'[c].state = "PENDING_APPROVAL" => adCommands'[c].count < AdRequired
      /\ adCommands'[c].state = "READY" => adCommands'[c].count >= AdRequired
  BY <1>3, <1>5, AdLimits DEF DecidedState
<1>10. ASSUME NEW k \in AdCommands \ {c}
       PROVE  Approvals(k)' = Approvals(k) /\ Approvers(k)' = Approvers(k)
  BY <1>3 DEF Approvals, Approvers
<1>11. adCommands'[c].by \notin Approvers(c)'
  BY <1>1, <1>3, <1>4, <1>6
<1>12. adEffects'[c] = 0
  BY <1>1, <1>4
<1> SUFFICES ASSUME NEW k \in AdCommands
             PROVE  /\ IsFiniteSet(adApprovals'[k])
                    /\ adCommands'[k].count = Cardinality(Approvals(k)')
                    /\ adCommands'[k].count <= AdRequired
                    /\ adCommands'[k].state = "NONE" => adApprovals'[k] = {}
                    /\ adCommands'[k].state = "PENDING_APPROVAL" =>
                         Approvals(k)' = adApprovals'[k] /\ adCommands'[k].count < AdRequired
                    /\ adCommands'[k].state \in {"READY", "SUCCEEDED", "FAILED"} =>
                         Approvals(k)' = adApprovals'[k] /\ adCommands'[k].count >= AdRequired
                    /\ adCommands'[k].state # "NONE" => adCommands'[k].by \notin Approvers(k)'
                    /\ adEffects'[k] > 0 => adCommands'[k].state \in {"READY", "SUCCEEDED", "FAILED"}
  BY DEF CountedApprovals
<1>13. CASE k = c
  BY <1>5, <1>7, <1>8, <1>9, <1>11, <1>12, <1>13
<1>14. CASE k # c
  <2>1. /\ adApprovals'[k] = adApprovals[k] /\ adCommands'[k] = adCommands[k] /\ adEffects'[k] = adEffects[k]
        /\ Approvals(k)' = Approvals(k) /\ Approvers(k)' = Approvers(k)
    BY <1>1, <1>3, <1>10, <1>14
  <2> QED BY ONLY <2>1, CountedApprovals, k \in AdCommands DEF CountedApprovals
<1> QED BY <1>13, <1>14

\* A request about a command: one is made, or one is decided.
LEMMA AdCommandRequests ==
  ASSUME AdCommandInv, CommandRequests
  PROVE  AdCommandInv'
<1> USE DEF AdCommandInv
<1>1. ASSUME NEW c \in AdCommands, NEW o \in AdOperators, CreateCommand(c, o)
      PROVE  AdCommandInv'
  <2>1. /\ adCommands' = [adCommands EXCEPT ![c] = [state |-> "PENDING_APPROVAL", by |-> o, count |-> 0]]
        /\ adApprovals' = adApprovals /\ adEffects' = adEffects /\ adCommands[c] = NoAdCommand
    BY <1>1 DEF CreateCommand
  <2>2. AdCommandTypes' /\ OneEffectPerCommand'
    BY <2>1 DEF AdCommandTypes, OneEffectPerCommand
  <2>3. adApprovals[c] = {} /\ ~(adEffects[c] > 0)
    BY <2>1 DEF NoAdCommand, CountedApprovals
  <2>4. Approvals(c) = {} /\ Approvers(c) = {} /\ Cardinality({}) = 0 /\ IsFiniteSet({})
    BY <2>3, FS_EmptySet DEF Approvals, Approvers
  <2>5. \A k \in AdCommands : Approvals(k)' = Approvals(k) /\ Approvers(k)' = Approvers(k)
    BY <2>1 DEF Approvals, Approvers
  <2>6. adCommands'[c] = [state |-> "PENDING_APPROVAL", by |-> o, count |-> 0]
    BY <2>1 DEF AdCommandTypes
  <2>7. \A k \in AdCommands \ {c} : adCommands'[k] = adCommands[k]
    BY <2>1 DEF AdCommandTypes
  <2>8. CountedApprovals'
    BY <2>1, <2>3, <2>4, <2>5, <2>6, <2>7, AdLimits DEF CountedApprovals
  <2> QED BY <2>2, <2>8
<1>2. ASSUME NEW c \in AdCommands, NEW o \in AdOperators, NEW d \in {"APPROVE", "REJECT"}, DecideCommand(c, o, d)
      PROVE  AdCommandInv'
  <2>1. AdCommandTypes'
    <3>1. /\ adApprovals' = [adApprovals EXCEPT ![c] = @ \cup {[by |-> o, decision |-> d]}]
          /\ adCommands' = [adCommands EXCEPT ![c].state = DecidedState(c, d),
                                             ![c].count = @ + IF d = "APPROVE" THEN 1 ELSE 0]
          /\ adEffects' = adEffects
      BY <1>2 DEF DecideCommand
    <3>2. DecidedState(c, d) \in {"REJECTED", "READY", "PENDING_APPROVAL"}
      BY DEF DecidedState
    <3>3. adApprovals' \in [AdCommands -> SUBSET AdApprovalRows]
      BY <3>1 DEF AdCommandTypes, AdApprovalRows
    <3>4. adCommands' \in [AdCommands -> [state : {"NONE", "PENDING_APPROVAL", "READY"} \cup AdSettled,
                                         by : AdOperators \cup {"none"}, count : Nat]]
      <4>1. adCommands[c].count + (IF d = "APPROVE" THEN 1 ELSE 0) \in Nat
        BY DEF AdCommandTypes
      <4>2. adCommands' = [adCommands EXCEPT ![c] =
              [adCommands[c] EXCEPT !.state = DecidedState(c, d),
                                    !.count = @ + IF d = "APPROVE" THEN 1 ELSE 0]]
        BY <3>1 DEF AdCommandTypes
      <4>3. [adCommands[c] EXCEPT !.state = DecidedState(c, d),
                                  !.count = @ + IF d = "APPROVE" THEN 1 ELSE 0]
              \in [state : {"NONE", "PENDING_APPROVAL", "READY"} \cup AdSettled,
                  by : AdOperators \cup {"none"}, count : Nat]
        BY <3>2, <4>1 DEF AdCommandTypes, AdSettled
      <4> QED BY <4>2, <4>3 DEF AdCommandTypes
    <3> QED BY <3>1, <3>3, <3>4 DEF AdCommandTypes
  <2>2. OneEffectPerCommand'
    BY <1>2 DEF DecideCommand, DecidedState, AdCommandTypes, OneEffectPerCommand
  <2> QED BY <1>2, <2>1, <2>2, AdDecides
<1> QED BY <1>1, <1>2 DEF CommandRequests

\* A delivery of a command: it has its effect only when it is READY, and is then over.
LEMMA AdCommandRuns ==
  ASSUME AdCommandInv, RunAdminCommand
  PROVE  AdCommandInv'
<1> USE DEF AdCommandInv
<1>1. adApprovals' = adApprovals
  BY DEF RunAdminCommand, ExecuteReadyCommand, ReturnCommand, LostExecuting, adCommandVars
<1>2. \A k \in AdCommands : Approvals(k)' = Approvals(k) /\ Approvers(k)' = Approvers(k)
  BY <1>1 DEF Approvals, Approvers
<1>3. ASSUME NEW c \in AdCommands, NEW done \in BOOLEAN, NEW state \in {"SUCCEEDED", "FAILED"},
             ExecuteReadyCommand(c, done, state)
      PROVE  AdCommandInv'
  <2>1. AdCommandTypes' /\ OneEffectPerCommand'
    BY <1>1, <1>3 DEF ExecuteReadyCommand, EffectOnce, AdCommandTypes, AdSettled, OneEffectPerCommand
  <2>2. /\ adCommands'[c].state = state /\ adCommands[c].state = "READY"
        /\ adCommands'[c].count = adCommands[c].count /\ adCommands'[c].by = adCommands[c].by
        /\ \A k \in AdCommands \ {c} : adCommands'[k] = adCommands[k] /\ adEffects'[k] = adEffects[k]
    BY <1>3 DEF ExecuteReadyCommand, AdCommandTypes
  <2>3. CountedApprovals'
    BY <1>1, <1>2, <2>2 DEF CountedApprovals
  <2> QED BY <2>1, <2>3
<1>4. ASSUME NEW c \in AdCommands, NEW done \in BOOLEAN, LostExecuting(c, done)
      PROVE  AdCommandInv'
  <2>1. AdCommandTypes' /\ OneEffectPerCommand'
    BY <1>1, <1>4 DEF LostExecuting, EffectOnce, AdCommandTypes, OneEffectPerCommand
  <2>2. /\ adCommands' = adCommands /\ adCommands[c].state = "READY"
        /\ \A k \in AdCommands \ {c} : adEffects'[k] = adEffects[k]
    BY <1>4 DEF LostExecuting, AdCommandTypes
  <2>3. CountedApprovals'
    BY <1>1, <1>2, <2>2 DEF CountedApprovals
  <2> QED BY <2>1, <2>3
<1>5. ASSUME NEW c \in AdCommands, ReturnCommand(c)
      PROVE  AdCommandInv'
  <2>1. adCommands' = adCommands /\ adEffects' = adEffects
    BY <1>5 DEF ReturnCommand, adCommandVars
  <2> QED BY <1>1, <1>2, <2>1 DEF AdCommandTypes, OneEffectPerCommand, CountedApprovals
<1> QED BY <1>3, <1>4, <1>5 DEF RunAdminCommand

AdNoticeInv ==
  /\ adNotices \in [AdNotices -> [state : {"NONE", "PENDING", "SENT", "FAILED"}, attempts : 0..AdMaxAttempts,
                                  due : BOOLEAN]]
  /\ adSent \in [AdNotices -> Nat]
  /\ \A n \in AdNotices :
       /\ adNotices[n].state = "SENT" => adSent[n] = 1
       /\ adNotices[n].state \in {"NONE", "PENDING"} => adNotices[n].attempts < AdMaxAttempts

AdMsgInv == adMsgs \in [AdCommands \cup AdNotices -> 0..AdMaxMsgs]

LEMMA AdNoticeInit == AdInit => AdNoticeInv /\ AdMsgInv
BY AdLimits DEF AdInit, AdNoticeInv, AdMsgInv, NoNotice

LEMMA AdMsgSteps ==
  ASSUME AdMsgInv, NEW m \in AdCommands \cup AdNotices
  PROVE  /\ AdEnqueue(m) => AdMsgInv'
         /\ adMsgs[m] > 0 /\ AdAcknowledge(m) => AdMsgInv'
         /\ adMsgs[m] > 0 /\ adMsgs' \in {adMsgs, [adMsgs EXCEPT ![m] = @ - 1]} => AdMsgInv'
BY AdLimits DEF AdMsgInv, AdEnqueue, AdAcknowledge, AdLose

LEMMA AdCommandMsgs ==
  ASSUME AdMsgInv, CommandRequests \/ RunAdminCommand
  PROVE  AdMsgInv'
<1>1. ASSUME NEW c \in AdCommands, NEW o \in AdOperators, CreateCommand(c, o)
      PROVE  AdMsgInv'
  BY <1>1 DEF CreateCommand, AdMsgInv
<1>2. ASSUME NEW c \in AdCommands, NEW o \in AdOperators, NEW d \in {"APPROVE", "REJECT"}, DecideCommand(c, o, d)
      PROVE  AdMsgInv'
  <2>1. AdEnqueue(c) \/ UNCHANGED adMsgs
    BY <1>2 DEF DecideCommand
  <2> QED BY <2>1, AdMsgSteps DEF AdMsgInv
<1>3. ASSUME NEW c \in AdCommands, NEW done \in BOOLEAN, NEW state \in {"SUCCEEDED", "FAILED"},
             ExecuteReadyCommand(c, done, state)
      PROVE  AdMsgInv'
  BY <1>3, AdMsgSteps DEF ExecuteReadyCommand
<1>4. ASSUME NEW c \in AdCommands, NEW done \in BOOLEAN, LostExecuting(c, done)
      PROVE  AdMsgInv'
  BY <1>4, AdMsgSteps DEF LostExecuting
<1>5. ASSUME NEW c \in AdCommands, ReturnCommand(c)
      PROVE  AdMsgInv'
  BY <1>5, AdMsgSteps DEF ReturnCommand
<1> QED BY <1>1, <1>2, <1>3, <1>4, <1>5 DEF CommandRequests, RunAdminCommand

LEMMA AdNoticeTaskMsgs ==
  ASSUME AdMsgInv, NEW n \in AdNotices, NEW state, adMsgs[n] > 0, NotificationTaskEnds(n, state)
  PROVE  AdMsgInv'
<1>1. AdAcknowledge(n) \/ adMsgs' \in {adMsgs, [adMsgs EXCEPT ![n] = @ - 1]}
  BY DEF NotificationTaskEnds
<1> QED BY <1>1, AdMsgSteps

\* A delivery of a notification, or a sweep.
LEMMA AdNoticeKeeps ==
  ASSUME AdNoticeInv, AdMsgInv, Notifications
  PROVE  AdNoticeInv' /\ AdMsgInv'
<1>1. ASSUME NEW n \in AdNotices, QueueNotification(n)
      PROVE  AdNoticeInv' /\ AdMsgInv'
  BY <1>1, AdLimits DEF QueueNotification, NoNotice, AdNoticeInv, AdMsgInv
<1>2. ASSUME NEW n \in AdNotices, NoticeBecomesDue(n)
      PROVE  AdNoticeInv' /\ AdMsgInv'
  BY <1>2 DEF NoticeBecomesDue, AdNoticeInv, AdMsgInv
<1>3. ASSUME NEW n \in AdNotices, ExecuteNotificationDelivery(n)
      PROVE  AdNoticeInv' /\ AdMsgInv'
  <2>1. AdNoticeInv'
    BY <1>3, AdLimits DEF ExecuteNotificationDelivery, SendsOnce, NoticeDue, AdNoticeInv
  <2> QED BY <1>3, <2>1, AdNoticeTaskMsgs DEF ExecuteNotificationDelivery, NoticeDue
<1>4. ASSUME NEW n \in AdNotices, NEW accepted \in BOOLEAN, NEW retryable \in BOOLEAN,
             FailNotificationDelivery(n, accepted, retryable)
      PROVE  AdNoticeInv' /\ AdMsgInv'
  <2>1. /\ adNotices' = [adNotices EXCEPT ![n] = FailedNotice(n, retryable)]
        /\ adSent' \in {adSent, [adSent EXCEPT ![n] = 1]}
        /\ adNotices[n].attempts < AdMaxAttempts
    BY <1>4 DEF FailNotificationDelivery, SendsOnce
  <2>2. /\ FailedNotice(n, retryable).state \in {"PENDING", "FAILED"}
        /\ FailedNotice(n, retryable).state = "PENDING" => FailedNotice(n, retryable).attempts < AdMaxAttempts
        /\ FailedNotice(n, retryable).due = FALSE
        /\ FailedNotice(n, retryable).attempts \in 0..AdMaxAttempts
        /\ FailedNotice(n, retryable) \in [state : {"NONE", "PENDING", "SENT", "FAILED"},
                                           attempts : 0..AdMaxAttempts, due : BOOLEAN]
    BY <2>1, AdLimits DEF FailedNotice, MayRetryNotification, AdNoticeInv
  <2>3. AdNoticeInv'
    BY <2>1, <2>2 DEF AdNoticeInv
  <2> QED BY <1>4, <2>3, AdNoticeTaskMsgs DEF FailNotificationDelivery, NoticeDue
<1>5. ASSUME NEW n \in AdNotices, ReturnNotification(n)
      PROVE  AdNoticeInv' /\ AdMsgInv'
  BY <1>5, AdNoticeTaskMsgs DEF ReturnNotification, adNoticeVars, AdNoticeInv
<1>6. ASSUME NEW n \in AdNotices, NEW accepted \in BOOLEAN, LostNotification(n, accepted)
      PROVE  AdNoticeInv' /\ AdMsgInv'
  <2>1. AdNoticeInv'
    BY <1>6 DEF LostNotification, SendsOnce, AdNoticeInv
  <2> QED BY <1>6, <2>1, AdMsgSteps DEF LostNotification, NoticeDue
<1>7. CASE ScheduleDueNotifications
  BY <1>7, AdLimits DEF ScheduleDueNotifications, adNoticeVars, AdNoticeInv, AdMsgInv
<1> QED BY <1>1, <1>2, <1>3, <1>4, <1>5, <1>6, <1>7 DEF Notifications, RunNotificationDelivery

AdInv == AdAccessInv /\ AdCommandInv /\ AdNoticeInv /\ AdMsgInv

\* A step about one of the three leaves the rows of the others alone.
LEMMA AdStep == AdInv /\ [AdNext]_adVars => AdInv'
<1> SUFFICES ASSUME AdInv, [AdNext]_adVars PROVE AdInv'
  OBVIOUS
<1> USE DEF AdInv
<1>1. UNCHANGED adAccessVars => AdAccessInv'
  BY DEF adAccessVars, AdAccessInv, AdAccessTypes, ApprovedWithinRequest
<1>2. ASSUME UNCHANGED adCommandVars PROVE AdCommandInv'
  <2>1. \A c \in AdCommands : Approvals(c)' = Approvals(c) /\ Approvers(c)' = Approvers(c)
    BY <1>2 DEF adCommandVars, Approvals, Approvers
  <2> QED BY <1>2, <2>1 DEF adCommandVars, AdCommandInv, AdCommandTypes, OneEffectPerCommand, CountedApprovals
<1>3. UNCHANGED adNoticeVars => AdNoticeInv'
  BY DEF adNoticeVars, AdNoticeInv
<1>4. UNCHANGED adMsgs => AdMsgInv'
  BY DEF AdMsgInv
<1>5. CASE AccessRequests
  <2>1. UNCHANGED adCommandVars /\ UNCHANGED adNoticeVars /\ UNCHANGED adMsgs
    BY <1>5 DEF AccessRequests, CreateSupportAccessRequest, StartElevationSession, DecideSupportAccess,
                AccessExpires
  <2> QED BY <1>2, <1>3, <1>4, <1>5, <2>1, AdAccessKeeps
<1>6. CASE CommandRequests \/ RunAdminCommand
  <2>1. UNCHANGED adAccessVars /\ UNCHANGED adNoticeVars
    BY <1>6 DEF CommandRequests, RunAdminCommand, CreateCommand, DecideCommand, ExecuteReadyCommand,
                LostExecuting, ReturnCommand
  <2> QED BY <1>1, <1>3, <1>6, <2>1, AdCommandRequests, AdCommandRuns, AdCommandMsgs
<1>7. CASE Notifications
  <2>1. UNCHANGED adAccessVars /\ UNCHANGED adCommandVars
    BY <1>7 DEF Notifications, RunNotificationDelivery, QueueNotification, NoticeBecomesDue,
                ExecuteNotificationDelivery, FailNotificationDelivery, ReturnNotification, LostNotification,
                ScheduleDueNotifications
  <2> QED BY <1>1, <1>2, <1>7, <2>1, AdNoticeKeeps
<1>8. CASE UNCHANGED adVars
  BY <1>1, <1>2, <1>3, <1>4, <1>8 DEF adVars
<1> QED BY <1>5, <1>6, <1>7, <1>8 DEF AdNext

\* What an operator sees was approved by the customer, and a command has its effect once
\* and only after enough other operators approved it, whatever is delivered again or
\* lost (start_elevation_session, execute_ready_command).
THEOREM AdminKeepsItsPromise == AdSpec => []AdminPromise
<1>1. AdInit => AdInv
  BY AdAccessInit, AdCommandInit, AdNoticeInit DEF AdInv
<1>2. AdInv => AdTypeOK
  BY AdLimits DEF AdInv, AdCommandInv, AdCommandTypes, CountedApprovals, AdNoticeInv, AdMsgInv, AdTypeOK
<1>3. AdInv => AdminPromise
  BY <1>2, AdElevation, AdEffects DEF AdInv, AdminPromise, AdCommandInv
<1> QED BY <1>1, <1>3, AdStep, PTL DEF AdSpec

-----------------------------------------------------------------------------
(* Webhooks: API keys.                                                     *)

AkTypes == akKeys \in [AkKeys -> [state : {"NONE", "ACTIVE", "ROTATED", "REVOKED"}, generation : Nat,
                                 from : AkKeys \cup {"none"}, to : AkKeys \cup {"none"}]]

AkInv == AkTypes /\ OneActiveKeyPerLineage

LEMMA AkInitInv == AkInit => AkInv
BY DEF AkInit, AkInv, AkTypes, OneActiveKeyPerLineage, NoKey

\* A key that is active, or not there yet, has no successor; nothing stems from it.
LEMMA AkHead ==
  ASSUME AkInv, NEW k \in AkKeys, akKeys[k].state = "ACTIVE" \/ akKeys[k] = NoKey
  PROVE  /\ akKeys[k].to = "none"
         /\ \A j \in AkKeys : akKeys[j].from # k
         /\ akKeys[k] = NoKey => \A j \in AkKeys : akKeys[j].to # k
BY AkIds DEF AkInv, AkTypes, OneActiveKeyPerLineage, NoKey

LEMMA AkStep == AkInv /\ [AkNext]_akVars => AkInv'
<1> SUFFICES ASSUME AkInv, [AkNext]_akVars PROVE AkInv'
  OBVIOUS
<1>1. ASSUME NEW k \in AkKeys, CreateApiKey(k)
      PROVE  AkInv'
  <2>1. AkTypes'
    BY <1>1 DEF CreateApiKey, AkInv, AkTypes
  <2>2. OneActiveKeyPerLineage'
    BY <1>1, AkHead DEF CreateApiKey, NoKey, AkInv, AkTypes, OneActiveKeyPerLineage
  <2> QED BY <2>1, <2>2 DEF AkInv
<1>2. ASSUME NEW k \in AkKeys, NEW new \in AkKeys, RotateApiKey(k, new)
      PROVE  AkInv'
  <2>0. /\ akKeys[k].state = "ACTIVE" /\ akKeys[new] = NoKey /\ k # new
        /\ akKeys[k].generation \in Nat
    BY <1>2 DEF RotateApiKey, Rotates, NoKey, AkInv, AkTypes
  <2>1. /\ akKeys'[new] = [state |-> "ACTIVE", generation |-> akKeys[k].generation + 1, from |-> k, to |-> "none"]
        /\ akKeys'[k].state = "ROTATED" /\ akKeys'[k].to = new
        /\ akKeys'[k].from = akKeys[k].from /\ akKeys'[k].generation = akKeys[k].generation
        /\ \A j \in AkKeys \ {k, new} : akKeys'[j] = akKeys[j]
    BY <1>2, <2>0 DEF RotateApiKey, AkInv, AkTypes
  <2>2. AkTypes'
    <3>1. akKeys' = [j \in AkKeys |-> akKeys'[j]]
      BY <1>2 DEF RotateApiKey, AkInv, AkTypes
    <3>2. akKeys'[k] \in [state : {"NONE", "ACTIVE", "ROTATED", "REVOKED"}, generation : Nat,
                         from : AkKeys \cup {"none"}, to : AkKeys \cup {"none"}]
      BY <1>2, <2>0 DEF RotateApiKey, AkInv, AkTypes
    <3>3. akKeys'[new] \in [state : {"NONE", "ACTIVE", "ROTATED", "REVOKED"}, generation : Nat,
                           from : AkKeys \cup {"none"}, to : AkKeys \cup {"none"}]
      BY <2>0, <2>1
    <3> QED BY <2>1, <3>1, <3>2, <3>3 DEF AkInv, AkTypes
  <2>3. /\ akKeys[k].to = "none"
        /\ \A j \in AkKeys : akKeys[j].from # k /\ akKeys[j].from # new /\ akKeys[j].to # new
    BY <2>0, AkHead
  <2>4. ASSUME NEW j \in AkKeys, akKeys'[j].to # "none"
        PROVE  /\ akKeys'[j].state = "ROTATED"
               /\ akKeys'[akKeys'[j].to].from = j
               /\ akKeys'[akKeys'[j].to].generation = akKeys'[j].generation + 1
    <3>1. CASE j = k
      BY <2>1, <3>1
    <3>2. CASE j # k
      <4>1. j # new /\ akKeys'[j] = akKeys[j] /\ akKeys[j].to \in AkKeys \ {new}
        BY <2>1, <2>3, <2>4, <3>2 DEF AkInv, AkTypes
      <4>2. akKeys'[akKeys[j].to].from = akKeys[akKeys[j].to].from
            /\ akKeys'[akKeys[j].to].generation = akKeys[akKeys[j].to].generation
        BY <2>1, <4>1
      <4> QED BY <2>4, <4>1, <4>2 DEF AkInv, OneActiveKeyPerLineage
    <3> QED BY <3>1, <3>2
  <2>5. ASSUME NEW j \in AkKeys, akKeys'[j].from # "none"
        PROVE  akKeys'[akKeys'[j].from].to = j /\ akKeys'[akKeys'[j].from].state # "ACTIVE"
    <3>1. CASE j = new
      BY <2>1, <3>1
    <3>2. CASE j # new
      <4>1. akKeys'[j].from = akKeys[j].from /\ akKeys[j].from \in AkKeys \ {k, new}
        BY <2>1, <2>3, <2>5, <3>2 DEF AkInv, AkTypes
      <4>2. akKeys'[akKeys[j].from] = akKeys[akKeys[j].from]
        BY <2>1, <4>1
      <4> QED BY <2>5, <4>1, <4>2 DEF AkInv, OneActiveKeyPerLineage
    <3> QED BY <3>1, <3>2
  <2> QED BY <2>2, <2>4, <2>5 DEF AkInv, OneActiveKeyPerLineage
<1>3. ASSUME NEW k \in AkKeys, RevokeApiKey(k)
      PROVE  AkInv'
  <2>1. AkTypes'
    BY <1>3 DEF RevokeApiKey, AkInv, AkTypes
  <2>2. OneActiveKeyPerLineage'
    BY <1>3, AkHead DEF RevokeApiKey, AkInv, AkTypes, OneActiveKeyPerLineage
  <2> QED BY <2>1, <2>2 DEF AkInv
<1>4. CASE UNCHANGED akVars
  BY <1>4 DEF akVars, AkInv, AkTypes, OneActiveKeyPerLineage
<1> QED BY <1>1, <1>2, <1>3, <1>4 DEF AkNext

-----------------------------------------------------------------------------
(* Webhooks: deliveries.                                                   *)

WhOutcomes == {"SUCCEEDED", "RETRYABLE_FAILURE", "FINAL_FAILURE"}
WhEndpointRows == [state : {"NONE", "ACTIVE", "DISABLED"}, failures : Nat]
WhDeliveryRows == [state : RunsIn \cup {"NONE", "DELIVERED", "DEAD_LETTERED", "CANCELLED"},
                   cycle : 0..WhMaxAttempts, replays : 0..WhReplayLimit, due : BOOLEAN]
WhAttemptRows == [event : WhEvents, outcome : WhOutcomes]

WhTypes ==
  /\ whEndpoints \in [WhEndpoints -> WhEndpointRows]
  /\ whEvents \in [WhEvents -> {NoEvent} \cup [hash : WhHashes, policy : {"sound", "unreadable"}]]
  /\ whDeliveries \in [WhDeliveries -> WhDeliveryRows]
  /\ whAttempts \in [WhEndpoints -> Seq(WhAttemptRows)]
  /\ whSends \in [WhDeliveries -> Nat]
  /\ whMsgs \in [WhDeliveries -> 0..(WhMaxMsgs + 1)]
  /\ whLost \in [WhDeliveries -> Nat]

\* The failure_count f of an endpoint is the number of failures its attempts end with.
FailuresCounted(attempts, f) ==
  /\ f <= Len(attempts)
  /\ \A i \in (Len(attempts) - f + 1)..Len(attempts) : WhFailed(attempts[i])
  /\ f < Len(attempts) => ~WhFailed(attempts[Len(attempts) - f])

EndpointOK(endpoint, attempts) ==
  /\ FailuresCounted(attempts, endpoint.failures)
  /\ endpoint.state = "NONE" => endpoint.failures = 0 /\ Len(attempts) = 0
  /\ endpoint.state = "DISABLED" <=> endpoint.failures >= WhThreshold
  /\ endpoint.failures <= WhThreshold

EndpointsOK == \A e \in WhEndpoints : EndpointOK(whEndpoints[e], whAttempts[e])

\* A delivery that may run has attempts left, and waits only for a retry.
RetriesLeft ==
  \A d \in WhDeliveries :
    /\ whDeliveries[d].state \in RunsIn => whDeliveries[d].cycle < WhMaxAttempts
    /\ whDeliveries[d].state = "PENDING" => whDeliveries[d].due

WhInv == WhTypes /\ EndpointsOK /\ RetriesLeft /\ SendsAreRecorded /\ NoDeliveryForgotten

LEMMA DisablingIsForCause == WhInv => DisabledForCause
<1> SUFFICES ASSUME WhInv, NEW e \in WhEndpoints
             PROVE  LET n == Len(whAttempts[e])
                        inARow == /\ n >= WhThreshold
                                  /\ \A i \in (n - WhThreshold + 1)..n : WhFailed(whAttempts[e][i])
                    IN  whEndpoints[e].state = "DISABLED" <=> inARow
  BY DEF DisabledForCause
<1> DEFINE n == Len(whAttempts[e])
           f == whEndpoints[e].failures
<1>1. n \in Nat /\ f \in Nat /\ WhThreshold \in Nat
  BY WhLimits DEF WhInv, WhTypes, WhEndpointRows
<1>2. /\ f <= n /\ f <= WhThreshold
      /\ \A i \in (n - f + 1)..n : WhFailed(whAttempts[e][i])
      /\ f < n => ~WhFailed(whAttempts[e][n - f])
      /\ whEndpoints[e].state = "DISABLED" <=> f >= WhThreshold
  BY DEF WhInv, EndpointsOK, EndpointOK, FailuresCounted
<1>3. CASE f >= WhThreshold
  <2>1. f = WhThreshold
    BY <1>1, <1>2, <1>3
  <2> QED BY <1>2, <2>1
<1>4. CASE f < WhThreshold
  <2>1. n >= WhThreshold => f < n /\ n - f \in (n - WhThreshold + 1)..n
    BY <1>1, <1>4
  <2> HIDE DEF n, f
  <2>2. ~(f >= WhThreshold)
    BY <1>1, <1>4
  <2> QED BY <1>2, <2>1, <2>2 DEF n, f
<1> QED BY <1>1, <1>3, <1>4

\* One more attempt keeps the count of the endpoint right.
LEMMA EndpointCounts ==
  ASSUME NEW endpoint \in WhEndpointRows, NEW attempts \in Seq(WhAttemptRows), NEW row \in WhAttemptRows,
         EndpointOK(endpoint, attempts), endpoint.state = "ACTIVE"
  PROVE  /\ EndpointAfter(endpoint, row.outcome) \in WhEndpointRows
         /\ EndpointOK(EndpointAfter(endpoint, row.outcome), Append(attempts, row))
<1> DEFINE after == EndpointAfter(endpoint, row.outcome)
           longer == Append(attempts, row)
           n == Len(attempts)
           f == endpoint.failures
<1>1. /\ n \in Nat /\ f \in Nat /\ WhThreshold \in Nat \ {0}
      /\ longer \in Seq(WhAttemptRows) /\ Len(longer) = n + 1 /\ longer[n + 1] = row
      /\ \A i \in 1..n : longer[i] = attempts[i]
  BY WhLimits, AppendProperties DEF WhEndpointRows
<1>2. /\ f <= n /\ f < WhThreshold
      /\ \A i \in (n - f + 1)..n : WhFailed(attempts[i])
      /\ f < n => ~WhFailed(attempts[n - f])
  BY <1>1 DEF EndpointOK, FailuresCounted
<1>3. CASE row.outcome = "SUCCEEDED"
  <2>1. after = [state |-> "ACTIVE", failures |-> 0]
    BY <1>1, <1>3 DEF EndpointAfter
  <2>2. ~WhFailed(longer[n + 1])
    BY <1>1, <1>3 DEF WhFailed
  <2>3. FailuresCounted(longer, 0)
    BY <1>1, <2>2 DEF FailuresCounted
  <2> QED BY <1>1, <2>1, <2>3 DEF EndpointOK, WhEndpointRows
<1>4. CASE row.outcome # "SUCCEEDED"
  <2>1. after = [state |-> IF f + 1 >= WhThreshold THEN "DISABLED" ELSE "ACTIVE", failures |-> f + 1]
    BY <1>4 DEF EndpointAfter
  <2>2. WhFailed(longer[n + 1])
    BY <1>1, <1>4 DEF WhFailed
  <2>3. \A i \in (n + 1 - (f + 1) + 1)..(n + 1) : WhFailed(longer[i])
    <3> SUFFICES ASSUME NEW i \in (n + 1 - (f + 1) + 1)..(n + 1) PROVE WhFailed(longer[i])
      OBVIOUS
    <3>1. CASE i = n + 1
      BY <2>2, <3>1
    <3>2. CASE i # n + 1
      <4>1. i \in (n - f + 1)..n /\ i \in 1..n
        BY <1>1, <1>2, <3>2
      <4> HIDE DEF longer, n, f
      <4> QED BY <1>1, <1>2, <4>1
    <3> QED BY <3>1, <3>2
  <2>4. f + 1 < n + 1 => ~WhFailed(longer[n + 1 - (f + 1)])
    <3> SUFFICES ASSUME f + 1 < n + 1 PROVE ~WhFailed(longer[n - f])
      BY <1>1
    <3>1. n - f \in 1..n /\ f < n
      BY <1>1
    <3> HIDE DEF longer, n, f
    <3> QED BY <1>1, <1>2, <3>1
  <2>5. FailuresCounted(longer, f + 1)
    <3>1. Len(longer) = n + 1 /\ n \in Nat /\ f \in Nat /\ f + 1 <= n + 1
      BY <1>1, <1>2
    <3> HIDE DEF longer, n, f
    <3>2. f + 1 <= Len(longer)
      BY <3>1
    <3>3. \A i \in (Len(longer) - (f + 1) + 1)..Len(longer) : WhFailed(longer[i])
      BY <2>3, <3>1
    <3>4. f + 1 < Len(longer) => ~WhFailed(longer[Len(longer) - (f + 1)])
      BY <2>4, <3>1
    <3> QED BY <3>2, <3>3, <3>4 DEF FailuresCounted
  <2>6. f + 1 <= WhThreshold
    BY <1>1, <1>2
  <2>7. EndpointOK(after, longer)
    BY <1>1, <2>1, <2>5, <2>6 DEF EndpointOK
  <2> QED BY <1>1, <2>1, <2>7 DEF WhEndpointRows
<1> QED BY <1>3, <1>4

AttemptsAt(attempts, v) == {i \in DOMAIN attempts : attempts[i].event = v}

\* The attempts of a delivery are finitely many, and one more when one is recorded.
LEMMA AttemptsGrow ==
  ASSUME NEW attempts \in Seq(WhAttemptRows), NEW row \in WhAttemptRows, NEW v
  PROVE  /\ Cardinality(AttemptsAt(attempts, v)) \in Nat
         /\ Cardinality(AttemptsAt(Append(attempts, row), v)) =
              Cardinality(AttemptsAt(attempts, v)) + IF row.event = v THEN 1 ELSE 0
<1> DEFINE n == Len(attempts)
           longer == Append(attempts, row)
           S == {i \in DOMAIN attempts : attempts[i].event = v}
           T == {i \in DOMAIN longer : longer[i].event = v}
<1>1. /\ n \in Nat /\ DOMAIN attempts = 1..n /\ DOMAIN longer = 1..(n + 1)
      /\ longer[n + 1] = row /\ \A i \in 1..n : longer[i] = attempts[i]
  BY AppendProperties
<1>2. IsFiniteSet(S) /\ Cardinality(S) \in Nat
  <2>1. IsFiniteSet(1..n)
    <3>1. n \in Int /\ 1 \in Int
      BY <1>1
    <3> HIDE DEF n
    <3> QED BY <3>1, FS_Interval
  <2>2. S \subseteq 1..n
    BY <1>1
  <2>3. IsFiniteSet(S)
    BY <2>1, <2>2, FS_Subset
  <2> QED BY <2>3, FS_CardinalityType
<1>3. n + 1 \notin S
  BY <1>1
<1>4. T = IF row.event = v THEN S \cup {n + 1} ELSE S
  BY <1>1
<1> HIDE DEF S, T
<1>5. Cardinality(S \cup {n + 1}) = Cardinality(S) + 1
  BY <1>2, <1>3, FS_AddElement
<1>6. Cardinality(T) = Cardinality(S) + IF row.event = v THEN 1 ELSE 0
  BY <1>2, <1>4, <1>5
<1> QED BY <1>2, <1>6 DEF S, T, AttemptsAt

LEMMA WhInitInv == WhInit => WhInv
<1> SUFFICES ASSUME WhInit PROVE WhInv
  OBVIOUS
<1>1. WhTypes /\ RetriesLeft /\ NoDeliveryForgotten
  BY WhLimits DEF WhInit, WhTypes, WhEndpointRows, WhDeliveryRows, RetriesLeft, NoDeliveryForgotten, NoDelivery,
                  RunsIn
<1>2. EndpointsOK
  BY WhLimits DEF WhInit, EndpointsOK, EndpointOK, FailuresCounted
<1>3. ASSUME NEW d \in WhDeliveries PROVE whSends[d] <= whLost[d] + Cardinality(AttemptsOf(d))
  <2>1. d[1] \in WhEndpoints
    BY DEF WhDeliveries
  <2>2. AttemptsOf(d) = {}
    BY <2>1 DEF WhInit, AttemptsOf
  <2> QED BY <2>2, FS_EmptySet DEF WhInit
<1> QED BY <1>1, <1>2, <1>3 DEF WhInv, SendsAreRecorded

\* What an acknowledgement does to the messages of its delivery, and to no other.
LEMMA WhAcknowledges ==
  ASSUME WhTypes, NEW d \in WhDeliveries, NEW state, whMsgs[d] > 0, Acknowledged(d, state)
  PROVE  /\ whMsgs' \in [WhDeliveries -> 0..(WhMaxMsgs + 1)]
         /\ whLost' \in [WhDeliveries -> Nat]
         /\ whLost'[d] >= whLost[d]
         /\ \A k \in WhDeliveries \ {d} : whMsgs'[k] = whMsgs[k] /\ whLost'[k] = whLost[k]
         /\ state = "RETRY_WAIT" => whMsgs'[d] > 0 \/ whLost'[d] > 0
<1>1. /\ whMsgs \in [WhDeliveries -> 0..(WhMaxMsgs + 1)] /\ whMsgs[d] \in 1..(WhMaxMsgs + 1)
      /\ whLost \in [WhDeliveries -> Nat] /\ whLost[d] \in Nat /\ WhMaxMsgs \in Nat
  BY WhLimits DEF WhTypes
<1>2. \/ whMsgs' = [whMsgs EXCEPT ![d] = IF state = "RETRY_WAIT" THEN @ ELSE @ - 1] /\ whLost' = whLost
      \/ whMsgs' = whMsgs /\ whLost' = [whLost EXCEPT ![d] = @ + 1]
      \/ whMsgs' = [whMsgs EXCEPT ![d] = @ - 1] /\ whLost' = [whLost EXCEPT ![d] = @ + 1]
  BY DEF Acknowledged, WhLose
<1>3. CASE whMsgs' = [whMsgs EXCEPT ![d] = IF state = "RETRY_WAIT" THEN @ ELSE @ - 1] /\ whLost' = whLost
  BY <1>1, <1>3
<1>4. CASE whMsgs' = whMsgs /\ whLost' = [whLost EXCEPT ![d] = @ + 1]
  BY <1>1, <1>4
<1>5. CASE whMsgs' = [whMsgs EXCEPT ![d] = @ - 1] /\ whLost' = [whLost EXCEPT ![d] = @ + 1]
  BY <1>1, <1>5
<1> QED BY <1>2, <1>3, <1>4, <1>5

\* A delivery that is made, or replayed for the first time or again, may run at once.
LEMMA WhQueued ==
  ASSUME NEW n \in 0..WhReplayLimit
  PROVE  /\ QueuedDelivery(n) \in WhDeliveryRows /\ QueuedDelivery(n).state = "PENDING"
         /\ QueuedDelivery(n).cycle < WhMaxAttempts /\ QueuedDelivery(n).due
<1>1. 0 < WhMaxAttempts /\ 0 \in 0..WhMaxAttempts
  BY WhLimits
<1> QED BY <1>1 DEF QueuedDelivery, WhDeliveryRows, RunsIn

\* A step that records no attempt and leaves the endpoints as they are.
LEMMA WhQuietStep ==
  ASSUME WhInv, UNCHANGED <<whEndpoints, whAttempts>>, WhTypes',
         \A d \in WhDeliveries :
           \/ whEvents'[d[2]].policy = "unreadable"
           \/ /\ whEvents[d[2]].policy # "unreadable"
              /\ whSends'[d] <= whSends[d] + (whLost'[d] - whLost[d])
  PROVE  EndpointsOK' /\ SendsAreRecorded'
<1>1. EndpointsOK'
  BY DEF WhInv, EndpointsOK
<1>2. \A d \in WhDeliveries : AttemptsOf(d)' = AttemptsOf(d)
  BY DEF AttemptsOf
<1>3. ASSUME NEW d \in WhDeliveries, whEvents'[d[2]].policy # "unreadable"
      PROVE  whSends'[d] <= whLost'[d] + Cardinality(AttemptsOf(d)')
  <2>1. Cardinality(AttemptsOf(d)) \in Nat
    <3>1. whAttempts[d[1]] \in Seq(WhAttemptRows)
      BY DEF WhDeliveries, WhInv, WhTypes
    <3>2. IsFiniteSet(1..Len(whAttempts[d[1]])) /\ DOMAIN whAttempts[d[1]] = 1..Len(whAttempts[d[1]])
      BY <3>1, FS_Interval
    <3>3. AttemptsOf(d) \subseteq 1..Len(whAttempts[d[1]])
      BY <3>2 DEF AttemptsOf
    <3> QED BY <3>2, <3>3, FS_Subset, FS_CardinalityType
  <2>2. whSends[d] <= whLost[d] + Cardinality(AttemptsOf(d))
    BY <1>3 DEF WhInv, SendsAreRecorded
  <2>3. /\ whSends[d] \in Nat /\ whSends'[d] \in Nat /\ whLost[d] \in Nat /\ whLost'[d] \in Nat
        /\ whSends'[d] <= whSends[d] + (whLost'[d] - whLost[d])
    BY <1>3 DEF WhInv, WhTypes
  <2> QED BY <1>2, <2>1, <2>2, <2>3
<1> QED BY <1>1, <1>3 DEF SendsAreRecorded

\* Requests: endpoints, events and replays.
LEMMA WhRequestKeeps ==
  ASSUME WhInv, WhRequest
  PROVE  WhInv'
<1> USE DEF WhInv
<1>1. ASSUME NEW e \in WhEndpoints, RegisterWebhook(e)
      PROVE  WhInv'
  <2>1. WhTypes' /\ RetriesLeft' /\ NoDeliveryForgotten'
    BY <1>1 DEF RegisterWebhook, WhTypes, WhEndpointRows, RetriesLeft, NoDeliveryForgotten
  <2>2. SendsAreRecorded'
    BY <1>1 DEF RegisterWebhook, SendsAreRecorded, AttemptsOf
  <2>3. EndpointsOK'
    <3> SUFFICES ASSUME NEW k \in WhEndpoints PROVE EndpointOK(whEndpoints'[k], whAttempts'[k])
      BY DEF EndpointsOK
    <3>1. EndpointOK(whEndpoints[k], whAttempts[k]) /\ whAttempts'[k] = whAttempts[k]
      BY <1>1 DEF RegisterWebhook, EndpointsOK
    <3>2. CASE k # e
      BY <1>1, <3>1, <3>2 DEF RegisterWebhook, WhTypes
    <3>3. CASE k = e
      <4>1. /\ whEndpoints'[k].state = "ACTIVE" /\ whEndpoints'[k].failures = whEndpoints[k].failures
            /\ whEndpoints[k].state = "NONE" /\ whEndpoints[k].failures \in Nat
        BY <1>1, <3>3 DEF RegisterWebhook, WhTypes, WhEndpointRows
      <4>2. whEndpoints[k].failures = 0
        BY <3>1, <4>1 DEF EndpointOK
      <4> QED BY <3>1, <4>1, <4>2, WhLimits DEF EndpointOK
    <3> QED BY <3>2, <3>3
  <2> QED BY <2>1, <2>2, <2>3
<1>2. ASSUME NEW v \in WhEvents, NEW h \in WhHashes, NEW p \in {"sound", "unreadable"},
             NEW subscribed \in SUBSET WhEndpoints, CreateWebhookEvent(v, h, p, subscribed)
      PROVE  WhInv'
  <2>0. /\ QueuedDelivery(0) \in WhDeliveryRows /\ QueuedDelivery(0).cycle < WhMaxAttempts /\ QueuedDelivery(0).due
        /\ 1 \in 0..(WhMaxMsgs + 1)
    <3>1. 0 \in 0..WhReplayLimit /\ 1 \in 0..(WhMaxMsgs + 1)
      BY WhLimits
    <3> QED BY <3>1, WhQueued
  <2> DEFINE made == {d \in WhDeliveries : d[2] = v /\ d[1] \in subscribed /\ whEndpoints[d[1]].state = "ACTIVE"}
  <2>5. /\ whDeliveries' = [d \in WhDeliveries |-> IF d \in made THEN QueuedDelivery(0) ELSE whDeliveries[d]]
        /\ whMsgs' = [d \in WhDeliveries |-> IF d \in made THEN 1 ELSE whMsgs[d]]
        /\ whEvents' = [whEvents EXCEPT ![v] = [hash |-> h, policy |-> p]]
        /\ UNCHANGED <<whEndpoints, whAttempts, whSends, whLost>>
    BY <1>2 DEF CreateWebhookEvent
  <2> HIDE DEF made
  <2>1. WhTypes'
    <3>1. whDeliveries' \in [WhDeliveries -> WhDeliveryRows]
      BY <2>0, <2>5 DEF WhTypes
    <3>2. whMsgs' \in [WhDeliveries -> 0..(WhMaxMsgs + 1)]
      BY <2>0, <2>5 DEF WhTypes
    <3> QED BY <2>5, <3>1, <3>2 DEF WhTypes
  <2>2. RetriesLeft' /\ NoDeliveryForgotten'
    BY <2>0, <2>5 DEF RetriesLeft, NoDeliveryForgotten
  <2>3. ASSUME NEW d \in WhDeliveries
        PROVE  \/ whEvents'[d[2]].policy = "unreadable"
               \/ /\ whEvents[d[2]].policy # "unreadable"
                  /\ whSends'[d] <= whSends[d] + (whLost'[d] - whLost[d])
    <3>1. d[2] \in WhEvents
      BY DEF WhDeliveries
    <3>2. whSends' = whSends /\ whLost' = whLost /\ whSends[d] \in Nat /\ whLost[d] \in Nat
      BY <1>2 DEF CreateWebhookEvent, WhTypes
    <3>3. whEvents'[d[2]] = whEvents[d[2]] \/ whEvents[d[2]] = NoEvent
      BY <1>2, <3>1 DEF CreateWebhookEvent, WhTypes
    <3> QED BY <3>2, <3>3 DEF NoEvent
  <2>4. EndpointsOK' /\ SendsAreRecorded'
    BY <1>2, <2>1, <2>3, WhQuietStep DEF CreateWebhookEvent
  <2> QED BY <2>1, <2>2, <2>4
<1>3. ASSUME NEW d \in WhDeliveries, ReplayDelivery(d)
      PROVE  WhInv'
  <2> DEFINE row == QueuedDelivery(whDeliveries[d].replays + 1)
  <2>5. /\ whDeliveries' = [whDeliveries EXCEPT ![d] = row]
        /\ UNCHANGED <<whEndpoints, whEvents, whAttempts, whSends>>
        /\ whDeliveries[d].replays < WhReplayLimit
    BY <1>3 DEF ReplayDelivery, ReplayAllowed
  <2>6. row \in WhDeliveryRows /\ row.cycle < WhMaxAttempts /\ row.due
    <3>1. whDeliveries[d].replays + 1 \in 0..WhReplayLimit
      BY <2>5, WhLimits DEF WhTypes, WhDeliveryRows
    <3> QED BY <3>1, WhQueued
  <2> HIDE DEF row
  <2>7. /\ whMsgs' \in [WhDeliveries -> 0..(WhMaxMsgs + 1)] /\ whLost' \in [WhDeliveries -> Nat]
        /\ \A k \in WhDeliveries : whLost'[k] >= whLost[k]
        /\ whMsgs'[d] > 0 \/ whLost'[d] > 0
        /\ \A k \in WhDeliveries \ {d} : whMsgs'[k] = whMsgs[k] /\ whLost'[k] = whLost[k]
    <3>1. CASE whMsgs[d] < WhMaxMsgs /\ whMsgs' = [whMsgs EXCEPT ![d] = @ + 1] /\ whLost' = whLost
      BY <3>1, WhLimits DEF WhTypes
    <3>2. CASE whLost' = [whLost EXCEPT ![d] = @ + 1] /\ whMsgs' = whMsgs
      BY <3>2, WhLimits DEF WhTypes
    <3> QED BY <1>3, <3>1, <3>2 DEF ReplayDelivery, WhLose
  <2>1. WhTypes'
    BY <2>5, <2>6, <2>7 DEF WhTypes
  <2>2. RetriesLeft' /\ NoDeliveryForgotten'
    BY <2>5, <2>6, <2>7 DEF WhTypes, RetriesLeft, NoDeliveryForgotten
  <2>3. ASSUME NEW k \in WhDeliveries
        PROVE  \/ whEvents'[k[2]].policy = "unreadable"
               \/ /\ whEvents[k[2]].policy # "unreadable"
                  /\ whSends'[k] <= whSends[k] + (whLost'[k] - whLost[k])
    <3>1. whSends[k] \in Nat /\ whLost[k] \in Nat /\ whLost'[k] \in Nat /\ whLost'[k] >= whLost[k]
      BY <2>7 DEF WhTypes
    <3> QED BY <2>5, <3>1
  <2>4. EndpointsOK' /\ SendsAreRecorded'
    BY <2>1, <2>3, <2>5, WhQuietStep
  <2> QED BY <2>1, <2>2, <2>4
<1> QED BY <1>1, <1>2, <1>3 DEF WhRequest

\* A delivery that is run: what each end of it does to its row.
LEMMA WhRowAfter ==
  ASSUME WhInv, NEW d \in WhDeliveries, NEW row \in WhDeliveryRows,
         row.state \in RunsIn => row.state = "RETRY_WAIT" /\ row.cycle < WhMaxAttempts,
         whDeliveries' = [whDeliveries EXCEPT ![d] = row],
         whMsgs[d] > 0, Acknowledged(d, row.state)
  PROVE  /\ whDeliveries' \in [WhDeliveries -> WhDeliveryRows]
         /\ RetriesLeft' /\ NoDeliveryForgotten'
<1>1. /\ whDeliveries' \in [WhDeliveries -> WhDeliveryRows] /\ whDeliveries'[d] = row
      /\ \A k \in WhDeliveries \ {d} : whDeliveries'[k] = whDeliveries[k]
  BY DEF WhInv, WhTypes
<1>2. /\ \A k \in WhDeliveries \ {d} : whMsgs'[k] = whMsgs[k] /\ whLost'[k] = whLost[k]
      /\ row.state = "RETRY_WAIT" => whMsgs'[d] > 0 \/ whLost'[d] > 0
  BY WhAcknowledges DEF WhInv
<1>3. RetriesLeft'
  BY <1>1 DEF WhInv, RetriesLeft, RunsIn
<1>4. NoDeliveryForgotten'
  BY <1>1, <1>2 DEF WhInv, NoDeliveryForgotten
<1> QED BY <1>1, <1>3, <1>4

LEMMA ExecuteDeliveryKeeps ==
  ASSUME WhInv, NEW d \in WhDeliveries, NEW answer \in WhAnswers, ExecuteDelivery(d, answer)
  PROVE  WhInv'
<1> USE DEF WhInv
<1> DEFINE e == d[1]
           v == d[2]
           cycle == whDeliveries[d].cycle + 1
           outcome == AttemptOutcome(answer, cycle)
           attempt == [event |-> v, outcome |-> outcome]
           row == RowAfter(whDeliveries[d], StateAfter(outcome), cycle)
<1>0. e \in WhEndpoints /\ v \in WhEvents /\ d = <<e, v>>
  BY DEF WhDeliveries
<1>1. /\ whMsgs[d] > 0 /\ whDeliveries[d].state \in RunsIn /\ whEndpoints[e].state = "ACTIVE"
      /\ whSends' = [whSends EXCEPT ![d] = @ + 1]
      /\ whAttempts' = [whAttempts EXCEPT ![e] = Append(whAttempts[e], attempt)]
      /\ whEndpoints' = [whEndpoints EXCEPT ![e] = EndpointAfter(whEndpoints[e], outcome)]
      /\ Acknowledged(d, StateAfter(outcome))
      /\ whEvents' = whEvents
  BY DEF ExecuteDelivery, Runs, Received, RecordAttempt
<1>2. whDeliveries' = [whDeliveries EXCEPT ![d] = row]
  BY DEF ExecuteDelivery
<1>3. /\ whDeliveries[d] \in WhDeliveryRows /\ cycle \in 1..WhMaxAttempts
      /\ outcome \in WhOutcomes
      /\ outcome = "RETRYABLE_FAILURE" => cycle < WhMaxAttempts
  BY <1>1, WhLimits DEF WhTypes, WhDeliveryRows, RetriesLeft, AttemptOutcome, WhOutcomes
<1>4. /\ StateAfter(outcome) \in {"DELIVERED", "RETRY_WAIT", "DEAD_LETTERED"}
      /\ StateAfter(outcome) = "RETRY_WAIT" => outcome = "RETRYABLE_FAILURE"
  <2> HIDE DEF outcome
  <2>1. CASE outcome = "SUCCEEDED"
    BY <2>1 DEF StateAfter
  <2>2. CASE outcome = "RETRYABLE_FAILURE"
    BY <2>2 DEF StateAfter
  <2>3. CASE outcome = "FINAL_FAILURE"
    BY <2>3 DEF StateAfter
  <2> QED BY <1>3, <2>1, <2>2, <2>3 DEF WhOutcomes
<1>5. /\ row \in WhDeliveryRows /\ row.state = StateAfter(outcome) /\ row.cycle = cycle
  <2> DEFINE after == StateAfter(outcome)
  <2>1. after \in RunsIn \cup {"DELIVERED", "DEAD_LETTERED", "CANCELLED"} /\ cycle \in 0..WhMaxAttempts
    BY <1>3, <1>4, WhLimits DEF RunsIn
  <2>2. whDeliveries[d].replays \in 0..WhReplayLimit
    BY <1>3 DEF WhDeliveryRows
  <2> HIDE DEF outcome, cycle, after
  <2> QED BY <2>1, <2>2 DEF WhDeliveryRows, RowAfter, after
<1>6. attempt \in WhAttemptRows /\ attempt.outcome = outcome
  <2> HIDE DEF outcome
  <2> QED BY <1>0, <1>3 DEF WhAttemptRows
<1> HIDE DEF cycle, outcome, row, attempt
<1>7. /\ whDeliveries' \in [WhDeliveries -> WhDeliveryRows] /\ RetriesLeft' /\ NoDeliveryForgotten'
  <2>1. row.state \in RunsIn => row.state = "RETRY_WAIT" /\ row.cycle < WhMaxAttempts
    BY <1>3, <1>4, <1>5 DEF RunsIn
  <2> QED BY <1>1, <1>2, <1>5, <2>1, WhRowAfter
<1>8. /\ EndpointAfter(whEndpoints[e], outcome) \in WhEndpointRows
      /\ EndpointOK(EndpointAfter(whEndpoints[e], outcome), Append(whAttempts[e], attempt))
  <2>1. whEndpoints[e] \in WhEndpointRows /\ whAttempts[e] \in Seq(WhAttemptRows)
        /\ EndpointOK(whEndpoints[e], whAttempts[e])
    BY <1>0 DEF WhTypes, EndpointsOK
  <2>2. /\ EndpointAfter(whEndpoints[e], attempt.outcome) \in WhEndpointRows
        /\ EndpointOK(EndpointAfter(whEndpoints[e], attempt.outcome), Append(whAttempts[e], attempt))
    BY <1>1, <1>6, <2>1, EndpointCounts
  <2> QED BY <1>6, <2>2
<1>9. EndpointsOK'
  <2> SUFFICES ASSUME NEW k \in WhEndpoints PROVE EndpointOK(whEndpoints'[k], whAttempts'[k])
    BY DEF EndpointsOK
  <2>1. CASE k = e
    BY <1>1, <1>8, <2>1 DEF WhTypes
  <2>2. CASE k # e
    <3>1. whEndpoints'[k] = whEndpoints[k] /\ whAttempts'[k] = whAttempts[k]
      BY <1>1, <2>2 DEF WhTypes
    <3> QED BY <3>1 DEF EndpointsOK
  <2> QED BY <2>1, <2>2
<1>10. whMsgs' \in [WhDeliveries -> 0..(WhMaxMsgs + 1)] /\ whLost' \in [WhDeliveries -> Nat]
       /\ \A k \in WhDeliveries : whLost'[k] >= whLost[k]
  <2>1. \A k \in WhDeliveries : whLost[k] \in Nat
    BY DEF WhTypes
  <2> QED BY <1>1, <2>1, WhAcknowledges
<1>11. WhTypes'
  <2>1. whAttempts' \in [WhEndpoints -> Seq(WhAttemptRows)]
    BY <1>0, <1>1, <1>6, AppendProperties DEF WhTypes
  <2>2. whEndpoints' \in [WhEndpoints -> WhEndpointRows]
    BY <1>0, <1>1, <1>8 DEF WhTypes
  <2>3. whSends' \in [WhDeliveries -> Nat]
    BY <1>1 DEF WhTypes
  <2> QED BY <1>1, <1>7, <1>10, <2>1, <2>2, <2>3 DEF WhTypes
<1>12. SendsAreRecorded'
  <2> SUFFICES ASSUME NEW k \in WhDeliveries, whEvents'[k[2]].policy # "unreadable"
               PROVE  whSends'[k] <= whLost'[k] + Cardinality(AttemptsOf(k)')
    BY DEF SendsAreRecorded
  <2>0. k[1] \in WhEndpoints /\ k[2] \in WhEvents /\ k = <<k[1], k[2]>>
    BY DEF WhDeliveries
  <2>1. /\ whSends[k] <= whLost[k] + Cardinality(AttemptsOf(k))
        /\ whSends[k] \in Nat /\ whLost[k] \in Nat /\ whLost'[k] \in Nat /\ whLost'[k] >= whLost[k]
        /\ whSends'[k] = whSends[k] + IF k = d THEN 1 ELSE 0
    <3>1. whSends[k] <= whLost[k] + Cardinality(AttemptsOf(k))
      BY <1>1 DEF SendsAreRecorded
    <3>2. whSends'[k] = whSends[k] + IF k = d THEN 1 ELSE 0
      BY <1>1 DEF WhTypes
    <3> QED BY <1>10, <3>1, <3>2 DEF WhTypes
  <2>2. /\ Cardinality(AttemptsOf(k)) \in Nat /\ Cardinality(AttemptsOf(k)') \in Nat
        /\ Cardinality(AttemptsOf(k)') >= Cardinality(AttemptsOf(k)) + IF k = d THEN 1 ELSE 0
    <3>1. whAttempts[k[1]] \in Seq(WhAttemptRows)
      BY <2>0 DEF WhTypes
    <3>2. CASE k[1] = e
      <4>1. whAttempts'[k[1]] = Append(whAttempts[k[1]], attempt)
        BY <1>0, <1>1, <3>2 DEF WhTypes
      <4>2. attempt.event = k[2] <=> k = d
        BY <1>0, <2>0, <3>2 DEF attempt
      <4> DEFINE a == whAttempts[k[1]]
                 w == k[2]
      <4>3. AttemptsAt(a, w) = AttemptsOf(k) /\ AttemptsAt(Append(a, attempt), w) = AttemptsOf(k)'
        BY <4>1 DEF AttemptsOf, AttemptsAt
      <4>4. /\ Cardinality(AttemptsAt(a, w)) \in Nat
            /\ Cardinality(AttemptsAt(Append(a, attempt), w)) =
                 Cardinality(AttemptsAt(a, w)) + IF attempt.event = w THEN 1 ELSE 0
        BY <1>6, <3>1, AttemptsGrow
      <4> HIDE DEF a, w
      <4>5. CASE k = d
        BY <4>2, <4>3, <4>4, <4>5 DEF w
      <4>6. CASE k # d
        BY <4>2, <4>3, <4>4, <4>6 DEF w
      <4> QED BY <4>5, <4>6
    <3>3. CASE k[1] # e
      <4>1. whAttempts'[k[1]] = whAttempts[k[1]] /\ k # d
        BY <1>0, <1>1, <2>0, <3>3 DEF WhTypes
      <4>2. Cardinality(AttemptsOf(k)) \in Nat
        BY <1>6, <3>1, AttemptsGrow DEF AttemptsOf, AttemptsAt
      <4> QED BY <4>1, <4>2 DEF AttemptsOf
    <3> QED BY <3>2, <3>3
  <2> QED BY <2>1, <2>2
<1> QED BY <1>7, <1>9, <1>11, <1>12

\* A delivery that ends, or stays as it is, without a recorded attempt.
LEMMA WhUnrecorded ==
  ASSUME WhInv, NEW d \in WhDeliveries, NEW row \in WhDeliveryRows,
         row.state \in RunsIn => row.state = "RETRY_WAIT" /\ row.cycle < WhMaxAttempts,
         whDeliveries' = [whDeliveries EXCEPT ![d] = row],
         whMsgs[d] > 0, Acknowledged(d, row.state),
         UNCHANGED <<whEndpoints, whEvents, whAttempts>>,
         \/ UNCHANGED whSends
         \/ Received(d) /\ whEvents[d[2]].policy = "unreadable"
  PROVE  WhInv'
<1> USE DEF WhInv
<1>1. whDeliveries' \in [WhDeliveries -> WhDeliveryRows] /\ RetriesLeft' /\ NoDeliveryForgotten'
  BY WhRowAfter
<1>2. /\ whMsgs' \in [WhDeliveries -> 0..(WhMaxMsgs + 1)] /\ whLost' \in [WhDeliveries -> Nat]
      /\ whLost'[d] >= whLost[d]
      /\ \A k \in WhDeliveries \ {d} : whLost'[k] = whLost[k]
  BY WhAcknowledges
<1>3. whSends' \in [WhDeliveries -> Nat]
  BY DEF Received, WhTypes
<1>4. WhTypes'
  BY <1>1, <1>2, <1>3 DEF WhTypes
<1>5. ASSUME NEW k \in WhDeliveries
      PROVE  \/ whEvents'[k[2]].policy = "unreadable"
             \/ /\ whEvents[k[2]].policy # "unreadable"
                /\ whSends'[k] <= whSends[k] + (whLost'[k] - whLost[k])
  <2>1. whSends[k] \in Nat /\ whLost[k] \in Nat /\ whLost'[k] \in Nat /\ whLost'[k] >= whLost[k]
    <3>1. whSends[k] \in Nat /\ whLost[k] \in Nat /\ whLost'[k] \in Nat
      BY <1>2 DEF WhTypes
    <3> QED BY <1>2, <3>1
  <2>2. whEvents'[k[2]] = whEvents[k[2]]
    OBVIOUS
  <2>3. whSends'[k] = whSends[k] \/ whEvents[k[2]].policy = "unreadable"
    BY DEF Received, WhTypes
  <2> QED BY <2>1, <2>2, <2>3
<1>6. EndpointsOK' /\ SendsAreRecorded'
  BY <1>4, <1>5, WhQuietStep
<1> QED BY <1>1, <1>4, <1>6

LEMMA WhWorkerKeeps ==
  ASSUME WhInv, NEW d \in WhDeliveries, WhWorker(d)
  PROVE  WhInv'
<1>0. whDeliveries[d] \in WhDeliveryRows
  BY DEF WhInv, WhTypes
<1>1. ASSUME NEW answer \in WhAnswers, FailDelivery(d, answer) PROVE WhInv'
  <2> DEFINE row == RowAfter(whDeliveries[d], "DEAD_LETTERED", whDeliveries[d].cycle)
  <2>1. row \in WhDeliveryRows /\ row.state = "DEAD_LETTERED"
    BY <1>0 DEF RowAfter, WhDeliveryRows
  <2>2. /\ whDeliveries' = [whDeliveries EXCEPT ![d] = row]
        /\ whMsgs[d] > 0 /\ Acknowledged(d, "DEAD_LETTERED")
        /\ UNCHANGED <<whEndpoints, whEvents, whAttempts>>
        /\ Received(d) /\ whEvents[d[2]].policy = "unreadable"
    BY <1>1 DEF FailDelivery, Runs
  <2> HIDE DEF row
  <2> QED BY <2>1, <2>2, WhUnrecorded DEF RunsIn
<1>2. ASSUME CancelDelivery(d) PROVE WhInv'
  <2> DEFINE row == RowAfter(whDeliveries[d], "CANCELLED", whDeliveries[d].cycle)
  <2>1. row \in WhDeliveryRows /\ row.state = "CANCELLED"
    BY <1>0 DEF RowAfter, WhDeliveryRows
  <2>2. /\ whDeliveries' = [whDeliveries EXCEPT ![d] = row]
        /\ whMsgs[d] > 0 /\ Acknowledged(d, "CANCELLED")
        /\ UNCHANGED <<whEndpoints, whEvents, whAttempts, whSends>>
    BY <1>2 DEF CancelDelivery, Runs
  <2> HIDE DEF row
  <2> QED BY <2>1, <2>2, WhUnrecorded DEF RunsIn
<1>3. ASSUME ReturnDelivery(d) PROVE WhInv'
  <2> DEFINE row == whDeliveries[d]
  <2>1. row.state \in RunsIn => row.state = "RETRY_WAIT" /\ row.cycle < WhMaxAttempts
    BY <1>3 DEF ReturnDelivery, WhInv, RetriesLeft, RunsIn
  <2>2. /\ whDeliveries' = [whDeliveries EXCEPT ![d] = row]
        /\ whMsgs[d] > 0 /\ Acknowledged(d, row.state)
        /\ UNCHANGED <<whEndpoints, whEvents, whAttempts, whSends>>
    BY <1>3 DEF ReturnDelivery, RequeuesEarly, WhInv, WhTypes
  <2> QED BY <1>0, <2>1, <2>2, WhUnrecorded
<1> QED BY <1>1, <1>2, <1>3, ExecuteDeliveryKeeps DEF WhWorker

LEMMA WhLostKeeps ==
  ASSUME WhInv, NEW d \in WhDeliveries, LostAfterSend(d)
  PROVE  WhInv'
<1> USE DEF WhInv
<1>1. /\ whMsgs[d] > 0 /\ whMsgs \in [WhDeliveries -> 0..(WhMaxMsgs + 1)] /\ whMsgs[d] \in 0..(WhMaxMsgs + 1)
      /\ WhMaxMsgs \in Nat
  BY WhLimits DEF LostAfterSend, Runs, WhTypes
<1>2. /\ whSends' = [whSends EXCEPT ![d] = @ + 1] /\ whLost' = [whLost EXCEPT ![d] = @ + 1]
      /\ whMsgs' = whMsgs \/ whMsgs' = [whMsgs EXCEPT ![d] = @ - 1]
      /\ UNCHANGED <<whEndpoints, whEvents, whDeliveries, whAttempts>>
  BY DEF LostAfterSend, WhLose, Received
<1>3. whMsgs' \in [WhDeliveries -> 0..(WhMaxMsgs + 1)]
  BY <1>1, <1>2
<1>4. whSends' \in [WhDeliveries -> Nat] /\ whLost' \in [WhDeliveries -> Nat]
  BY <1>2 DEF WhTypes
<1>5. WhTypes'
  BY <1>2, <1>3, <1>4 DEF WhTypes
<1>6. \A k \in WhDeliveries : whSends[k] \in Nat /\ whLost[k] \in Nat
  BY DEF WhTypes
<1>7. \A k \in WhDeliveries : /\ whSends'[k] = whSends[k] + IF k = d THEN 1 ELSE 0
                              /\ whLost'[k] = whLost[k] + IF k = d THEN 1 ELSE 0
                              /\ k # d => whMsgs'[k] = whMsgs[k]
  BY <1>1, <1>2, <1>6 DEF WhTypes
<1>8. ASSUME NEW k \in WhDeliveries
      PROVE  \/ whEvents'[k[2]].policy = "unreadable"
             \/ /\ whEvents[k[2]].policy # "unreadable"
                /\ whSends'[k] <= whSends[k] + (whLost'[k] - whLost[k])
  <2>1. whSends'[k] <= whSends[k] + (whLost'[k] - whLost[k])
    BY <1>6, <1>7
  <2> QED BY <1>2, <2>1
<1>9. EndpointsOK' /\ SendsAreRecorded'
  BY <1>2, <1>5, <1>8, WhQuietStep
<1>10. RetriesLeft'
  BY <1>2 DEF RetriesLeft
<1>11. NoDeliveryForgotten'
  <2>1. \A k \in WhDeliveries : whDeliveries[k].state \in RunsIn => whMsgs'[k] > 0 \/ whLost'[k] > 0
    <3> SUFFICES ASSUME NEW k \in WhDeliveries, whDeliveries[k].state \in RunsIn
                 PROVE  whMsgs'[k] > 0 \/ whLost'[k] > 0
      OBVIOUS
    <3>1. CASE k = d
      BY <1>6, <1>7, <3>1
    <3>2. CASE k # d
      BY <1>6, <1>7, <3>2 DEF NoDeliveryForgotten
    <3> QED BY <3>1, <3>2
  <2> QED BY <1>2, <2>1 DEF NoDeliveryForgotten
<1> QED BY <1>5, <1>9, <1>10, <1>11

LEMMA WhDueKeeps ==
  ASSUME WhInv, NEW d \in WhDeliveries, BecomesDue(d)
  PROVE  WhInv'
<1> USE DEF WhInv
<1> DEFINE row == [whDeliveries[d] EXCEPT !.due = TRUE]
<1>1. row \in WhDeliveryRows /\ row.state = whDeliveries[d].state /\ row.cycle = whDeliveries[d].cycle
  BY DEF WhTypes, WhDeliveryRows
<1>2. /\ whDeliveries' = [whDeliveries EXCEPT ![d] = row]
      /\ whDeliveries[d].state = "RETRY_WAIT"
      /\ UNCHANGED <<whEndpoints, whEvents, whAttempts, whSends, whMsgs, whLost>>
  BY DEF BecomesDue
<1> HIDE DEF row
<1>3. WhTypes'
  BY <1>1, <1>2 DEF WhTypes
<1>4. RetriesLeft' /\ NoDeliveryForgotten'
  BY <1>1, <1>2 DEF WhTypes, RetriesLeft, NoDeliveryForgotten
<1>5. EndpointsOK' /\ SendsAreRecorded'
  BY <1>2 DEF EndpointsOK, SendsAreRecorded, AttemptsOf
<1> QED BY <1>3, <1>4, <1>5

LEMMA WhStep == WhInv /\ [WhNext]_whVars => WhInv'
<1> SUFFICES ASSUME WhInv, [WhNext]_whVars PROVE WhInv'
  OBVIOUS
<1>1. ASSUME NEW d \in WhDeliveries, WhWorker(d) \/ LostAfterSend(d) \/ BecomesDue(d)
      PROVE  WhInv'
  BY <1>1, WhWorkerKeeps, WhLostKeeps, WhDueKeeps
<1>2. CASE UNCHANGED whVars
  BY <1>2 DEF whVars, WhInv, WhTypes, EndpointsOK, RetriesLeft, SendsAreRecorded, NoDeliveryForgotten, AttemptsOf
<1> QED BY <1>1, <1>2, WhRequestKeeps DEF WhNext

LEMMA WhTypesOK == WhInv => WhTypeOK
<1> SUFFICES ASSUME WhInv PROVE WhTypeOK
  OBVIOUS
<1>1. ASSUME NEW e \in WhEndpoints
      PROVE  whEndpoints[e].state \in {"NONE", "ACTIVE", "DISABLED"} /\ whEndpoints[e].failures \in 0..WhThreshold
  <2>1. whEndpoints[e] \in WhEndpointRows /\ whEndpoints[e].failures <= WhThreshold
    BY DEF WhInv, WhTypes, EndpointsOK, EndpointOK
  <2> QED BY <2>1, WhLimits DEF WhEndpointRows
<1>2. \A d \in WhDeliveries : whDeliveries[d] \in WhDeliveryRows
  BY DEF WhInv, WhTypes
<1> QED BY <1>1, <1>2 DEF WhInv, WhTypes, WhTypeOK, WhDeliveryRows

\* Webhooks and API keys keep what they promise whatever the endpoints answer, and
\* however workers, enqueues and commits are lost (domain/developer).
THEOREM WebhooksKeepTheirPromise == WhSpec /\ AkSpec => []WebhookPromise
<1>1. WhSpec => []WhInv
  BY WhInitInv, WhStep, PTL DEF WhSpec
<1>2. AkSpec => []AkInv
  BY AkInitInv, AkStep, PTL DEF AkSpec
<1>3. WhInv /\ AkInv => WebhookPromise
  BY DisablingIsForCause, WhTypesOK DEF WhInv, AkInv, WebhookPromise
<1> QED BY <1>1, <1>2, <1>3, PTL
=============================================================================
