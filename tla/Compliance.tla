----------------------------- MODULE Compliance -----------------------------
(***************************************************************************)
(* Copyright cases, consent evidence and incidents (the rest of domain/    *)
(* security, and the incidents of domain/operations, which have the same   *)
(* shape).  A case or incident row is locked for the whole of a handler,   *)
(* external call included; what the provider did stays done when the       *)
(* answer is refused or the transaction is lost.                           *)
(***************************************************************************)
EXTENDS Integers, Sequences, FiniteSets, Functions

CONSTANTS
  CpEvidence,           \* evidence hashes of decisions
  CoMaxRows,            \* bound: PrivacyConsentEvidence rows of a subject and purpose
  InMaxEvents,          \* bound: event rows of an incident
  InNotices             \* notifications: audience, destination, template and payload

ASSUME CmBounds == CoMaxRows \in Nat /\ InMaxEvents \in Nat

VARIABLES
  cpState,              \* CopyrightCase.state
  cpMessages,           \* copyright messages in the queue
  cpApplied,            \* external: what the provider did, by idempotency key
  cpContent,            \* external: what readers can see of the content
  coRows,               \* consent rows: decision and what each supersedes
  inKind,               \* a security or an operational incident
  inState,              \* SecurityIncident.state, OperationalIncident.state
  inEvents,             \* the incident's event rows: kind, state after, time
  inSent,               \* external: when a notice was delivered
  inNotices,            \* BreachNotification, StatusNotificationEvidence rows
  inNow                 \* the time of day

cpVars == <<cpState, cpMessages, cpApplied, cpContent>>
inVars == <<inKind, inState, inEvents, inSent, inNotices, inNow>>
cmVars == <<cpVars, coRows, inVars>>

CpKeys == {"temporary"} \cup CpEvidence
NotApplied == "nothing"

CmInit ==
  /\ cpState = "NONE" /\ cpMessages = 0 /\ cpContent = "ONLINE"
  /\ cpApplied = [k \in CpKeys |-> NotApplied]
  /\ coRows = <<>>
  /\ inKind \in {"security", "operations"}
  /\ inState = "NONE" /\ inEvents = <<>> /\ inNotices = {} /\ inNow = 1
  /\ inSent = [n \in InNotices |-> 0]

-----------------------------------------------------------------------------
(* Copyright cases.                                                        *)

CreateCopyrightCase ==
  /\ cpState = "NONE" /\ cpState' = "RECEIVED"
  /\ cpMessages' \in {0, 1}     \* sent after the response, unless the process is lost
  /\ UNCHANGED <<cpApplied, cpContent, coRows, inVars>>

\* The provider does what a key asks for once and repeats its first answer.
ApplyAction(key, action) ==
  IF cpApplied[key] # NotApplied THEN UNCHANGED <<cpApplied, cpContent>>
  ELSE /\ cpApplied' = [cpApplied EXCEPT ![key] = action]
       /\ cpContent' = CASE action = "RESTORE" -> "ONLINE"
                         [] action = "REMOVE" -> "REMOVED"
                         [] OTHER -> "RESTRICTED"

CpProcesses == cpState \in {"RECEIVED", "FAILED"}

\* process_copyright_case without a temporary action.
TriageNotice(final) ==
  /\ cpMessages > 0 /\ CpProcesses
  /\ cpState' = final /\ cpMessages' \in {cpMessages, cpMessages - 1}
  /\ UNCHANGED <<cpApplied, cpContent, coRows, inVars>>

\* With one: the evidence is accepted, is refused, or the worker is lost.
ApplyTemporaryAction(final) ==
  /\ cpMessages > 0 /\ CpProcesses
  /\ ApplyAction("temporary", "RESTRICT")
  /\ cpState' = final
  /\ cpMessages' \in IF final = cpState THEN {cpMessages} ELSE {cpMessages, cpMessages - 1}
  /\ UNCHANGED <<coRows, inVars>>

ReturnCopyrightCase ==
  /\ cpMessages > 0 /\ ~CpProcesses
  /\ cpMessages' = cpMessages - 1
  /\ UNCHANGED <<cpState, cpApplied, cpContent, coRows, inVars>>

SubmitCounterNotice ==
  /\ cpState = "WAITING_COUNTER_NOTICE" /\ cpState' = "LEGAL_REVIEW"
  /\ UNCHANGED <<cpMessages, cpApplied, cpContent, coRows, inVars>>

\* ensure_copyright_transition, for the states a decision is taken in.
CpTargets(state) ==
  CASE state = "RECEIVED" -> {"REJECT"}
    [] state = "WAITING_COUNTER_NOTICE" -> {"REMOVE"}
    [] state = "LEGAL_REVIEW" -> {"RESTORE", "REMOVE", "REJECT"}
    [] state \in {"RESTORED", "REMOVED", "REJECTED"} -> {"CLOSE"}
    [] OTHER -> {}

Decided(action) ==
  CASE action = "RESTORE" -> "RESTORED" [] action = "REMOVE" -> "REMOVED"
    [] action = "REJECT" -> "REJECTED" [] action = "CLOSE" -> "CLOSED"

\* Deviation: the answer's action is not compared with the decision's.
AcceptAnyAnswer(key, action) == TRUE

\* The provider's answer, which for a used key is its first one.
AcceptAnswer(key, action) == cpApplied'[key] = action

DecideCopyrightCase(action, evidence, recorded) ==
  /\ action \in CpTargets(cpState)
  /\ IF action \in {"RESTORE", "REMOVE"} THEN ApplyAction(evidence, action)
     ELSE recorded /\ UNCHANGED <<cpApplied, cpContent>>
  /\ IF recorded
     THEN /\ action \in {"RESTORE", "REMOVE"} => AcceptAnswer(evidence, action)
          /\ cpState' = Decided(action)
     ELSE cpState' = cpState
  /\ UNCHANGED <<cpMessages, coRows, inVars>>

-----------------------------------------------------------------------------
(* Consent.  An advisory lock of the subject and purpose is held.          *)

CoRow == DOMAIN coRows
Superseded(r) == \E s \in CoRow : coRows[s].supersedes = r

Supersedable(r) == IF r = 0 THEN CoRow = {} ELSE r \in CoRow /\ ~Superseded(r)

AppendConsent(decision, r) ==
  /\ Len(coRows) < CoMaxRows /\ Supersedable(r)
  /\ decision = "WITHDRAWN" => r # 0 /\ coRows[r].decision = "GRANTED"
  /\ coRows' = Append(coRows, [decision |-> decision, supersedes |-> r])
  /\ UNCHANGED <<cpVars, inVars>>

-----------------------------------------------------------------------------
(* Incidents and the notices about them.                                   *)

SecurityTransitions(state) ==
  CASE state = "DETECTED" -> {"TRIAGED", "CONTAINING"}
    [] state = "TRIAGED" -> {"CONTAINING", "CONTAINED"}
    [] state = "CONTAINING" -> {"CONTAINED"}
    [] state = "CONTAINED" -> {"RECOVERING"}
    [] state = "RECOVERING" -> {"MONITORING", "RESOLVED"}
    [] state = "MONITORING" -> {"RECOVERING", "RESOLVED"}
    [] OTHER -> {}

OperationsTransitions(state) ==
  CASE state = "INVESTIGATING" -> {"IDENTIFIED", "MONITORING", "RESOLVED"}
    [] state = "IDENTIFIED" -> {"MONITORING", "RESOLVED"}
    [] state = "MONITORING" -> {"IDENTIFIED", "RESOLVED"}
    [] OTHER -> {}

InTransitions(state) ==
  IF inKind = "security" THEN SecurityTransitions(state) ELSE OperationsTransitions(state)

InLast == IF inEvents = <<>> THEN 0 ELSE inEvents[Len(inEvents)].at

\* Not before the last event, and at most five minutes ahead of the clock.
InOrder(at) == at >= InLast /\ at <= inNow + 1

\* _append_incident_event
InAppend(kind, state, at) ==
  /\ Len(inEvents) < InMaxEvents /\ InOrder(at)
  /\ inEvents' = Append(inEvents, [kind |-> kind, state |-> state, at |-> at])

OpenIncident(kind, state) ==
  /\ inKind = kind /\ inState = "NONE" /\ inState' = state
  /\ InAppend("OPENED", state, inNow)
  /\ UNCHANGED <<cpVars, coRows, inKind, inSent, inNotices, inNow>>

CreateSecurityIncident == OpenIncident("security", "DETECTED")
CreateIncident == OpenIncident("operations", "INVESTIGATING")

\* An event leaves the state as it is or moves it on.
AppendEvent(kind, at) ==
  /\ inKind = kind /\ inState # "NONE"
  /\ \E state \in {inState} \cup InTransitions(inState) :
       inState' = state /\ InAppend(IF state = "RESOLVED" THEN "RESOLVED" ELSE "NOTE", state, at)
  /\ UNCHANGED <<cpVars, coRows, inKind, inSent, inNotices, inNow>>

AppendSecurityIncidentEvent(at) == AppendEvent("security", at)
AppendIncidentEvent(at) == AppendEvent("operations", at)

\* The notifier sends what a key names once and repeats its first answer.
SendOnce(n) == [inSent EXCEPT ![n] = IF @ = 0 THEN inNow ELSE @]

\* A notice whose first answer was lost is recorded by a later request only if
\* no event has happened since it was delivered.
Notify(kind, n, recorded) ==
  /\ inKind = kind /\ inState # "NONE" /\ n \notin inNotices
  /\ inSent' = SendOnce(n)
  /\ IF recorded
     THEN /\ InAppend("NOTICE", inState, inSent'[n])
          /\ inNotices' = inNotices \cup {n}
     ELSE UNCHANGED <<inEvents, inNotices>>
  /\ UNCHANGED <<cpVars, coRows, inKind, inState, inNow>>

NotifySecurityIncident(n, recorded) == Notify("security", n, recorded)
NotifyIncident(n, recorded) == Notify("operations", n, recorded)

TimePasses ==
  /\ inNow < InMaxEvents /\ inNow' = inNow + 1
  /\ UNCHANGED <<cpVars, coRows, inKind, inState, inEvents, inSent, inNotices>>

-----------------------------------------------------------------------------
CopyrightNext ==
  \/ CreateCopyrightCase \/ SubmitCounterNotice \/ ReturnCopyrightCase
  \/ \E final \in {"REJECTED", "LEGAL_REVIEW", "FAILED"} : TriageNotice(final)
  \/ \E final \in {"WAITING_COUNTER_NOTICE", "FAILED", cpState} : ApplyTemporaryAction(final)
  \/ \E action \in {"RESTORE", "REMOVE", "REJECT", "CLOSE"}, evidence \in CpEvidence,
        recorded \in BOOLEAN : DecideCopyrightCase(action, evidence, recorded)

ConsentNext ==
  \E decision \in {"GRANTED", "WITHDRAWN"}, r \in 0..CoMaxRows :
    AppendConsent(decision, r)

IncidentNext ==
  \/ CreateSecurityIncident \/ CreateIncident \/ TimePasses
  \/ \E at \in 1..InMaxEvents : AppendSecurityIncidentEvent(at) \/ AppendIncidentEvent(at)
  \/ \E n \in InNotices, recorded \in BOOLEAN :
       NotifySecurityIncident(n, recorded) \/ NotifyIncident(n, recorded)

CmNext == CopyrightNext \/ ConsentNext \/ IncidentNext
CmSpec == CmInit /\ [][CmNext]_cmVars

-----------------------------------------------------------------------------
(* Properties.                                                             *)

\* A case that says content was restored or removed is backed by the provider
\* having done it, also when the evidence of an earlier, unrecorded decision is
\* used again and the provider answers with what it did then.
DecisionWasApplied ==
  /\ cpState = "RESTORED" => "RESTORE" \in Range(cpApplied)
  /\ cpState = "REMOVED" => "REMOVE" \in Range(cpApplied)

\* Once a case is decided its content is left alone, whatever messages of it are
\* still delivered.
DecidedIsLeftAlone ==
  (cpState \in {"RESTORED", "REMOVED", "REJECTED", "CLOSED"}) => UNCHANGED cpContent

\* The consents of a subject for a purpose are one chain: one of them is in
\* force, and a withdrawal ends a consent that was given.
ConsentIsOneChain ==
  CoRow # {} => Cardinality({r \in CoRow : ~Superseded(r)}) = 1

\* An incident's timeline tells what happened: each event follows the last in
\* time and from its state, and a notice that was recorded is in it with the
\* time at which it reached its recipient.
TimelineIsTrue ==
  /\ \A k \in DOMAIN inEvents \ {1} :
       /\ inEvents[k].at >= inEvents[k - 1].at
       /\ inEvents[k].state \in {inEvents[k - 1].state} \cup InTransitions(inEvents[k - 1].state)
  /\ \A n \in inNotices : \E k \in DOMAIN inEvents :
       inEvents[k].kind = "NOTICE" /\ inEvents[k].at = inSent[n]

\* What the compliance records promise: they tell what was done, and a decided case is
\* left alone (domain/security, domain/operations).
CompliancePromise ==
  [][ /\ ( /\ DecisionWasApplied
           /\ ConsentIsOneChain
           /\ TimelineIsTrue )'
      /\ DecidedIsLeftAlone ]_cmVars

=============================================================================
