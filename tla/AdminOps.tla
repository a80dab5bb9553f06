------------------------------ MODULE AdminOps ------------------------------
(***************************************************************************)
(* Operator actions (domain/admin): support access a customer approves for *)
(* a time, commands that need the approval of several operators, and the   *)
(* delivery of notifications with retries and a sweep for what is due.     *)
(***************************************************************************)
EXTENDS Integers, FiniteSets

CONSTANTS
  AdOperators,          \* operators
  AdRequests,           \* SupportAccessRequest rows
  AdScopes,             \* SUPPORT_ALLOWED_SCOPES
  AdContent,            \* the scope content:read_masked
  AdCommands,           \* AdminCommand rows
  AdRequired,           \* required_approvals
  AdNotices,            \* NotificationDelivery rows
  AdMaxAttempts,        \* max_attempts of a notification delivery
  AdMaxMsgs,            \* bound: messages of one command or notification
  AdMaxLost             \* bound: workers and enqueues lost

\* The checks of the tables: required_approvals and max_attempts are positive.
ASSUME AdLimits == AdRequired \in Nat \ {0} /\ AdMaxAttempts \in Nat \ {0} /\ AdMaxMsgs \in Nat

VARIABLES
  adAccess,             \* SupportAccessRequest rows
  adSessions,           \* AdminElevationSession by request: scopes, {} when there is none
  adCommands,           \* AdminCommand rows
  adApprovals,          \* AdminCommandApproval rows: approver and decision
  adEffects,            \* effects of the executor by command
  adNotices,            \* NotificationDelivery rows
  adSent,               \* notifications the sender accepted, by delivery
  adMsgs, adLost

adAccessVars == <<adAccess, adSessions>>
adCommandVars == <<adCommands, adApprovals, adEffects>>
adNoticeVars == <<adNotices, adSent>>
adVars == <<adAccessVars, adCommandVars, adNoticeVars, adMsgs, adLost>>

NoAccess == [state |-> "NONE", by |-> "none", requested |-> {}, content |-> FALSE,
             approved |-> {}, consent |-> FALSE, live |-> FALSE]
NoAdCommand == [state |-> "NONE", by |-> "none", count |-> 0]
NoNotice == [state |-> "NONE", attempts |-> 0, due |-> FALSE]

AdInit ==
  /\ adAccess = [r \in AdRequests |-> NoAccess]
  /\ adSessions = [r \in AdRequests |-> {}]
  /\ adCommands = [c \in AdCommands |-> NoAdCommand]
  /\ adApprovals = [c \in AdCommands |-> {}]
  /\ adEffects = [c \in AdCommands |-> 0]
  /\ adNotices = [n \in AdNotices |-> NoNotice]
  /\ adSent = [n \in AdNotices |-> 0]
  /\ adMsgs = [m \in AdCommands \cup AdNotices |-> 0]
  /\ adLost = 0

AdLose == adLost < AdMaxLost /\ adLost' = adLost + 1

AdEnqueue(m) ==
  \/ adMsgs[m] < AdMaxMsgs /\ adMsgs' = [adMsgs EXCEPT ![m] = @ + 1] /\ UNCHANGED adLost
  \/ AdLose /\ UNCHANGED adMsgs

\* Acknowledged after the commit, or the message comes back.
AdAcknowledge(m) ==
  \/ adMsgs' = [adMsgs EXCEPT ![m] = @ - 1] /\ UNCHANGED adLost
  \/ AdLose /\ UNCHANGED adMsgs

-----------------------------------------------------------------------------
(* Support access.                                                         *)

CreateSupportAccessRequest(r, operator, scopes, content) ==
  /\ adAccess[r] = NoAccess
  /\ scopes \subseteq AdScopes /\ scopes # {}
  /\ AdContent \in scopes => content
  /\ adAccess' = [adAccess EXCEPT ![r] = [NoAccess EXCEPT !.state = "PENDING_CUSTOMER",
       !.by = operator, !.requested = scopes, !.content = content]]
  /\ UNCHANGED <<adSessions, adCommandVars, adNoticeVars, adMsgs, adLost>>

AuthorizeSupportScopes(scopes, consent) ==
  scopes # {} /\ scopes \subseteq AdScopes /\ (AdContent \in scopes => consent)

DecideSupportAccess(r, scopes, consent) ==
  /\ adAccess[r].state = "PENDING_CUSTOMER"
  /\ \/ /\ scopes \subseteq adAccess[r].requested
        /\ consent => adAccess[r].content
        /\ AuthorizeSupportScopes(scopes, consent)
        /\ adAccess' = [adAccess EXCEPT ![r].state = "APPROVED", ![r].approved = scopes,
                                        ![r].consent = consent, ![r].live = TRUE]
     \/ adAccess' = [adAccess EXCEPT ![r].state = "DENIED"]
  /\ UNCHANGED <<adSessions, adCommandVars, adNoticeVars, adMsgs, adLost>>

AccessExpires(r) ==
  /\ adAccess[r].live
  /\ adAccess' = [adAccess EXCEPT ![r].live = FALSE]
  /\ UNCHANGED <<adSessions, adCommandVars, adNoticeVars, adMsgs, adLost>>

ScopesApproved(request) == request.approved

\* The session ends when the approval does: its expires_at is the request's.
StartElevationSession(r, operator) ==
  /\ adAccess[r].state = "APPROVED" /\ adAccess[r].live
  /\ adAccess[r].by = operator
  /\ adSessions[r] = {}
  /\ adSessions' = [adSessions EXCEPT ![r] = ScopesApproved(adAccess[r])]
  /\ UNCHANGED <<adAccess, adCommandVars, adNoticeVars, adMsgs, adLost>>

-----------------------------------------------------------------------------
(* Commands.                                                               *)

AdSettled == {"SUCCEEDED", "FAILED", "REJECTED", "CANCELLED"}

CreateCommand(c, operator) ==
  /\ adCommands[c] = NoAdCommand
  /\ adCommands' = [adCommands EXCEPT ![c] = [state |-> "PENDING_APPROVAL", by |-> operator, count |-> 0]]
  /\ UNCHANGED <<adApprovals, adEffects, adAccessVars, adNoticeVars, adMsgs, adLost>>

\* Deviation: an operator may approve twice.
ApproverIsAnother(requester, operator, prior) == requester # operator

ValidateTwoPersonApproval(requester, operator, prior) ==
  requester # operator /\ operator \notin prior

Approvers(c) == {a.by : a \in adApprovals[c]}

DecidedState(c, decision) ==
  IF decision = "REJECT" THEN "REJECTED"
  ELSE IF adCommands[c].count + 1 >= AdRequired THEN "READY"
  ELSE "PENDING_APPROVAL"

\* Holds the command row; the router enqueues the command that became READY.
DecideCommand(c, operator, decision) ==
  /\ adCommands[c].state = "PENDING_APPROVAL"
  /\ ValidateTwoPersonApproval(adCommands[c].by, operator, Approvers(c))
  /\ adApprovals' = [adApprovals EXCEPT ![c] = @ \cup {[by |-> operator, decision |-> decision]}]
  /\ adCommands' = [adCommands EXCEPT ![c].state = DecidedState(c, decision),
                                      ![c].count = @ + IF decision = "APPROVE" THEN 1 ELSE 0]
  /\ IF DecidedState(c, decision) = "READY" THEN AdEnqueue(c) ELSE UNCHANGED <<adMsgs, adLost>>
  /\ UNCHANGED <<adEffects, adAccessVars, adNoticeVars>>

\* The executor takes command_id for its key.
EffectOnce(n) == 1

\* DISPATCHED is only ever seen inside the transaction.
ExecuteReadyCommand(c, done, state) ==
  /\ adMsgs[c] > 0
  /\ adCommands[c].state = "READY"
  /\ state = "SUCCEEDED" => done
  /\ adEffects' = [adEffects EXCEPT ![c] = IF done THEN EffectOnce(@) ELSE @]
  /\ adCommands' = [adCommands EXCEPT ![c].state = state]
  /\ AdAcknowledge(c)
  /\ UNCHANGED <<adApprovals, adAccessVars, adNoticeVars>>

\* The worker is lost with or without the effect, and the message comes back; or the
\* commit fails, and it does not.
LostExecuting(c, done) ==
  /\ adMsgs[c] > 0
  /\ adCommands[c].state = "READY"
  /\ AdLose
  /\ adEffects' = [adEffects EXCEPT ![c] = IF done THEN EffectOnce(@) ELSE @]
  /\ adMsgs' \in {adMsgs, [adMsgs EXCEPT ![c] = @ - 1]}
  /\ UNCHANGED <<adCommands, adApprovals, adAccessVars, adNoticeVars>>

ReturnCommand(c) ==
  /\ adMsgs[c] > 0
  /\ adCommands[c].state \in AdSettled
  /\ AdAcknowledge(c)
  /\ UNCHANGED <<adCommandVars, adAccessVars, adNoticeVars>>

-----------------------------------------------------------------------------
(* Notifications.                                                          *)

\* Rows come from outside; the sweep finds them.
QueueNotification(n) ==
  /\ adNotices[n] = NoNotice
  /\ adNotices' = [adNotices EXCEPT ![n] = [state |-> "PENDING", attempts |-> 0, due |-> TRUE]]
  /\ UNCHANGED <<adSent, adAccessVars, adCommandVars, adMsgs, adLost>>

\* The task enqueues what it left PENDING before it is acknowledged.
NotificationTaskEnds(n, state) ==
  IF state = "PENDING" THEN UNCHANGED <<adMsgs, adLost>> \/ (AdLose /\ UNCHANGED adMsgs)
                            \/ (AdLose /\ adMsgs' = [adMsgs EXCEPT ![n] = @ - 1])
  ELSE AdAcknowledge(n)

MayRetryNotification(attempts) == attempts < AdMaxAttempts

FailedNotice(n, retryable) ==
  LET attempts == adNotices[n].attempts + 1
      state == IF retryable /\ MayRetryNotification(attempts) THEN "PENDING" ELSE "FAILED"
  IN  [state |-> state, attempts |-> attempts, due |-> FALSE]

NoticeDue(n) == adMsgs[n] > 0 /\ adNotices[n].state = "PENDING" /\ adNotices[n].due

\* delivery_id is the sender's key: what it accepted once it does not send again.
SendsOnce(n) == [adSent EXCEPT ![n] = 1]

ExecuteNotificationDelivery(n) ==
  /\ NoticeDue(n)
  /\ adNotices[n].attempts < AdMaxAttempts
  /\ adNotices' = [adNotices EXCEPT ![n] = [state |-> "SENT", attempts |-> @.attempts + 1, due |-> FALSE]]
  /\ adSent' = SendsOnce(n)
  /\ NotificationTaskEnds(n, "SENT")
  /\ UNCHANGED <<adAccessVars, adCommandVars>>

\* The sender may have accepted it although its answer is an error.
FailNotificationDelivery(n, accepted, retryable) ==
  /\ NoticeDue(n)
  /\ adNotices[n].attempts < AdMaxAttempts
  /\ adNotices' = [adNotices EXCEPT ![n] = FailedNotice(n, retryable)]
  /\ adSent' = IF accepted THEN SendsOnce(n) ELSE adSent
  /\ NotificationTaskEnds(n, FailedNotice(n, retryable).state)
  /\ UNCHANGED <<adAccessVars, adCommandVars>>

ReturnNotification(n) ==
  /\ adMsgs[n] > 0
  /\ ~NoticeDue(n)
  /\ NotificationTaskEnds(n, adNotices[n].state)
  /\ UNCHANGED <<adAccessVars, adCommandVars, adNoticeVars>>

\* The same for a notification: its row is as it was, what was sent is sent.
LostNotification(n, accepted) ==
  /\ NoticeDue(n)
  /\ AdLose
  /\ adSent' = IF accepted THEN SendsOnce(n) ELSE adSent
  /\ adMsgs' \in {adMsgs, [adMsgs EXCEPT ![n] = @ - 1]}
  /\ UNCHANGED <<adNotices, adAccessVars, adCommandVars>>

NoticeBecomesDue(n) ==
  /\ adNotices[n].state = "PENDING" /\ ~adNotices[n].due
  /\ adNotices' = [adNotices EXCEPT ![n].due = TRUE]
  /\ UNCHANGED <<adSent, adAccessVars, adCommandVars, adMsgs, adLost>>

SweepFinds(n) == adNotices[n].state = "PENDING" /\ adNotices[n].due

ScheduleDueNotifications ==
  /\ \E n \in AdNotices : SweepFinds(n) /\ adMsgs[n] = 0
  /\ adMsgs' = [m \in DOMAIN adMsgs |->
                  IF m \in AdNotices /\ SweepFinds(m) /\ adMsgs[m] < AdMaxMsgs
                  THEN adMsgs[m] + 1 ELSE adMsgs[m]]
  /\ UNCHANGED <<adAccessVars, adCommandVars, adNoticeVars, adLost>>

-----------------------------------------------------------------------------

AccessRequests ==
  \E r \in AdRequests :
    \/ \E o \in AdOperators :
         \/ \E s \in SUBSET AdScopes, content \in BOOLEAN : CreateSupportAccessRequest(r, o, s, content)
         \/ StartElevationSession(r, o)
    \/ \E s \in SUBSET AdScopes, consent \in BOOLEAN : DecideSupportAccess(r, s, consent)
    \/ AccessExpires(r)

CommandRequests ==
  \E c \in AdCommands, o \in AdOperators :
    CreateCommand(c, o) \/ \E d \in {"APPROVE", "REJECT"} : DecideCommand(c, o, d)

RunAdminCommand ==
  \E c \in AdCommands :
    \/ \E done \in BOOLEAN, state \in {"SUCCEEDED", "FAILED"} : ExecuteReadyCommand(c, done, state)
    \/ ReturnCommand(c)
    \/ \E done \in BOOLEAN : LostExecuting(c, done)

RunNotificationDelivery(n) ==
  \/ ExecuteNotificationDelivery(n)
  \/ \E accepted, retryable \in BOOLEAN : FailNotificationDelivery(n, accepted, retryable)
  \/ ReturnNotification(n)

Notifications ==
  \/ \E n \in AdNotices : QueueNotification(n) \/ NoticeBecomesDue(n) \/ RunNotificationDelivery(n)
  \/ \E n \in AdNotices, accepted \in BOOLEAN : LostNotification(n, accepted)
  \/ ScheduleDueNotifications

AdNext == AccessRequests \/ CommandRequests \/ RunAdminCommand \/ Notifications
AdSpec == AdInit /\ [][AdNext]_adVars

-----------------------------------------------------------------------------

\* What an operator may see was requested by that operator, approved by the
\* customer, and contains content only where the customer consented to it.
ElevationWasApproved ==
  \A r \in AdRequests :
    /\ adSessions[r] \subseteq adAccess[r].approved \cap adAccess[r].requested
    /\ AdContent \in adSessions[r] => adAccess[r].consent /\ adAccess[r].content

\* A command has an effect only after the required number of different
\* operators, none of them its requester, approved it and nobody rejected it.
EffectsWereApproved ==
  \A c \in AdCommands :
    adEffects[c] > 0 =>
      /\ Cardinality({a \in adApprovals[c] : a.decision = "APPROVE"}) >= AdRequired
      /\ adCommands[c].by \notin Approvers(c)
      /\ \A a \in adApprovals[c] : a.decision = "APPROVE"

\* One effect per command however often its worker is lost or its message
\* repeated, and a command that succeeded had it (execute_ready_command).
OneEffectPerCommand ==
  \A c \in AdCommands :
    adEffects[c] <= 1 /\ (adCommands[c].state = "SUCCEEDED" => adEffects[c] = 1)

AdTypeOK ==
  /\ \A c \in AdCommands : adCommands[c].count \in 0..AdRequired
  /\ \A n \in AdNotices :
       /\ adNotices[n].state \in {"NONE", "PENDING", "SENT", "FAILED"}
       /\ adNotices[n].attempts \in 0..AdMaxAttempts
       /\ adNotices[n].state = "SENT" => adSent[n] = 1
  /\ adMsgs \in [AdCommands \cup AdNotices -> 0..AdMaxMsgs]

\* A notification whose message the broker has is sent or given up under working
\* workers, since the task enqueues the next attempt and attempts are bounded,
\* unless a worker or an enqueue is lost (process_notification_delivery_task).
NoticesEnqueuedEnd ==
  \A n \in AdNotices :
    adNotices[n].state = "PENDING" /\ adMsgs[n] > 0
      ~> adNotices[n].state # "PENDING" \/ adLost > 0

\* The sweep repairs what was lost: IF the deployment calls it again and again,
\* every notification is sent or given up.  Nothing in the repository calls it, so
\* the specification does not assume it (schedule_due_notification_deliveries_task).
SweptNoticesEnd ==
  WF_adVars(ScheduleDueNotifications) =>
    \A n \in AdNotices : adNotices[n].state = "PENDING" ~> adNotices[n].state # "PENDING"

\* What administration promises: access and commands were approved by others, and a
\* command has one effect (domain/admin).
AdminPromise ==
  /\ AdTypeOK
  /\ ElevationWasApproved
  /\ EffectsWereApproved
  /\ OneEffectPerCommand

=============================================================================
