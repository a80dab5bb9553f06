----------------------------- MODULE MCCommerce -----------------------------
(***************************************************************************)
(* Webhooks, API keys, payments, the agency portal and administration      *)
(* share no state: a behaviour follows the part that `focus' names.        *)
(***************************************************************************)
EXTENDS Webhooks, Payments, Agency, AdminOps
VARIABLE focus
vars == <<focus, whVars, akVars, payVars, agVars, adVars>>
Init ==
  /\ focus \in {"webhooks", "keys", "intents", "events", "portal", "provisioning",
                "access", "commands", "notifications"}
  /\ WhInit /\ AkInit /\ PayInit /\ AgInit /\ AdInit
StepWebhooks(A) == focus = "webhooks" /\ A /\ UNCHANGED <<focus, akVars, payVars, agVars, adVars>>
StepPayments(A) == A /\ UNCHANGED <<focus, whVars, akVars, agVars, adVars>>
StepAgency(A) == A /\ UNCHANGED <<focus, whVars, akVars, payVars, adVars>>
StepAdmin(A) == A /\ UNCHANGED <<focus, whVars, akVars, payVars, agVars>>
Next ==
  \/ StepWebhooks(WhNext)
  \/ focus = "keys" /\ AkNext /\ UNCHANGED <<focus, whVars, payVars, agVars, adVars>>
  \/ focus = "intents" /\ StepPayments(PayRequest \/ PayWorker)
  \/ focus = "events" /\ StepPayments(ReceivePaymentEvent)
  \/ focus = "portal" /\ StepAgency(PortalRequest)
  \/ focus = "provisioning" /\ StepAgency(ProvisioningRequest \/ AgWorker)
  \/ focus = "access" /\ StepAdmin(AccessRequests)
  \/ focus = "commands" /\ StepAdmin(CommandRequests \/ RunAdminCommand)
  \/ focus = "notifications" /\ StepAdmin(Notifications)
Fairness ==
  /\ \A d \in WhDeliveries :
       WF_vars(StepWebhooks(WhWorker(d))) /\ WF_vars(StepWebhooks(BecomesDue(d)))
  /\ \A n \in AdNotices :
       WF_vars(StepAdmin(RunNotificationDelivery(n))) /\ WF_vars(StepAdmin(NoticeBecomesDue(n)))
Spec == Init /\ [][Next]_vars /\ Fairness

\* Nothing that is to be sent waits for ever: every webhook delivery is settled,
\* whatever the endpoint answers and however often it is replayed, and every
\* notification with a message is sent or given up, unless a worker or an enqueue
\* was lost; a sweep that goes on finds also what was lost (execute_delivery,
\* schedule_due_notification_deliveries_task).
MessagesSettle == DeliveriesSettle /\ NoticesEnqueuedEnd /\ SweptNoticesEnd
=============================================================================
