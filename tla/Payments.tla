------------------------------ MODULE Payments ------------------------------
(***************************************************************************)
(* Payment intents and provider events (domain/billing).  A command is     *)
(* written once per idempotency key; a worker asks the provider for a      *)
(* checkout under a key made of the command's id, in one transaction that  *)
(* holds the command and also records the failure.  Verified provider      *)
(* events are archived and stored once per provider_event_id; the check    *)
(* and the insert are two steps of a request without a lock.               *)
(***************************************************************************)
EXTENDS Integers, FiniteSets

CONSTANTS
  PayCommands,          \* (requester, operation, idempotency_key) of a command
  PayBodies,            \* request hashes of commands, and hashes of event bodies
  PayEvents,            \* provider_event_id
  PayCallers,           \* requests that deliver an event
  PayMaxMsgs,           \* bound: messages of one command
  PayMaxLost            \* bound: workers, enqueues and commits lost, for one command

\* A hash is a SHA-256 digest: none of them is the mark of a row that is not there.
ASSUME PayHashes == "none" \notin PayBodies

VARIABLES
  payCommands,          \* PaymentCommand: state and request_hash
  payCheckouts,         \* checkouts at the provider by the key they were asked with
  payEvents,            \* raw_payload_hash of a PaymentProviderEvent
  payArchive,           \* bodies in the archive
  payCalls,             \* what a request in progress delivers and has seen
  payAnswers,           \* how often an event was acknowledged to the provider
  payMsgs, payLost      \* messages of a command, and those lost

payVars == <<payCommands, payCheckouts, payEvents, payArchive, payCalls, payAnswers, payMsgs, payLost>>
payIntentVars == <<payCommands, payCheckouts, payMsgs>>
payEventVars == <<payEvents, payArchive, payCalls, payAnswers>>

NoCommand == [state |-> "NONE", hash |-> "none"]
NoCall == [event |-> "none", body |-> "none"]

PayInit ==
  /\ payCommands = [c \in PayCommands |-> NoCommand]
  /\ payCheckouts = [c \in PayCommands |-> 0]
  /\ payEvents = [v \in PayEvents |-> "none"]
  /\ payArchive = {}
  /\ payCalls = [r \in PayCallers |-> NoCall]
  /\ payAnswers = [v \in PayEvents |-> {}]
  /\ payMsgs = [c \in PayCommands |-> 0]
  /\ payLost = [c \in PayCommands |-> 0]

PayLose(c) == payLost[c] < PayMaxLost /\ payLost' = [payLost EXCEPT ![c] = @ + 1]

-----------------------------------------------------------------------------
(* Commands.                                                               *)

EnqueuePaymentIntent(c) ==
  \/ payMsgs[c] < PayMaxMsgs /\ payMsgs' = [payMsgs EXCEPT ![c] = @ + 1] /\ UNCHANGED payLost
  \/ PayLose(c) /\ UNCHANGED payMsgs

\* A repeated key with the same request answers with the command as it is.
QueueOnce(c, hash) ==
  \/ /\ payCommands[c] = NoCommand
     /\ payCommands' = [payCommands EXCEPT ![c] = [state |-> "PENDING_PROVIDER", hash |-> hash]]
  \/ payCommands[c].hash = hash /\ UNCHANGED payCommands

\* The router enqueues the command whether it is new or not.
QueuePaymentIntent(c, hash) ==
  /\ QueueOnce(c, hash)
  /\ EnqueuePaymentIntent(c)
  /\ UNCHANGED <<payCheckouts, payEventVars>>

PaySettled == {"PROVIDER_ACCEPTED", "PROVIDER_REJECTED", "FAILED"}

\* The provider answers a repeated key with the checkout it made.
CheckoutOnce(n) == 1

\* How a call to the provider ends, and the state that is recorded for it.
CheckoutOutcomes ==
  {[made |-> TRUE, state |-> "PROVIDER_ACCEPTED"],      \* a checkout of the right form
   [made |-> TRUE, state |-> "FAILED"],                 \* one that is not, or whose answer is lost
   [made |-> FALSE, state |-> "FAILED"],                \* 408, 429, 5xx and any other error
   [made |-> FALSE, state |-> "PROVIDER_REJECTED"]}     \* any other 4xx

AcknowledgePayment(c) ==
  \/ payMsgs' = [payMsgs EXCEPT ![c] = @ - 1] /\ UNCHANGED payLost
  \/ PayLose(c) /\ UNCHANGED payMsgs

CheckoutsAfter(c, made) == [payCheckouts EXCEPT ![c] = IF made THEN CheckoutOnce(@) ELSE @]

ExecutePaymentIntent(c, outcome) ==
  /\ payMsgs[c] > 0
  /\ payCommands[c].state = "PENDING_PROVIDER"
  /\ payCheckouts' = CheckoutsAfter(c, outcome.made)
  /\ payCommands' = [payCommands EXCEPT ![c].state = outcome.state]
  /\ AcknowledgePayment(c)
  /\ UNCHANGED payEventVars

ReturnPayment(c) ==
  /\ payMsgs[c] > 0
  /\ payCommands[c].state \in PaySettled
  /\ AcknowledgePayment(c)
  /\ UNCHANGED <<payCommands, payCheckouts, payEventVars>>

\* The worker is lost after the call, and the message comes back; or the transaction
\* fails, the record of the failure with it, and it does not.
LostAfterCheckout(c, made) ==
  /\ payMsgs[c] > 0
  /\ payCommands[c].state = "PENDING_PROVIDER"
  /\ PayLose(c)
  /\ payCheckouts' = CheckoutsAfter(c, made)
  /\ payMsgs' \in {payMsgs, [payMsgs EXCEPT ![c] = @ - 1]}
  /\ UNCHANGED <<payCommands, payEventVars>>

-----------------------------------------------------------------------------
(* Events.  The provider repeats an event until it is answered.            *)

\* The event is not stored yet: its body is archived.
IngestArchives(r, v, body) ==
  /\ payCalls[r] = NoCall
  /\ payEvents[v] = "none"
  /\ payArchive' = payArchive \cup {<<v, body>>}
  /\ payCalls' = [payCalls EXCEPT ![r] = [event |-> v, body |-> body]]
  /\ UNCHANGED <<payEvents, payAnswers, payIntentVars, payLost>>

\* Deviation: the last of two inserts wins.
InsertOverwrites(v, body) == payEvents' = [payEvents EXCEPT ![v] = body]

\* The unique (provider, provider_event_id) refuses the second insert.
InsertOnce(v, body) == payEvents[v] = "none" /\ payEvents' = [payEvents EXCEPT ![v] = body]

IngestInserts(r) ==
  LET v == payCalls[r].event
  IN  /\ payCalls[r] # NoCall
      /\ InsertOnce(v, payCalls[r].body)
      /\ payAnswers' = [payAnswers EXCEPT ![v] = @ \cup {payCalls[r].body}]
      /\ payCalls' = [payCalls EXCEPT ![r] = NoCall]
      /\ UNCHANGED <<payArchive, payIntentVars, payLost>>

\* The request ends in an error or its process is lost.
IngestFails(r) ==
  /\ payCalls[r] # NoCall
  /\ payCalls' = [payCalls EXCEPT ![r] = NoCall]
  /\ UNCHANGED <<payEvents, payArchive, payAnswers, payIntentVars, payLost>>

AnswersSame(v, body) == payEvents[v] = body

\* A repeated event with the stored hash is acknowledged, any other refused.
IngestRepeats(r, v, body) ==
  /\ payCalls[r] = NoCall
  /\ AnswersSame(v, body)
  /\ payAnswers' = [payAnswers EXCEPT ![v] = @ \cup {body}]
  /\ UNCHANGED <<payEvents, payArchive, payCalls, payIntentVars, payLost>>

PayRequest == \E c \in PayCommands, h \in PayBodies : QueuePaymentIntent(c, h)

PayWorker ==
  \E c \in PayCommands :
    \/ \E outcome \in CheckoutOutcomes : ExecutePaymentIntent(c, outcome)
    \/ ReturnPayment(c)
    \/ \E made \in BOOLEAN : LostAfterCheckout(c, made)

ReceivePaymentEvent ==
  \E r \in PayCallers :
    \/ \E v \in PayEvents, b \in PayBodies : IngestArchives(r, v, b) \/ IngestRepeats(r, v, b)
    \/ IngestInserts(r)
    \/ IngestFails(r)

PayNext == PayRequest \/ PayWorker \/ ReceivePaymentEvent
PaySpec == PayInit /\ [][PayNext]_payVars

-----------------------------------------------------------------------------

\* However often a command is enqueued, redelivered or its worker lost, the
\* provider makes one checkout for it, and the ones that were accepted are real.
OneCheckoutPerCommand ==
  \A c \in PayCommands :
    /\ payCheckouts[c] <= 1
    /\ payCommands[c].state = "PROVIDER_ACCEPTED" => payCheckouts[c] = 1

\* What became of a command never changes, whatever messages still come
\* and whatever is asked with its key again (execute_payment_intent).
PaymentOutcomeIsFinal ==
  \A c \in PayCommands : payCommands[c].state \in PaySettled => payCommands'[c] = payCommands[c]

\* The provider is acknowledged only for a body that is the stored one and is
\* in the archive, whichever of two concurrent deliveries won.
AnswersMatchStore ==
  \A v \in PayEvents : \A body \in payAnswers[v] :
    payEvents[v] = body /\ <<v, body>> \in payArchive

\* A command that waits for the provider has a message unless one of its own was
\* lost, whatever happened to the messages of other commands.
NoPaymentForgotten ==
  \A c \in PayCommands : payCommands[c].state = "PENDING_PROVIDER" => payMsgs[c] > 0 \/ payLost[c] > 0

\* What payments promise: one checkout and one outcome for a command, one stored body
\* for a provider's event (domain/billing/service.py).
PaymentPromise ==
  [][ /\ ( /\ OneCheckoutPerCommand
           /\ AnswersMatchStore
           /\ NoPaymentForgotten )'
      /\ PaymentOutcomeIsFinal ]_payVars

=============================================================================
