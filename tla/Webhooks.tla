------------------------------ MODULE Webhooks ------------------------------
(***************************************************************************)
(* Outgoing webhooks and API keys (domain/developer).  An event makes one  *)
(* delivery for every endpoint that is active; a worker sends it in one    *)
(* transaction that holds the delivery and the endpoint, so a worker lost  *)
(* after the request leaves nothing but what the endpoint received.  An    *)
(* endpoint that fails too often in a row is disabled for good.            *)
(***************************************************************************)
EXTENDS Integers, FiniteSets, Sequences

CONSTANTS
  WhEndpoints,          \* WebhookEndpoint rows
  WhEvents,             \* source_event_id of events
  WhHashes,             \* payload_hash of events
  WhMaxAttempts,        \* max_attempts of a delivery
  WhReplayLimit,        \* manual_replay_limit of a delivery
  WhThreshold,          \* failure_disable_threshold of an endpoint
  WhMaxMsgs,            \* bound: messages of one delivery
  WhMaxLost,            \* bound: workers, enqueues and commits lost, for one delivery
  AkKeys                \* ApiKey rows

\* The checks of the tables: thresholds and attempts are positive.
ASSUME WhLimits == /\ WhThreshold \in Nat \ {0} /\ WhMaxAttempts \in Nat \ {0}
                   /\ WhReplayLimit \in Nat /\ WhMaxMsgs \in Nat
\* The id of a key is never the mark of one that is not there.
ASSUME AkIds == "none" \notin AkKeys

VARIABLES
  whEndpoints,          \* WebhookEndpoint: state and failure_count
  whEvents,             \* WebhookEvent: payload_hash and the policy it carries
  whDeliveries,         \* WebhookDelivery by endpoint and event
  whAttempts,           \* WebhookDeliveryAttempt rows of an endpoint, oldest first
  whSends,              \* requests of a delivery the endpoint may have received
  whMsgs,               \* messages of a delivery at the broker
  whLost,               \* workers, enqueues and commits lost so far, by delivery
  akKeys                \* ApiKey rows

whVars == <<whEndpoints, whEvents, whDeliveries, whAttempts, whSends, whMsgs, whLost>>
akVars == <<akKeys>>

NoEvent == [hash |-> "none", policy |-> "none"]
NoDelivery == [state |-> "NONE", cycle |-> 0, replays |-> 0, due |-> FALSE]
QueuedDelivery(replays) == [state |-> "PENDING", cycle |-> 0, replays |-> replays, due |-> TRUE]
WhDeliveries == WhEndpoints \X WhEvents

WhInit ==
  /\ whEndpoints = [e \in WhEndpoints |-> [state |-> "NONE", failures |-> 0]]
  /\ whEvents = [v \in WhEvents |-> NoEvent]
  /\ whDeliveries = [d \in WhDeliveries |-> NoDelivery]
  /\ whAttempts = [e \in WhEndpoints |-> <<>>]
  /\ whSends = [d \in WhDeliveries |-> 0]
  /\ whMsgs = [d \in WhDeliveries |-> 0]
  /\ whLost = [d \in WhDeliveries |-> 0]

WhLose(d) == whLost[d] < WhMaxLost /\ whLost' = [whLost EXCEPT ![d] = @ + 1]

-----------------------------------------------------------------------------
(* Endpoints and events.                                                   *)

RegisterWebhook(e) ==
  /\ whEndpoints[e].state = "NONE"
  /\ whEndpoints' = [whEndpoints EXCEPT ![e].state = "ACTIVE"]
  /\ UNCHANGED <<whEvents, whDeliveries, whAttempts, whSends, whMsgs, whLost>>

\* The active endpoints whose event_types hold the type of the event get a delivery.
\* A repeated event answers with those it made the first time; the messages come
\* from its outbox records.
CreateWebhookEvent(v, hash, policy, subscribed) ==
  LET made == {d \in WhDeliveries : d[2] = v /\ d[1] \in subscribed /\ whEndpoints[d[1]].state = "ACTIVE"}
  IN  /\ whEvents[v] = NoEvent
      /\ whEvents' = [whEvents EXCEPT ![v] = [hash |-> hash, policy |-> policy]]
      /\ whDeliveries' = [d \in WhDeliveries |->
                            IF d \in made THEN QueuedDelivery(0) ELSE whDeliveries[d]]
      /\ whMsgs' = [d \in WhDeliveries |-> IF d \in made THEN 1 ELSE whMsgs[d]]
      /\ UNCHANGED <<whEndpoints, whAttempts, whSends, whLost>>

-----------------------------------------------------------------------------
(* One message: a transaction that holds the delivery and the endpoint.    *)

RunsIn == {"PENDING", "RETRY_WAIT"}

\* The answers of the endpoint; "unreachable" is every error of the transport.
WhAnswers == {"accepted", "busy", "refused", "unreachable"}

AttemptOutcome(answer, cycle) ==
  IF answer = "accepted" THEN "SUCCEEDED"
  ELSE IF answer \in {"busy", "unreachable"} /\ cycle < WhMaxAttempts
       THEN "RETRYABLE_FAILURE"
       ELSE "FINAL_FAILURE"

StateAfter(outcome) ==
  CASE outcome = "SUCCEEDED" -> "DELIVERED"
    [] outcome = "RETRYABLE_FAILURE" -> "RETRY_WAIT"
    [] outcome = "FINAL_FAILURE" -> "DEAD_LETTERED"

RowAfter(row, state, cycle) ==
  [state |-> state, cycle |-> cycle, replays |-> row.replays, due |-> FALSE]

\* Deviation: a success leaves the failures that came before it counted.
CountedForever(endpoint, outcome) ==
  LET failures == endpoint.failures + IF outcome = "SUCCEEDED" THEN 0 ELSE 1
  IN  [state |-> IF failures >= WhThreshold THEN "DISABLED" ELSE endpoint.state,
       failures |-> failures]

EndpointAfter(endpoint, outcome) ==
  LET failures == IF outcome = "SUCCEEDED" THEN 0 ELSE endpoint.failures + 1
  IN  [state |-> IF failures >= WhThreshold THEN "DISABLED" ELSE endpoint.state,
       failures |-> failures]

\* The message is acknowledged after the commit and after the task enqueued
\* the next attempt, or the worker is lost before that and it comes back.
Acknowledged(d, state) ==
  \/ whMsgs' = [whMsgs EXCEPT ![d] = IF state = "RETRY_WAIT" THEN @ ELSE @ - 1] /\ UNCHANGED whLost
  \/ WhLose(d) /\ UNCHANGED whMsgs
  \/ WhLose(d) /\ state = "RETRY_WAIT" /\ whMsgs' = [whMsgs EXCEPT ![d] = @ - 1]

Runs(d) == whMsgs[d] > 0 /\ whDeliveries[d].state \in RunsIn /\ whDeliveries[d].due

RecordAttempt(d, outcome) ==
  Append(whAttempts[d[1]], [event |-> d[2], outcome |-> outcome])

\* An answer that was lost is an error of the transport too: it counts as received.
Received(d) == whSends' = [whSends EXCEPT ![d] = @ + 1]

ExecuteDelivery(d, answer) ==
  LET cycle == whDeliveries[d].cycle + 1
      outcome == AttemptOutcome(answer, cycle)
  IN  /\ Runs(d)
      /\ whEndpoints[d[1]].state = "ACTIVE"
      /\ whEvents[d[2]].policy = "sound" \/ answer = "unreachable"
      /\ Received(d)
      /\ whAttempts' = [whAttempts EXCEPT ![d[1]] = RecordAttempt(d, outcome)]
      /\ whDeliveries' = [whDeliveries EXCEPT ![d] = RowAfter(@, StateAfter(outcome), cycle)]
      /\ whEndpoints' = [whEndpoints EXCEPT ![d[1]] = EndpointAfter(@, outcome)]
      /\ Acknowledged(d, StateAfter(outcome))
      /\ UNCHANGED whEvents

\* A retry policy whose statuses cannot be read is met after the request.
FailDelivery(d, answer) ==
  /\ Runs(d)
  /\ whEndpoints[d[1]].state = "ACTIVE"
  /\ whEvents[d[2]].policy = "unreadable" /\ answer # "unreachable"
  /\ Received(d)
  /\ whDeliveries' = [whDeliveries EXCEPT ![d] = RowAfter(@, "DEAD_LETTERED", @.cycle)]
  /\ Acknowledged(d, "DEAD_LETTERED")
  /\ UNCHANGED <<whEndpoints, whEvents, whAttempts>>

CancelDelivery(d) ==
  /\ Runs(d)
  /\ whEndpoints[d[1]].state # "ACTIVE"
  /\ whDeliveries' = [whDeliveries EXCEPT ![d] = RowAfter(@, "CANCELLED", @.cycle)]
  /\ Acknowledged(d, "CANCELLED")
  /\ UNCHANGED <<whEndpoints, whEvents, whAttempts, whSends>>

\* Deviation: only a delivery that was due is enqueued again.
DropsEarly(d) == whMsgs' = [whMsgs EXCEPT ![d] = @ - 1] /\ UNCHANGED whLost

RequeuesEarly(d) == Acknowledged(d, whDeliveries[d].state)

\* Settled, or not due yet: the row is returned as it is.
ReturnDelivery(d) ==
  /\ whMsgs[d] > 0
  /\ whDeliveries[d].state \notin RunsIn \/ ~whDeliveries[d].due
  /\ RequeuesEarly(d)
  /\ UNCHANGED <<whEndpoints, whEvents, whDeliveries, whAttempts, whSends>>

\* The worker is lost after the request and before the commit, and the message comes
\* back; or the commit fails, and it does not.
LostAfterSend(d) ==
  /\ Runs(d)
  /\ whEndpoints[d[1]].state = "ACTIVE"
  /\ WhLose(d)
  /\ Received(d)
  /\ whMsgs' \in {whMsgs, [whMsgs EXCEPT ![d] = @ - 1]}
  /\ UNCHANGED <<whEndpoints, whEvents, whDeliveries, whAttempts>>

BecomesDue(d) ==
  /\ whDeliveries[d].state = "RETRY_WAIT" /\ ~whDeliveries[d].due
  /\ whDeliveries' = [whDeliveries EXCEPT ![d].due = TRUE]
  /\ UNCHANGED <<whEndpoints, whEvents, whAttempts, whSends, whMsgs, whLost>>

ReplayAllowed(d) ==
  whDeliveries[d].replays < WhReplayLimit /\ whEndpoints[d[1]].state = "ACTIVE"

\* A replay starts a new cycle from any state, one that is running included.
ReplayDelivery(d) ==
  /\ whDeliveries[d] # NoDelivery
  /\ ReplayAllowed(d)
  /\ whDeliveries' = [whDeliveries EXCEPT ![d] = QueuedDelivery(whDeliveries[d].replays + 1)]
  /\ \/ whMsgs[d] < WhMaxMsgs /\ whMsgs' = [whMsgs EXCEPT ![d] = @ + 1] /\ UNCHANGED whLost
     \/ WhLose(d) /\ UNCHANGED whMsgs
  /\ UNCHANGED <<whEndpoints, whEvents, whAttempts, whSends>>

WhWorker(d) ==
  \/ \E answer \in WhAnswers : ExecuteDelivery(d, answer) \/ FailDelivery(d, answer)
  \/ CancelDelivery(d)
  \/ ReturnDelivery(d)

WhRequest ==
  \/ \E e \in WhEndpoints : RegisterWebhook(e)
  \/ \E v \in WhEvents, h \in WhHashes, p \in {"sound", "unreadable"} :
       \E subscribed \in SUBSET WhEndpoints : CreateWebhookEvent(v, h, p, subscribed)
  \/ \E d \in WhDeliveries : ReplayDelivery(d)

WhNext ==
  \/ WhRequest
  \/ \E d \in WhDeliveries : WhWorker(d) \/ LostAfterSend(d) \/ BecomesDue(d)

WhSpec == WhInit /\ [][WhNext]_whVars

-----------------------------------------------------------------------------
(* API keys.                                                               *)

NoKey == [state |-> "NONE", generation |-> 0, from |-> "none", to |-> "none"]

AkInit == akKeys = [k \in AkKeys |-> NoKey]

CreateApiKey(k) ==
  /\ akKeys[k] = NoKey
  /\ akKeys' = [akKeys EXCEPT ![k].state = "ACTIVE", ![k].generation = 1]

Rotates(old) == old.state = "ACTIVE"

\* Holds the old key: of two rotations the second finds it rotated.
RotateApiKey(k, new) ==
  /\ Rotates(akKeys[k])
  /\ akKeys[new] = NoKey
  /\ akKeys' = [akKeys EXCEPT
       ![new] = [state |-> "ACTIVE", generation |-> akKeys[k].generation + 1, from |-> k, to |-> "none"],
       ![k].state = "ROTATED", ![k].to = new]

RevokeApiKey(k) ==
  /\ akKeys[k].state = "ACTIVE"
  /\ akKeys' = [akKeys EXCEPT ![k].state = "REVOKED"]

AkNext ==
  \E k \in AkKeys :
    \/ CreateApiKey(k)
    \/ \E new \in AkKeys : RotateApiKey(k, new)
    \/ RevokeApiKey(k)

AkSpec == AkInit /\ [][AkNext]_akVars

-----------------------------------------------------------------------------

WhTypeOK ==
  /\ \A e \in WhEndpoints :
       /\ whEndpoints[e].state \in {"NONE", "ACTIVE", "DISABLED"}
       /\ whEndpoints[e].failures \in 0..WhThreshold
  /\ whEvents \in [WhEvents -> {NoEvent} \cup [hash : WhHashes, policy : {"sound", "unreadable"}]]
  /\ \A d \in WhDeliveries :
       whDeliveries[d] \in [state : RunsIn \cup {"NONE", "DELIVERED", "DEAD_LETTERED", "CANCELLED"},
                            cycle : 0..WhMaxAttempts, replays : 0..WhReplayLimit, due : BOOLEAN]
  /\ whMsgs \in [WhDeliveries -> 0..(WhMaxMsgs + 1)]

WhFailed(row) == row.outcome # "SUCCEEDED"

\* An endpoint is disabled exactly when its last failure_disable_threshold
\* attempts, of whichever deliveries, all failed: failures interleaved by
\* several workers are counted once each and a success forgets them.
DisabledForCause ==
  \A e \in WhEndpoints :
    LET n == Len(whAttempts[e])
        inARow == n >= WhThreshold /\ \A i \in (n - WhThreshold + 1)..n : WhFailed(whAttempts[e][i])
    IN  whEndpoints[e].state = "DISABLED" <=> inARow

AttemptsOf(d) == {i \in DOMAIN whAttempts[d[1]] : whAttempts[d[1]][i].event = d[2]}

\* Every request an endpoint may have received is one of the recorded attempts, unless a
\* worker or a commit was lost or the retry policy could not be read (execute_delivery).
SendsAreRecorded ==
  \A d \in WhDeliveries :
    whEvents[d[2]].policy # "unreadable" => whSends[d] <= whLost[d] + Cardinality(AttemptsOf(d))

\* A delivery that is to be sent has a message at the broker unless an enqueue
\* was lost: an early or repeated message is put back rather than dropped
\* (process_webhook_delivery_task).
NoDeliveryForgotten ==
  \A d \in WhDeliveries : whDeliveries[d].state \in RunsIn => whMsgs[d] > 0 \/ whLost[d] > 0

\* Under working workers every delivery is settled, whatever the endpoint
\* answers and however often it is replayed, unless an enqueue was lost.
DeliveriesSettle ==
  \A d \in WhDeliveries :
    whDeliveries[d].state \in RunsIn ~> (whDeliveries[d].state \notin RunsIn \/ whLost[d] > 0)

\* Of the keys one key was rotated into, at most one is active, each key has
\* one successor, and generations count the rotations (rotate_api_key).
OneActiveKeyPerLineage ==
  \A k \in AkKeys :
    /\ akKeys[k].to # "none" =>
         /\ akKeys[k].state = "ROTATED"
         /\ akKeys[akKeys[k].to].from = k
         /\ akKeys[akKeys[k].to].generation = akKeys[k].generation + 1
    /\ akKeys[k].from # "none" =>
         akKeys[akKeys[k].from].to = k /\ akKeys[akKeys[k].from].state # "ACTIVE"

\* What webhooks and API keys promise: sends are recorded and repeated while they are
\* due, an endpoint is disabled for cause, and a rotated key has one live successor
\* (domain/developer).
WebhookPromise ==
  /\ WhTypeOK
  /\ DisabledForCause
  /\ SendsAreRecorded
  /\ NoDeliveryForgotten
  /\ OneActiveKeyPerLineage

=============================================================================
