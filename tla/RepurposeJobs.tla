---------------------------- MODULE RepurposeJobs ----------------------------
(***************************************************************************)
(* Repurposing jobs (domain/repurpose): items, each a content version and  *)
(* a template frozen in a snapshot, of which a model writes variants under *)
(* one credit hold.  A delivery is one transaction that holds the job row; *)
(* what the model fails with is caught inside it, so that the variants     *)
(* recorded before are kept.  Variants are reviewed, exported and sent to  *)
(* a social network whatever their job does.                               *)
(***************************************************************************)
EXTENDS Integers, FiniteSets, Sequences, SequencesExt, JobState

CONSTANTS
  RpJobs,               \* RepurposeJob rows
  RpCounts,             \* variant_count of each item, in the order of positions
  RpReserved,           \* reserved_cost
  RpReviewed,           \* bound: the slots <<item, variant_no>> somebody reviews
  RpKeys,               \* idempotency keys of commands
  RpDeliveryKeys,       \* idempotency keys of deliveries to the social network
  RpMaxMsgs,            \* bound: deliveries of one job
  RpMaxAttempts,        \* bound: runs of one job
  RpMaxFaults           \* bound: workers, requests or deliveries lost

ASSUME RpNumbers ==
  /\ RpCounts \in Seq(Nat \ {0}) /\ RpCounts # <<>>
  /\ RpReserved \in Nat /\ RpMaxMsgs \in Nat /\ RpMaxAttempts \in Nat /\ RpMaxFaults \in Nat

VARIABLES
  rpJobs,               \* RepurposeJob rows
  rpItems,              \* RepurposeJobItem states
  rpVariants,           \* slots with a RepurposeVariant row
  rpHolds,              \* the credit hold behind budget_reservation_ref
  rpApprovals,          \* decisions of RepurposeApproval rows, oldest first
  rpArtifacts,          \* variants with a RepurposeExportArtifact row
  rpDeliveries,         \* RepurposeDeliveryRequest rows by key
  rpPosts,              \* posts on the social network by the key they were sent with
  rpMsgs, rpCommands, rpFaults

rpJobVars == <<rpJobs, rpItems, rpVariants, rpHolds, rpMsgs, rpCommands>>
rpReviewVars == <<rpApprovals, rpArtifacts, rpDeliveries, rpPosts>>
rpVars == <<rpJobVars, rpReviewVars, rpFaults>>

RpItems == DOMAIN RpCounts
RpSlots == UNION {{i} \X (1..RpCounts[i]) : i \in RpItems}

NoRpJob == [state |-> "NONE", attempt |-> 0, actual |-> 0]
NoRpHold == [state |-> "NONE", event |-> "none", charged |-> 0]

RpInit ==
  /\ rpJobs = [j \in RpJobs |-> NoRpJob]
  /\ rpItems = [j \in RpJobs |-> [i \in RpItems |-> "PENDING"]]
  /\ rpVariants = [j \in RpJobs |-> {}]
  /\ rpHolds = [j \in RpJobs |-> NoRpHold]
  /\ rpApprovals = [j \in RpJobs |-> [s \in RpReviewed |-> <<>>]]
  /\ rpArtifacts = {}
  /\ rpDeliveries = [k \in RpDeliveryKeys |-> "NONE"]
  /\ rpPosts = [k \in RpDeliveryKeys |-> 0]
  /\ rpMsgs = [j \in RpJobs |-> 0]
  /\ rpCommands = {}
  /\ rpFaults = 0

RpFault == rpFaults < RpMaxFaults /\ rpFaults' = rpFaults + 1

-----------------------------------------------------------------------------
(* Requests about the job.                                                 *)

\* The background task after the commit.
EnqueueRepurposeJob(j) ==
  \/ /\ rpMsgs[j] < RpMaxMsgs
     /\ rpMsgs' = [rpMsgs EXCEPT ![j] = @ + 1]
     /\ UNCHANGED rpFaults
  \/ RpFault /\ UNCHANGED rpMsgs

CreateRpJob(j) ==
  /\ rpJobs[j] = NoRpJob
  /\ rpJobs' = [rpJobs EXCEPT ![j].state = "QUEUED"]
  /\ rpHolds' = [rpHolds EXCEPT ![j].state = "HELD"]
  /\ EnqueueRepurposeJob(j)
  /\ UNCHANGED <<rpItems, rpVariants, rpCommands, rpReviewVars>>

ResetItemsForRetry(items) ==
  [i \in RpItems |-> IF items[i] = "SUCCEEDED" THEN items[i] ELSE "PENDING"]

\* A repeated command changes nothing but is enqueued again.
CommandRpJob(j, command, key) ==
  LET target == IF command = "CANCEL" THEN "CANCEL_REQUESTED" ELSE "QUEUED"
  IN  /\ rpJobs[j] # NoRpJob
      /\ \/ <<j, command, key>> \in rpCommands /\ UNCHANGED <<rpJobs, rpItems, rpCommands>>
         \/ /\ <<j, command, key>> \notin rpCommands
            /\ EnsureJobTransition(rpJobs[j].state, target)
            /\ rpJobs' = [rpJobs EXCEPT ![j].state = target]
            /\ rpItems' = [rpItems EXCEPT ![j] =
                             IF target = "QUEUED" THEN ResetItemsForRetry(@) ELSE @]
            /\ rpCommands' = rpCommands \cup {<<j, command, key>>}
      /\ EnqueueRepurposeJob(j)
      /\ UNCHANGED <<rpVariants, rpHolds, rpReviewVars>>

-----------------------------------------------------------------------------
(* One delivery: a transaction that holds the job row.                     *)

RpSuccessStates == {"WAITING_REVIEW", "SUCCEEDED"}
RpReleaseStates == {"FINAL_FAILED", "CANCELLED", "EXPIRED"}

\* Deviation: a cancellation is always settled as one.
SettleAsTheStateSays(state, items) == state

\* A cancel after every item succeeded repeats the settlement of the success.
CostSettlementState(state, items) ==
  IF state \in {"CANCELLED", "EXPIRED"} /\ \A i \in RpItems : items[i] = "SUCCEEDED"
  THEN "WAITING_REVIEW"
  ELSE state

\* finalize and release repeat themselves with the same event, else they raise.
MaySettleRp(hold, event) == hold.state = "HELD" \/ hold.event = event

RpClosedHold(hold, event, actual) ==
  IF hold.state # "HELD" THEN hold
  ELSE IF event \in RpSuccessStates
       THEN [state |-> "FINALIZED", event |-> event, charged |-> actual]
       ELSE [state |-> "RELEASED", event |-> event, charged |-> 0]

SettleRpTerminal(j, job, items) ==
  LET event == CostSettlementState(job.state, items)
  IN  /\ rpJobs' = [rpJobs EXCEPT ![j] = job]
      /\ rpItems' = [rpItems EXCEPT ![j] = items]
      /\ IF job.state \in RpSuccessStates \cup RpReleaseStates
         THEN /\ MaySettleRp(rpHolds[j], event)
              /\ rpHolds' = [rpHolds EXCEPT ![j] = RpClosedHold(@, event, job.actual)]
         ELSE UNCHANGED rpHolds

\* The delivery is acknowledged after the commit, or comes back.
AcknowledgeRp(j) ==
  \/ rpMsgs' = [rpMsgs EXCEPT ![j] = @ - 1] /\ UNCHANGED rpFaults
  \/ RpFault /\ UNCHANGED rpMsgs

ItemsTo(items, state) ==
  [i \in RpItems |-> IF items[i] = "SUCCEEDED" THEN items[i] ELSE state]

FinalizeRpCancellation(j) ==
  /\ rpMsgs[j] > 0
  /\ rpJobs[j].state = "CANCEL_REQUESTED"
  /\ SettleRpTerminal(j, [rpJobs[j] EXCEPT !.state = "CANCELLED"],
                      ItemsTo(rpItems[j], "CANCELLED"))
  /\ AcknowledgeRp(j)
  /\ UNCHANGED <<rpVariants, rpCommands, rpReviewVars>>

\* Nothing to run: only the settlement is repeated.
RunSettledOnly(j) ==
  /\ rpMsgs[j] > 0
  /\ rpJobs[j].state \notin {"NONE", "QUEUED", "CANCEL_REQUESTED"}
  /\ SettleRpTerminal(j, rpJobs[j], rpItems[j])
  /\ AcknowledgeRp(j)
  /\ UNCHANGED <<rpVariants, rpCommands, rpReviewVars>>

\* The slots execute goes through; items that succeeded are skipped.
SlotsToWrite(j) == {s \in RpSlots : rpItems[j][s[1]] # "SUCCEEDED"}

RpBefore(s, t) == s[1] < t[1] \/ (s[1] = t[1] /\ s[2] < t[2])

\* Slots are written in their order: what may be written when a run ends.
WrittenFirst(j) ==
  {W \in SUBSET SlotsToWrite(j) : \A s \in W, t \in SlotsToWrite(j) : RpBefore(t, s) => t \in W}

\* record_variant: the item succeeds with the last of its variants.
SucceededItems(items, variants) ==
  [i \in RpItems |->
     IF \A n \in 1..RpCounts[i] : <<i, n>> \in variants THEN "SUCCEEDED" ELSE items[i]]

FailedRpState(retryable) == IF retryable THEN "RETRYABLE_FAILED" ELSE "FINAL_FAILED"

CompleteRpJob(items) ==
  IF \A i \in RpItems : items[i] = "SUCCEEDED" THEN "WAITING_REVIEW"
  ELSE IF \E i \in RpItems : items[i] = "SUCCEEDED" THEN "PARTIAL"
  ELSE "FINAL_FAILED"

VariantsAfter(j, written) == rpVariants[j] \cup written

ItemsAfter(j, written) == SucceededItems(rpItems[j], VariantsAfter(j, written))

\* The slots `written' were recorded for `cost' and the job ends as `state'.
RunExecutor(j, written, cost, state) ==
  /\ rpVariants' = [rpVariants EXCEPT ![j] = VariantsAfter(j, written)]
  /\ SettleRpTerminal(j,
       [rpJobs[j] EXCEPT !.state = state, !.attempt = @ + 1, !.actual = @ + cost],
       IF state \in {"RETRYABLE_FAILED", "FINAL_FAILED"}
       THEN ItemsTo(ItemsAfter(j, written), "FAILED")
       ELSE ItemsAfter(j, written))
  /\ AcknowledgeRp(j)
  /\ UNCHANGED <<rpCommands, rpReviewVars>>

RunStarts(j) ==
  /\ rpMsgs[j] > 0
  /\ rpJobs[j].state = "QUEUED"
  /\ rpJobs[j].attempt < RpMaxAttempts

\* What the new variants among those written may cost: 0 or 1 each.
RunCosts(j, written) == 0..Cardinality(written \ rpVariants[j])

WithinReserved(j, cost) == rpJobs[j].actual + cost <= RpReserved

RunSucceeds(j) ==
  /\ RunStarts(j)
  /\ LET written == SlotsToWrite(j)
     IN  \E cost \in RunCosts(j, written) :
           /\ WithinReserved(j, cost)
           /\ RunExecutor(j, written, cost, CompleteRpJob(ItemsAfter(j, written)))

\* The model, the checks of a variant, or the budget refuse the next slot; a
\* variant that exists and differs from the new one is a conflict (409).
RunRefused(j) ==
  /\ RunStarts(j)
  /\ \E written \in WrittenFirst(j) \ {SlotsToWrite(j)}, retryable \in BOOLEAN :
       \E cost \in RunCosts(j, written) :
         /\ WithinReserved(j, cost)
         /\ RunExecutor(j, written, cost, FailedRpState(retryable))

\* No executor is configured: the attempt is not counted, items are FAILED.
RunWithoutExecutor(j) ==
  /\ RunStarts(j)
  /\ SettleRpTerminal(j, [rpJobs[j] EXCEPT !.state = "RETRYABLE_FAILED"],
                      ItemsTo(rpItems[j], "FAILED"))
  /\ AcknowledgeRp(j)
  /\ UNCHANGED <<rpVariants, rpCommands, rpReviewVars>>

-----------------------------------------------------------------------------
(* Review, export and delivery of a variant.                               *)

ApproveVariant(j, s, decision) ==
  /\ s \in rpVariants[j]
  /\ Len(rpApprovals[j][s]) < 2
  /\ rpApprovals' = [rpApprovals EXCEPT ![j][s] = Append(@, decision)]
  /\ UNCHANGED <<rpJobVars, rpArtifacts, rpDeliveries, rpPosts, rpFaults>>

ApprovedVariant(j, s) == rpApprovals[j][s] # <<>> /\ Last(rpApprovals[j][s]) = "APPROVE"

ExportVariant(j, s) ==
  /\ ApprovedVariant(j, s)
  /\ rpArtifacts' = rpArtifacts \cup {<<j, s>>}
  /\ UNCHANGED <<rpJobVars, rpApprovals, rpDeliveries, rpPosts, rpFaults>>

\* The approval named by the request must be an APPROVE; it need not be the last.
DeliverableVariant(j, s) == "APPROVE" \in ToSet(rpApprovals[j][s])

\* The network, to which the key is passed, posts once per key.
SocialPublish(posts, key) == [posts EXCEPT ![key] = 1]

\* The network answers, refuses, or its answer is lost; the last is FAILED too.
DeliverVariant(j, s, key) ==
  /\ DeliverableVariant(j, s)
  /\ rpDeliveries[key] = "NONE"
  /\ \/ /\ rpDeliveries' = [rpDeliveries EXCEPT ![key] = "SUCCEEDED"]
        /\ rpPosts' = SocialPublish(rpPosts, key)
     \/ /\ rpDeliveries' = [rpDeliveries EXCEPT ![key] = "FAILED"]
        /\ rpPosts' \in {rpPosts, SocialPublish(rpPosts, key)}
  /\ UNCHANGED <<rpJobVars, rpApprovals, rpArtifacts, rpFaults>>

\* The request dies after the network was asked: its row is rolled back.
DeliveryLost(j, s, key) ==
  /\ DeliverableVariant(j, s)
  /\ rpDeliveries[key] = "NONE"
  /\ rpPosts' = SocialPublish(rpPosts, key)
  /\ RpFault
  /\ UNCHANGED <<rpJobVars, rpApprovals, rpArtifacts, rpDeliveries>>

-----------------------------------------------------------------------------
RpRunJob(j) ==
  \/ FinalizeRpCancellation(j) \/ RunSettledOnly(j) \/ RunSucceeds(j) \/ RunRefused(j)
  \/ RunWithoutExecutor(j)

RpRequest(j) ==
  \/ CreateRpJob(j)
  \/ \E key \in RpKeys, command \in {"CANCEL", "RETRY"} : CommandRpJob(j, command, key)

VariantRequest(j, s) ==
  \/ \E decision \in {"APPROVE", "REJECT"} : ApproveVariant(j, s, decision)
  \/ ExportVariant(j, s)
  \/ \E key \in RpDeliveryKeys : DeliverVariant(j, s, key) \/ DeliveryLost(j, s, key)

RpNext ==
  \E j \in RpJobs : RpRequest(j) \/ RpRunJob(j) \/ \E s \in RpReviewed : VariantRequest(j, s)

RpSpec == RpInit /\ [][RpNext]_rpVars

-----------------------------------------------------------------------------
(* Properties.                                                             *)

\* Rows have their columns' types, and no run spends more than the hold
\* reserves (record_variant).
RpTypeOK ==
  /\ rpJobs \in [RpJobs -> [state : JobStates \cup {"NONE"}, attempt : 0..RpMaxAttempts,
                            actual : 0..RpReserved]]
  /\ rpItems \in [RpJobs -> [RpItems -> {"PENDING", "SUCCEEDED", "FAILED", "CANCELLED"}]]
  /\ rpVariants \in [RpJobs -> SUBSET RpSlots]
  /\ \A j \in RpJobs : rpHolds[j].state \in {"NONE", "HELD", "FINALIZED", "RELEASED"}
  /\ rpDeliveries \in [RpDeliveryKeys -> {"NONE", "SUCCEEDED", "FAILED"}]
  /\ rpMsgs \in [RpJobs -> 0..RpMaxMsgs]

\* The customer pays for complete sets only, the sum of what their variants
\* cost; a job that is over has closed its hold, one that can be retried keeps
\* it (_settle_terminal, _cost_settlement_state, record_variant).
CompleteSetsAreCharged ==
  \A j \in RpJobs :
    /\ rpHolds[j].state = "FINALIZED" =>
         rpVariants[j] = RpSlots /\ rpHolds[j].charged = rpJobs[j].actual
    /\ rpVariants[j] = RpSlots => rpHolds[j].state = "FINALIZED"
    /\ rpJobs[j].state \in TERMINAL_JOB_STATES => rpHolds[j].state \in {"FINALIZED", "RELEASED"}
    /\ rpJobs[j].state \in {"QUEUED", "RETRYABLE_FAILED", "PARTIAL"} => rpHolds[j].state = "HELD"

\* A job somebody asked to run or to stop has a delivery that will do so, unless
\* one was lost; and no delivery meets a settlement conflict, so that none is
\* stuck (command_job, _settle_terminal).
NoRepurposeForgotten ==
  \A j \in RpJobs :
    /\ (rpJobs[j].state \in {"QUEUED", "CANCEL_REQUESTED"} /\ rpMsgs[j] = 0) => rpFaults > 0
    /\ rpJobs[j].state = "CANCEL_REQUESTED" =>
         MaySettleRp(rpHolds[j], CostSettlementState("CANCELLED", rpItems[j]))

\* A variant that was exported or posted was recorded and approved by somebody
\* before (export_variant, deliver_variant).
OutputsWereApproved ==
  LET approved == {p \in RpJobs \X RpReviewed : "APPROVE" \in ToSet(rpApprovals[p[1]][p[2]])}
  IN  /\ rpArtifacts \subseteq approved
      /\ (\E k \in RpDeliveryKeys : rpPosts[k] > 0) => approved # {}
      /\ \A p \in approved : p[2] \in rpVariants[p[1]]

\* Every delivery the rows call successful is one post, and a request that is
\* repeated after its transaction was lost does not post again
\* (deliver_variant passes its key to the network).
OnePostPerKey ==
  \A k \in RpDeliveryKeys :
    /\ rpPosts[k] <= 1
    /\ rpDeliveries[k] = "SUCCEEDED" => rpPosts[k] = 1

\* A retry writes only what is missing: no variant or succeeded item is lost,
\* and nothing is spent on a job whose set is complete (_reset_items_for_retry).
VariantsAreKept ==
  \A j \in RpJobs :
    /\ rpVariants[j] \subseteq rpVariants'[j]
    /\ \A i \in RpItems : rpItems[j][i] = "SUCCEEDED" => rpItems'[j][i] = "SUCCEEDED"
    /\ rpVariants[j] = RpSlots => rpJobs'[j].actual = rpJobs[j].actual

\* What repurposing promises: complete sets are paid for and kept, only approved
\* variants leave the system, each once, and a job that waits has a message
\* (domain/repurpose).
RepurposePromise ==
  [][ /\ ( /\ RpTypeOK
           /\ CompleteSetsAreCharged
           /\ NoRepurposeForgotten
           /\ OutputsWereApproved
           /\ OnePostPerKey )'
      /\ VariantsAreKept ]_rpVars

=============================================================================
