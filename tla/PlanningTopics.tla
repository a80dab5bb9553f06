--------------------------- MODULE PlanningTopics ---------------------------
(***************************************************************************)
(* A campaign's budget and its topic tree (domain/planning).  A spend      *)
(* locks the campaign row.  A move locks the topic that moves, walks up    *)
(* from the new parent without locking, and at its write the foreign key   *)
(* waits for whoever has locked the parent; a merge locks the target, the  *)
(* source and the children of the source.  Rows are locked until the       *)
(* commit, and a deadlock rolls one of its transactions back.  A request   *)
(* that names an old lock_version is refused: the actions are the others.  *)
(***************************************************************************)
EXTENDS Integers, Sequences, FiniteSets, Functions

CONSTANTS
  SpClients,            \* requests that spend
  SpRefs,               \* source_ref of a spend
  SpAmounts,            \* amounts
  SpLimits,             \* budget_limits of the category
  TpNodes,              \* TopicNode rows
  TpClients             \* requests on topics

\* Money is counted in its smallest unit.
ASSUME SpNumbers == SpAmounts \subseteq Nat /\ SpLimits \subseteq Nat

VARIABLES
  spCampaign,           \* Campaign: limit, budget_enforcement, status
  spLedger,             \* CampaignSpendLedger rows
  spTx,                 \* spends under way
  tpNode,               \* TopicNode: status, parent_id, merged_into_id
  tpTx                  \* moves, merges and splits under way

spVars == <<spCampaign, spLedger, spTx>>
tpVars == <<tpNode, tpTx>>
ptVars == <<spVars, tpVars>>

-----------------------------------------------------------------------------
(* The budget.                                                             *)

NoSpend == [ref |-> "none", amount |-> 0, spent |-> 0, limit |-> 0, enforcement |-> "WARN"]
Enforcements == {"WARN", "BLOCK", "PAUSE"}
CampaignStatus == {"DRAFT", "ACTIVE", "PAUSED", "COMPLETED", "ARCHIVED"}

\* create_campaign
SpInit ==
  /\ spCampaign \in [limit : SpLimits, enforcement : Enforcements, status : {"DRAFT"}]
  /\ spLedger = <<>> /\ spTx = [c \in SpClients |-> NoSpend]

\* The sum of the first n rows.
SpentUpTo(n) == SumFunction([i \in 1..n |-> spLedger[i].amount])
RefsSpent == {spLedger[i].ref : i \in DOMAIN spLedger}

\* Deviation: the campaign is read without a lock.
CampaignRead == TRUE

\* repo.campaign(for_update=True)
CampaignFree == \A c \in SpClients : spTx[c] = NoSpend

\* record_campaign_spend up to evaluate_budget.
SpendStart(c, ref, amount) ==
  /\ spTx[c] = NoSpend /\ CampaignFree
  /\ spTx' = [spTx EXCEPT ![c] =
       [ref |-> ref, amount |-> amount, spent |-> SpentUpTo(Len(spLedger)),
        limit |-> spCampaign.limit, enforcement |-> spCampaign.enforcement]]
  /\ UNCHANGED <<spCampaign, spLedger>>

\* evaluate_budget
BudgetDecision(tx) == IF tx.spent + tx.amount <= tx.limit THEN "ALLOW" ELSE tx.enforcement

Recorded(tx) == BudgetDecision(tx) \in {"ALLOW", "WARN"}

\* campaign_spend_source: a spend is recorded once.
SpendRecorded(c) ==
  /\ spTx[c] # NoSpend /\ Recorded(spTx[c]) /\ spTx[c].ref \notin RefsSpent
  /\ spLedger' = Append(spLedger, spTx[c])
  /\ spTx' = [spTx EXCEPT ![c] = NoSpend] /\ UNCHANGED spCampaign

\* Nothing is recorded, so a ref that was used before is not noticed.
SpendDeclined(c) ==
  /\ spTx[c] # NoSpend /\ ~Recorded(spTx[c])
  /\ spCampaign' = IF BudgetDecision(spTx[c]) = "PAUSE" THEN [spCampaign EXCEPT !.status = "PAUSED"]
                   ELSE spCampaign
  /\ spTx' = [spTx EXCEPT ![c] = NoSpend] /\ UNCHANGED spLedger

\* PLANNING_CONFLICT, or a crash: the request is rolled back.
SpendRolledBack(c) ==
  /\ spTx[c] # NoSpend /\ spTx' = [spTx EXCEPT ![c] = NoSpend]
  /\ UNCHANGED <<spCampaign, spLedger>>

UpdateCampaign(limit, enforcement, status) ==
  /\ CampaignFree
  /\ spCampaign' = [limit |-> limit, enforcement |-> enforcement, status |-> status]
  /\ spCampaign' # spCampaign /\ UNCHANGED <<spLedger, spTx>>

CampaignRequest ==
  \/ \E c \in SpClients :
       \/ SpendRecorded(c) \/ SpendDeclined(c) \/ SpendRolledBack(c)
       \/ \E ref \in SpRefs, amount \in SpAmounts : SpendStart(c, ref, amount)
  \/ \E limit \in SpLimits, enforcement \in Enforcements, status \in CampaignStatus :
       UpdateCampaign(limit, enforcement, status)

SpSpec == SpInit /\ [][CampaignRequest]_spVars

-----------------------------------------------------------------------------
(* The topic tree.                                                         *)

NoTopic == "no topic"
ASSUME TpNames == NoTopic \notin TpNodes
NoNode == [status |-> "NONE", parent |-> NoTopic, into |-> NoTopic]
NoTopicTx == [kind |-> "none", node |-> NoTopic, parent |-> NoTopic, from |-> {}, locks |-> {}]

\* A tree as create_topic_node and move_topic_node leave it.
TpInit(tree) ==
  /\ tpNode = [n \in TpNodes |-> IF n \in DOMAIN tree THEN [NoNode EXCEPT !.status = "ACTIVE",
                                                                        !.parent = tree[n]]
                                ELSE NoNode]
  /\ tpTx = [c \in TpClients |-> NoTopicTx]

LockedByOther(c, n) == \E d \in TpClients \ {c} : n \in tpTx[d].locks
Exists(n) == n \in TpNodes /\ tpNode[n].status # "NONE"
Unused(n) == tpNode[n].status = "NONE" /\ \A d \in TpClients : tpTx[d].node # n
ActiveParent(parent) == parent # NoTopic => tpNode[parent].status = "ACTIVE"

\* What f leads to from n, n itself included: the topics that are in every set with n
\* that has, with a topic, also what f gives for it.
ClosedUnder(f, S) == \A m \in S : m # NoTopic => f[m] \in S
Reached(f, n) ==
  LET closed == {S \in SUBSET (TpNodes \cup {NoTopic}) : n \in S /\ ClosedUnder(f, S)}
  IN {m \in TpNodes \cup {NoTopic} : \A S \in closed : m \in S}
Parents == [n \in TpNodes |-> tpNode[n].parent]
Targets == [n \in TpNodes |-> tpNode[n].into]

\* _assert_not_descendant: the path up ends, and does not meet the topic.
AssertNotDescendant(n, parent) ==
  n \notin Reached(Parents, parent) /\ NoTopic \in Reached(Parents, parent)

CreateStart(c, n, parent) ==
  /\ tpTx[c] = NoTopicTx /\ Unused(n) /\ ActiveParent(parent)
  /\ tpTx' = [tpTx EXCEPT ![c] = [NoTopicTx EXCEPT !.kind = "create", !.node = n, !.parent = parent]]
  /\ UNCHANGED tpNode

\* move_topic_node up to its write; the status of the new parent is not looked at.
MoveStartTopic(c, n, parent) ==
  /\ tpTx[c] = NoTopicTx /\ ~LockedByOther(c, n) /\ tpNode[n].status = "ACTIVE"
  /\ parent # n /\ (parent # NoTopic => Exists(parent) /\ AssertNotDescendant(n, parent))
  /\ tpTx' = [tpTx EXCEPT ![c] = [NoTopicTx EXCEPT !.kind = "move", !.node = n, !.parent = parent,
                                                   !.locks = {n}]]
  /\ UNCHANGED tpNode

\* The foreign key of parent_id waits for a locked parent.
ParentCommit(c) ==
  LET tx == tpTx[c] IN
  /\ tx.kind \in {"create", "move"} /\ ~LockedByOther(c, tx.parent)
  /\ tpNode' = [tpNode EXCEPT ![tx.node] = [@ EXCEPT !.status = "ACTIVE", !.parent = tx.parent]]
  /\ tpTx' = [tpTx EXCEPT ![c] = NoTopicTx]

MergeStart(c, target) ==
  /\ tpTx[c] = NoTopicTx /\ ~LockedByOther(c, target) /\ tpNode[target].status = "ACTIVE"
  /\ tpTx' = [tpTx EXCEPT ![c] = [NoTopicTx EXCEPT !.kind = "merge", !.node = target,
                                                   !.locks = {target}]]
  /\ UNCHANGED tpNode

ChildrenOf(n) == {m \in TpNodes : tpNode[m].parent = n}

\* The next of source_node_ids: it and its children are locked.
MergeSource(c, source) ==
  LET tx == tpTx[c]
      rows == {source} \cup ChildrenOf(source)
  IN
  /\ tx.kind = "merge" /\ source # tx.node /\ source \notin tx.from
  /\ \A m \in rows : ~LockedByOther(c, m)
  /\ tpNode[source].status = "ACTIVE" /\ AssertNotDescendant(source, tx.node)
  /\ tpTx' = [tpTx EXCEPT ![c].from = @ \cup {source}, ![c].locks = @ \cup rows]
  /\ UNCHANGED tpNode

MergeCommit(c) ==
  LET tx == tpTx[c] IN
  /\ tx.kind = "merge" /\ tx.from # {}
  /\ tpNode' = [m \in TpNodes |->
       [tpNode[m] EXCEPT !.parent = IF @ \in tx.from THEN tx.node ELSE @,
                         !.status = IF m \in tx.from THEN "MERGED" ELSE @,
                         !.into = IF m \in tx.from THEN tx.node ELSE @]]
  /\ tpTx' = [tpTx EXCEPT ![c] = NoTopicTx]

\* split_topic_node: the new topic stands beside the old one.
SplitStart(c, source, new) ==
  LET parent == tpNode[source].parent IN
  /\ tpTx[c] = NoTopicTx /\ Exists(source) /\ Unused(new)
  /\ ~LockedByOther(c, source) /\ ActiveParent(parent)
  /\ tpTx' = [tpTx EXCEPT ![c] = [kind |-> "split", node |-> new, parent |-> parent,
                                   from |-> {source}, locks |-> {source}]]
  /\ UNCHANGED tpNode

SplitCommit(c, children) ==
  LET tx == tpTx[c] IN
  /\ tx.kind = "split" /\ \A m \in children : tpNode[m].parent \in tx.from
  /\ \A m \in {tx.parent} \cup children : ~LockedByOther(c, m)
  /\ tpNode' = [m \in TpNodes |->
       IF m = tx.node THEN [NoNode EXCEPT !.status = "ACTIVE", !.parent = tx.parent]
       ELSE IF m \in children THEN [tpNode[m] EXCEPT !.parent = tx.node] ELSE tpNode[m]]
  /\ tpTx' = [tpTx EXCEPT ![c] = NoTopicTx]

\* A refusal, or the victim of a deadlock.
TopicRolledBack(c) ==
  /\ tpTx[c] # NoTopicTx /\ tpTx' = [tpTx EXCEPT ![c] = NoTopicTx] /\ UNCHANGED tpNode

TopicStep == \E c \in TpClients : ParentCommit(c) \/ TopicRolledBack(c)

MoveRequest ==
  \E c \in TpClients : \E n \in TpNodes, parent \in TpNodes \cup {NoTopic} : MoveStartTopic(c, n, parent)

MergeRequest ==
  \E c \in TpClients :
    \/ MergeCommit(c)
    \/ \E n \in TpNodes : MergeStart(c, n) \/ MergeSource(c, n)

GrowRequest ==
  \E c \in TpClients, n \in TpNodes :
    \/ \E parent \in TpNodes \cup {NoTopic} : CreateStart(c, n, parent)
    \/ \E source \in TpNodes \ {n} : SplitStart(c, source, n)
    \/ n = tpTx[c].node /\ \E children \in SUBSET TpNodes : SplitCommit(c, children)

TopicNext == TopicStep \/ MoveRequest \/ MergeRequest \/ GrowRequest

TpSpec(tree) == TpInit(tree) /\ [][TopicNext]_tpVars

-----------------------------------------------------------------------------
(* Properties.                                                             *)

\* record_campaign_spend: what was recorded while the budget was enforced stayed
\* within the limit of that time, however many spends were under way.
SpendWithinBudget ==
  \A i \in DOMAIN spLedger :
    spLedger[i].enforcement # "WARN" => SpentUpTo(i) <= spLedger[i].limit

\* merge_topic_nodes: from a merged topic merged_into_id leads to one that is
\* active, through all the merges after it and whichever were under way at once.
MergedLeadsToActive ==
  \A n \in TpNodes : tpNode[n].status = "MERGED" =>
    \E m \in Reached(Targets, n) \ {NoTopic} : tpNode[m].status = "ACTIVE"

\* _assert_not_descendant: no topic is below itself.  Two moves that each check a
\* path the other is about to change make a circle.
TopicsFormTree ==
  \A n \in TpNodes : tpNode[n].parent # NoTopic => n \notin Reached(Parents, tpNode[n].parent)

\* What campaigns promise: spends stay within an enforced budget, and a merged topic
\* leads to an active one (domain/planning).
CampaignPromise ==
  /\ SpendWithinBudget
  /\ MergedLeadsToActive

=============================================================================
