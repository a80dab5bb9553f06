--------------------------- MODULE KeywordResearch --------------------------
(***************************************************************************)
(* Keyword research jobs and keyword alerts (domain/keywords).  One        *)
(* delivery of a job is one transaction: it locks the job's row, at its    *)
(* first call to the provider the row of the connection, and everything it *)
(* wrote, the quota it reserved included, is gone when it fails.  The      *)
(* provider's answers are choices.                                         *)
(***************************************************************************)
EXTENDS Naturals, Sequences, FiniteSets

CONSTANTS
  KwJobs,               \* KeywordResearchJob rows
  KwOrder,              \* the keywords, in the order of their rows in a job
  KwInput,              \* job -> the keywords its request names
  KwRelated,            \* keywords a provider may answer with
  KwKinds,              \* "provider", "csv" (no provider), "bare" (require_metrics, no provider)
  KwQuota,              \* daily_quota of the connection
  KwMaxFailures,        \* consecutive failures that open the circuit
  KwMaxAttempts,        \* max_attempts
  KwMaxCandidates,      \* TECHNICAL_MAX_CLUSTER_CANDIDATES
  KwMaxMessages,        \* bound: messages of one job
  KwMaxDays,            \* bound: days that pass
  KaWorkers             \* workers that evaluate alerts

\* A provider's answers are appended below the keywords a request names.
ASSUME KwRowOrder ==
  /\ KwOrder \in Seq({KwOrder[i] : i \in DOMAIN KwOrder})
  /\ \A i, k \in DOMAIN KwOrder :
       /\ KwOrder[i] = KwOrder[k] => i = k
       /\ KwOrder[i] \notin KwRelated /\ KwOrder[k] \in KwRelated => i < k
  /\ \A j \in KwJobs : KwInput[j] \cap KwRelated = {}
ASSUME KwNumbers ==
  KwQuota \in Nat /\ KwMaxAttempts \in Nat /\ KwMaxFailures \in Nat /\ KwMaxCandidates \in Nat

VARIABLES
  kwJob,                \* job -> state, attempt, kind
  kwItem,               \* job -> keyword -> KeywordResearchItem.state
  kwWord,               \* keyword -> Keyword.intent_source, "none" before the row exists
  kwConn,               \* KeywordProviderConnection: quota left, failures, circuit, state
  kwDue,                \* quota_reset_at has passed
  kwMetrics,            \* keywords with a KeywordMetricSnapshot of the connection
  kwCluster,            \* job -> keywords of the clusters made under "research:{job}"
  kwMsg,                \* job -> messages in the queue
  kwLost,               \* job -> its message was used up by a run that failed, or never queued
  kwTx,                 \* job -> the run under way
  kwSpent,              \* history: calls recorded since the quota was last reset
  kwDays,               \* history: days passed
  kaRule,               \* KeywordAlertRule: due, and who has locked it
  kaCount               \* history: periods that came due, notifications emitted

kwVars == <<kwJob, kwItem, kwWord, kwConn, kwDue, kwMetrics, kwCluster, kwMsg, kwLost, kwTx,
            kwSpent, kwDays>>
kaVars == <<kaRule, kaCount>>

KwWords == {KwOrder[i] : i \in DOMAIN KwOrder}
NoKeywordJob == [state |-> "NONE", attempt |-> 0, kind |-> "none"]
NewConnection == [left |-> KwQuota, failures |-> 0, open |-> FALSE, state |-> "ACTIVE"]
NoConnection == [left |-> 0, failures |-> 0, open |-> FALSE, state |-> "unlocked"]

\* at: the row being worked on; seen: its intent_source when it was loaded;
\* touched: keywords this run has inserted or reclassified.
NoRun == [at |-> 0, items |-> [w \in KwWords |-> "NONE"], loaded |-> FALSE, seen |-> "none",
          conn |-> NoConnection, reset |-> FALSE, calls |-> 0, metrics |-> {}, touched |-> {},
          retry |-> FALSE]

KwInit ==
  /\ kwJob = [j \in KwJobs |-> NoKeywordJob]
  /\ kwItem = [j \in KwJobs |-> NoRun.items]
  /\ kwWord = [w \in KwWords |-> "none"]
  /\ kwConn = NewConnection /\ kwDue = FALSE /\ kwMetrics = {}
  /\ kwCluster = [j \in KwJobs |-> {}]
  /\ kwMsg = [j \in KwJobs |-> 0] /\ kwLost = [j \in KwJobs |-> FALSE]
  /\ kwTx = [j \in KwJobs |-> NoRun]
  /\ kwSpent = 0 /\ kwDays = 0

-----------------------------------------------------------------------------
(* Requests.                                                               *)

TerminalJobStates == {"SUCCEEDED", "FINAL_FAILED", "CANCELLED"}
RunnableStates == {"QUEUED", "RETRYABLE_FAILED"}

\* repository.job(lock=True)
JobFree(j) == kwTx[j] = NoRun

\* enqueue_keyword_job, a background task: the broker may refuse the message, and a
\* worker that has it before the request's commit finds no job to run.
Enqueue(j) ==
  \/ /\ kwMsg' = [kwMsg EXCEPT ![j] = @ + 1]
     /\ kwLost' = [kwLost EXCEPT ![j] = FALSE]
  \/ /\ UNCHANGED kwMsg
     /\ kwLost' = [kwLost EXCEPT ![j] = @ \/ (kwMsg[j] = 0 /\ JobFree(j))]

\* _prepare_job; a guarded or repeated keyword is EXCLUDED or BLOCKED from the start.
CreateResearchJob(j, kind, refused) ==
  /\ kwJob[j].state = "NONE" /\ refused \subseteq KwInput[j]
  /\ kwJob' = [kwJob EXCEPT ![j] = [state |-> "QUEUED", attempt |-> 0, kind |-> kind]]
  /\ kwItem' = [kwItem EXCEPT ![j] = [w \in KwWords |->
       IF w \notin KwInput[j] THEN "NONE" ELSE IF w \in refused THEN "EXCLUDED" ELSE "PENDING"]]
  /\ Enqueue(j)
  /\ UNCHANGED <<kwWord, kwConn, kwDue, kwMetrics, kwCluster, kwTx, kwSpent, kwDays>>

\* _prepare_job for a key it knows: the job is enqueued again while it can run.
ReplayResearchJob(j) ==
  /\ kwJob[j].state \in RunnableStates /\ kwMsg[j] < KwMaxMessages
  /\ Enqueue(j)
  /\ UNCHANGED <<kwJob, kwItem, kwWord, kwConn, kwDue, kwMetrics, kwCluster, kwTx, kwSpent, kwDays>>

RequestCancel(j) ==
  /\ JobFree(j) /\ kwJob[j].state \notin TerminalJobStates \cup {"NONE", "CANCEL_REQUESTED"}
  /\ kwJob' = [kwJob EXCEPT ![j].state = "CANCEL_REQUESTED"]
  /\ UNCHANGED <<kwItem, kwWord, kwConn, kwDue, kwMetrics, kwCluster, kwMsg, kwLost, kwTx, kwSpent,
                 kwDays>>

\* When the attempts are used up the request is refused, and the FINAL_FAILED it
\* wrote is rolled back with it.
RequestRetry(j) ==
  /\ JobFree(j) /\ kwJob[j].state \in {"RETRYABLE_FAILED", "PARTIAL"}
  /\ kwJob[j].attempt < KwMaxAttempts /\ kwMsg[j] < KwMaxMessages
  /\ kwJob' = [kwJob EXCEPT ![j].state = "QUEUED"]
  /\ kwItem' = [kwItem EXCEPT ![j] = [w \in KwWords |-> IF @[w] = "FAILED" THEN "RETRYING" ELSE @[w]]]
  /\ Enqueue(j)
  /\ UNCHANGED <<kwWord, kwConn, kwDue, kwMetrics, kwCluster, kwTx, kwSpent, kwDays>>

\* update_keyword_intent waits for the row of the keyword only at its write.
UpdateKeywordIntent(w) ==
  /\ kwWord[w] = "RULE" /\ \A j \in KwJobs : w \notin kwTx[j].touched
  /\ kwWord' = [kwWord EXCEPT ![w] = "USER"]
  /\ UNCHANGED <<kwJob, kwItem, kwConn, kwDue, kwMetrics, kwCluster, kwMsg, kwLost, kwTx, kwSpent,
                 kwDays>>

KeywordRequest ==
  \/ \E j \in KwJobs, kind \in KwKinds :
       \E refused \in SUBSET KwInput[j] : CreateResearchJob(j, kind, refused)
  \/ \E j \in KwJobs : ReplayResearchJob(j) \/ RequestCancel(j) \/ RequestRetry(j)
  \/ \E w \in KwWords : UpdateKeywordIntent(w)

-----------------------------------------------------------------------------
(* process_research_job                                                    *)

\* A delivery may be repeated: the message is gone, or it comes again.
Taken(j) == \E n \in {kwMsg[j], kwMsg[j] - 1} : kwMsg' = [kwMsg EXCEPT ![j] = n]

\* Terminal and non-runnable states are left alone.
DeliveryIgnored(j) ==
  /\ kwMsg[j] > 0 /\ JobFree(j)
  /\ kwJob[j].state \notin RunnableStates \cup {"CANCEL_REQUESTED"}
  /\ kwMsg' = [kwMsg EXCEPT ![j] = @ - 1]
  /\ UNCHANGED <<kwJob, kwItem, kwWord, kwConn, kwDue, kwMetrics, kwCluster, kwLost, kwTx, kwSpent,
                 kwDays>>

CancelDelivered(j) ==
  /\ kwMsg[j] > 0 /\ JobFree(j) /\ kwJob[j].state = "CANCEL_REQUESTED" /\ Taken(j)
  /\ kwJob' = [kwJob EXCEPT ![j].state = "CANCELLED"]
  /\ kwItem' = [kwItem EXCEPT ![j] = [w \in KwWords |->
       IF @[w] \in {"PENDING", "RETRYING"} THEN "CANCELLED" ELSE @[w]]]
  /\ UNCHANGED <<kwWord, kwConn, kwDue, kwMetrics, kwCluster, kwLost, kwTx, kwSpent, kwDays>>

\* Rows a run works on: those that are not excluded, blocked, cancelled or done.
Outstanding(j, items) == {w \in KwWords : items[w] \in {"PENDING", "RETRYING", "FAILED"}}

\* The first such row after the i-th.
NextRow(j, items, i) ==
  LET later == {k \in DOMAIN KwOrder : k > i /\ KwOrder[k] \in Outstanding(j, items)}
  IN IF later = {} THEN Len(KwOrder) + 1 ELSE CHOOSE k \in later : \A m \in later : k <= m

ResearchStart(j) ==
  /\ kwMsg[j] > 0 /\ JobFree(j) /\ kwJob[j].state \in RunnableStates /\ Taken(j)
  /\ kwTx' = [kwTx EXCEPT ![j] = [NoRun EXCEPT !.items = kwItem[j], !.at = NextRow(j, kwItem[j], 0)]]
  /\ UNCHANGED <<kwJob, kwItem, kwWord, kwConn, kwDue, kwMetrics, kwCluster, kwLost, kwSpent, kwDays>>

Row(j) == IF kwTx[j].at \in DOMAIN KwOrder THEN KwOrder[kwTx[j].at] ELSE "none"

\* _upsert_keyword: the keyword is read without a lock, or inserted; an insert waits
\* for another run that has inserted the same keyword.
UpsertKeyword(j) ==
  LET w == Row(j) IN
  /\ kwTx[j].at \in DOMAIN KwOrder /\ ~kwTx[j].loaded
  /\ kwWord[w] = "none" => \A k \in KwJobs \ {j} : w \notin kwTx[k].touched
  /\ kwTx' = [kwTx EXCEPT ![j].loaded = TRUE,
                          ![j].seen = IF kwWord[w] = "none" THEN "RULE" ELSE kwWord[w],
                          ![j].touched = IF kwWord[w] = "none" THEN @ \cup {w} ELSE @]
  /\ UNCHANGED <<kwJob, kwItem, kwWord, kwConn, kwDue, kwMetrics, kwCluster, kwMsg, kwLost, kwSpent,
                 kwDays>>

\* The row's outcome, and the next row; items may have grown.
RowDone(j, tx, items, outcome) ==
  LET done == [items EXCEPT ![Row(j)] = outcome]
  IN [tx EXCEPT !.items = done, !.at = NextRow(j, done, tx.at), !.loaded = FALSE, !.seen = "none"]

\* _record_metric: the keyword is classified again, and written if that changes it,
\* unless its intent was the user's when the row was loaded.
Touched(tx, w, reclassified) ==
  IF reclassified /\ tx.seen # "USER" THEN tx.touched \cup {w} ELSE tx.touched

\* A row that no provider is asked about: one with figures of its own (a CSV row, or
\* one appended from an answer), or one of a job without providers.
RowWithoutProvider(j) ==
  LET related == Row(j) \notin KwInput[j]
      outcome == IF kwJob[j].kind = "bare" /\ ~related THEN "FAILED" ELSE "SUCCEEDED"
  IN
  /\ kwTx[j].loaded /\ (related \/ kwJob[j].kind # "provider")
  /\ \E reclassified \in IF related \/ kwJob[j].kind = "csv" THEN BOOLEAN ELSE {FALSE} :
       kwTx' = [kwTx EXCEPT ![j] = RowDone(j,
         [@ EXCEPT !.touched = Touched(kwTx[j], Row(j), reclassified)], kwTx[j].items, outcome)]
  /\ UNCHANGED <<kwJob, kwItem, kwWord, kwConn, kwDue, kwMetrics, kwCluster, kwMsg, kwLost, kwSpent,
                 kwDays>>

\* Deviation: the connection is read without its lock.
ConnectionRead(j) == TRUE

\* repository.connection(lock=True)
ConnectionFree(j) == \A k \in KwJobs \ {j} : kwTx[k].conn = NoConnection

\* The run after it has the connection and _reset_quota_if_due.
WithConnection(j) ==
  LET tx == kwTx[j]
      conn == IF tx.conn = NoConnection THEN kwConn ELSE tx.conn
      due == kwDue /\ ~tx.reset
  IN [tx EXCEPT !.conn = [conn EXCEPT !.left = IF due THEN KwQuota ELSE @],
                !.reset = @ \/ due, !.calls = IF due THEN 0 ELSE @]

\* _collect_provider: a snapshot that is still fresh.
CacheHit(j, tx) ==
  /\ Row(j) \in kwMetrics \cup tx.metrics
  /\ kwTx' = [kwTx EXCEPT ![j] = RowDone(j, tx, tx.items, "SUCCEEDED")]

\* A call that is refused before anything is reserved.  "config": an inactive
\* connection, or no adapter, capability or secret.
CallBlocked(j, tx) ==
  \E error \in {"config", "licence", "circuit", "quota", "credential"} :
    /\ error # "config" => tx.conn.state = "ACTIVE"
    /\ error = "circuit" => tx.conn.open
    /\ error = "quota" => tx.conn.left = 0
    /\ error = "credential" => tx.conn.left > 0
    /\ kwTx' = [kwTx EXCEPT ![j] = RowDone(j,
         [tx EXCEPT !.retry = @ \/ error \in {"circuit", "quota"},
                    !.conn = [tx.conn EXCEPT !.state =
                      CASE error = "credential" -> "CREDENTIAL_EXPIRED"
                        [] error = "licence" -> "LICENSE_EXPIRED"
                        [] OTHER -> @]],
         tx.items, "FAILED")]

CallSucceeds(j, tx) ==
  /\ tx.conn.state = "ACTIVE" /\ tx.conn.left > 0
  /\ \E found \in SUBSET KwRelated, reclassified \in BOOLEAN :
       LET items == [w \in KwWords |-> IF w \in found /\ tx.items[w] = "NONE" THEN "PENDING"
                                       ELSE tx.items[w]]
       IN kwTx' = [kwTx EXCEPT ![j] = RowDone(j,
            [tx EXCEPT !.conn = [tx.conn EXCEPT !.left = @ - 1, !.failures = 0],
                       !.calls = @ + 1, !.metrics = @ \cup {Row(j)},
                       !.touched = Touched(tx, Row(j), reclassified)],
            items, "SUCCEEDED")]

\* The ProviderError of a call that was made is recorded, not rolled back.
CallFails(j, tx) ==
  /\ tx.conn.state = "ACTIVE" /\ tx.conn.left > 0
  /\ \E error \in {"retryable", "final", "429"} :
       LET failures == tx.conn.failures + 1
           conn == [tx.conn EXCEPT
             !.failures = IF failures < KwMaxFailures THEN failures ELSE KwMaxFailures,
             !.left = IF error = "429" THEN 0 ELSE @ - 1,
             !.open = @ \/ (error = "retryable" /\ failures >= KwMaxFailures)]
       IN kwTx' = [kwTx EXCEPT ![j] = RowDone(j,
            [tx EXCEPT !.conn = conn, !.calls = @ + 1, !.retry = @ \/ error \in {"retryable", "429"}],
            tx.items, "FAILED")]

CollectProvider(j) ==
  /\ kwTx[j].loaded /\ Row(j) \in KwInput[j] /\ kwJob[j].kind = "provider" /\ ConnectionFree(j)
  /\ LET tx == WithConnection(j)
     IN CacheHit(j, tx) \/ CallBlocked(j, tx) \/ CallSucceeds(j, tx) \/ CallFails(j, tx)
  /\ UNCHANGED <<kwJob, kwItem, kwWord, kwConn, kwDue, kwMetrics, kwCluster, kwMsg, kwLost, kwSpent,
                 kwDays>>

RowsIn(items, state) == {w \in KwWords : items[w] = state}

OutcomeState(items, retry, attempt) ==
  IF RowsIn(items, "FAILED") = {} THEN "SUCCEEDED"
  ELSE IF RowsIn(items, "SUCCEEDED") # {} THEN "PARTIAL"
  ELSE IF retry /\ attempt < KwMaxAttempts THEN "RETRYABLE_FAILED" ELSE "FINAL_FAILED"

\* keyword_ids: the keywords a run has loaded or inserted for the job's rows.
Named(items) == RowsIn(items, "SUCCEEDED") \cup RowsIn(items, "FAILED")

\* The keywords _persist_keyword_clusters is given: none below two, and none above the
\* limit, where the clusters are deferred (generation_gate DECISION_REQUIRED).
Clustered(items) ==
  IF Cardinality(Named(items)) \in 2..KwMaxCandidates /\ RowsIn(items, "SUCCEEDED") # {}
  THEN Named(items) ELSE {}

\* Clusters of an earlier run are used again if they are of the same keywords, and
\* the run is refused if they are not.
ClustersAgree(j, ids) == kwCluster[j] \in {{}, ids}

\* process_keyword_job_task: the next delivery is queued by task.retry.
TaskRetry(state) == IF state = "RETRYABLE_FAILED" THEN 1 ELSE 0

\* The broker may refuse the message of task.retry; the delivery has ended then.
RetryQueued(j, state) ==
  \/ kwMsg' = [kwMsg EXCEPT ![j] = @ + TaskRetry(state)] /\ UNCHANGED kwLost
  \/ /\ state = "RETRYABLE_FAILED" /\ UNCHANGED kwMsg
     /\ kwLost' = [kwLost EXCEPT ![j] = @ \/ kwMsg[j] = 0]

ResearchCommit(j) ==
  LET tx == kwTx[j]
      state == OutcomeState(tx.items, tx.retry, kwJob[j].attempt + 1)
      ids == Clustered(tx.items)
  IN
  /\ tx.at = Len(KwOrder) + 1
  /\ ids = {} \/ ClustersAgree(j, ids)
  /\ kwJob' = [kwJob EXCEPT ![j] = [kwJob[j] EXCEPT !.state = state, !.attempt = @ + 1]]
  /\ kwItem' = [kwItem EXCEPT ![j] = tx.items]
  /\ kwWord' = [w \in KwWords |-> IF w \in tx.touched THEN "RULE" ELSE kwWord[w]]
  /\ kwConn' = IF tx.conn = NoConnection THEN kwConn ELSE tx.conn
  /\ kwDue' = (kwDue /\ ~tx.reset)
  /\ kwMetrics' = kwMetrics \cup tx.metrics
  /\ kwCluster' = [kwCluster EXCEPT ![j] = IF @ = {} THEN ids ELSE @]
  /\ RetryQueued(j, state)
  /\ kwSpent' = IF tx.reset THEN tx.calls ELSE kwSpent + tx.calls
  /\ kwTx' = [kwTx EXCEPT ![j] = NoRun]
  /\ UNCHANGED kwDays

\* A crash, a deadlock, a keyword inserted by another run, or clusters of other
\* keywords: everything is rolled back.  A crashed worker's message comes again, an
\* exception's does not.
ResearchFails(j) ==
  /\ kwTx[j] # NoRun
  /\ kwTx' = [kwTx EXCEPT ![j] = NoRun]
  /\ \/ kwMsg' = [kwMsg EXCEPT ![j] = IF @ = 0 THEN 1 ELSE @] /\ UNCHANGED kwLost
     \/ kwLost' = [kwLost EXCEPT ![j] = TRUE] /\ UNCHANGED kwMsg
  /\ UNCHANGED <<kwJob, kwItem, kwWord, kwConn, kwDue, kwMetrics, kwCluster, kwSpent, kwDays>>

\* quota_reset_at passes.
Midnight ==
  /\ ~kwDue /\ kwDays < KwMaxDays /\ kwDue' = TRUE /\ kwDays' = kwDays + 1
  /\ UNCHANGED <<kwJob, kwItem, kwWord, kwConn, kwMetrics, kwCluster, kwMsg, kwLost, kwTx, kwSpent>>

ResearchRun ==
  \/ \E j \in KwJobs :
       \/ DeliveryIgnored(j) \/ CancelDelivered(j) \/ ResearchStart(j) \/ UpsertKeyword(j)
       \/ RowWithoutProvider(j) \/ CollectProvider(j) \/ ResearchCommit(j) \/ ResearchFails(j)
  \/ Midnight

-----------------------------------------------------------------------------
(* evaluate_due_alerts                                                     *)

KaInit ==
  /\ kaRule = [due |-> FALSE, locked |-> {}]
  /\ kaCount = [periods |-> 0, sent |-> 0]

AlertDue ==
  /\ ~kaRule.due /\ kaRule.locked = {} /\ kaCount.periods < KwMaxDays
  /\ kaRule' = [kaRule EXCEPT !.due = TRUE] /\ kaCount' = [kaCount EXCEPT !.periods = @ + 1]

\* next_evaluate_at <= now, with_for_update(skip_locked=True)
DueUnlocked(worker) == kaRule.due /\ kaRule.locked = {}

AlertStart(worker) == DueUnlocked(worker) /\ kaRule' = [kaRule EXCEPT !.locked = @ \cup {worker}]
                      /\ UNCHANGED kaCount

\* The events are in the outbox with the next evaluation time, or neither is.
AlertCommit(worker) ==
  /\ worker \in kaRule.locked
  /\ kaRule' = [due |-> FALSE, locked |-> kaRule.locked \ {worker}]
  /\ \E sent \in {0, 1} : kaCount' = [kaCount EXCEPT !.sent = @ + sent]

AlertFails(worker) ==
  /\ worker \in kaRule.locked /\ kaRule' = [kaRule EXCEPT !.locked = @ \ {worker}]
  /\ UNCHANGED kaCount

AlertNext == AlertDue \/ \E worker \in KaWorkers : AlertStart(worker) \/ AlertCommit(worker)
                                                   \/ AlertFails(worker)

KwSpec ==
  /\ KwInit /\ KaInit
  /\ [][ \/ (KeywordRequest \/ ResearchRun) /\ UNCHANGED kaVars
         \/ AlertNext /\ UNCHANGED kwVars ]_<<kwVars, kaVars>>

-----------------------------------------------------------------------------
(* Properties.                                                             *)

\* _collect_provider: what runs of several jobs have recorded as called since the
\* quota was reset, and what is left of it, never exceed the daily quota.
QuotaKept == kwSpent + kwConn.left <= KwQuota

\* process_research_job: the state a job ends in agrees with its rows, those a
\* provider's answers appended included, over retries, cancellation and failed runs.
OutcomeMatchesItems ==
  \A j \in KwJobs :
    LET state == kwJob[j].state
        open == RowsIn(kwItem[j], "PENDING") \cup RowsIn(kwItem[j], "RETRYING")
        good == RowsIn(kwItem[j], "SUCCEEDED")
        bad == RowsIn(kwItem[j], "FAILED")
    IN
    /\ state \in TerminalJobStates \cup {"PARTIAL", "RETRYABLE_FAILED"} => open = {}
    /\ state = "SUCCEEDED" => bad = {}
    /\ state = "PARTIAL" => good # {} /\ bad # {}
    /\ state \in {"RETRYABLE_FAILED", "FINAL_FAILED"} => good = {} /\ bad # {}

\* process_keyword_job_task: a job that is to run has a message or a run, unless an
\* exception used its message up.
NoKeywordJobForgotten ==
  \A j \in KwJobs : kwJob[j].state \in RunnableStates =>
    kwMsg[j] > 0 \/ kwTx[j] # NoRun \/ kwLost[j]

\* process_research_job, _persist_keyword_clusters: when a job has finished with at
\* least two keywords and no more than the limit, its clusters are of exactly the
\* keywords it names, however many runs it took.  Above the limit the clusters are
\* deferred, and those an earlier, smaller run made are still there.
ClustersCoverKeywords ==
  \A j \in KwJobs :
    /\ kwJob[j].state \in {"SUCCEEDED", "PARTIAL"}
    /\ Cardinality(Named(kwItem[j])) \in 2..KwMaxCandidates
    => kwCluster[j] = Named(kwItem[j])

\* request_cancel, process_research_job: a cancelled job is not run, and a job that
\* is over stays as it is, whatever is delivered late or again.
KeywordJobSettles ==
  \A j \in KwJobs :
    /\ (kwJob[j].state = "CANCEL_REQUESTED" => kwJob'[j].state \in {"CANCEL_REQUESTED", "CANCELLED"})
    /\ (kwJob[j].state \in TerminalJobStates => kwJob'[j] = kwJob[j])

\* evaluate_due_alerts: a rule that comes due is notified of at most once, however
\* many workers look.
OneAlertPerPeriod == kaCount.sent <= kaCount.periods

\* What keyword research promises: the quota is kept, a job ends as its rows did and stays
\* so, clusters that are not deferred cover its keywords, what waits has a message unless
\* that was lost, and an alert is sent once (domain/keywords).
KeywordPromise ==
  [][ /\ ( /\ QuotaKept
           /\ OutcomeMatchesItems
           /\ NoKeywordJobForgotten
           /\ ClustersCoverKeywords
           /\ OneAlertPerPeriod )'
      /\ KeywordJobSettles ]_<<kwVars, kaVars>>

=============================================================================
