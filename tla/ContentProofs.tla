---------------------------- MODULE ContentProofs ----------------------------
(***************************************************************************)
(* Proofs about research runs, knowledge sources, planning, approval and   *)
(* keywords.                                                               *)
(***************************************************************************)
EXTENDS ResearchRuns, KnowledgeSources, PlanningTopics, PlanningBriefs, ContentApproval, KeywordResearch,
        FiniteSums, FiniteSetTheorems, SequenceTheorems, TLAPS

-----------------------------------------------------------------------------
(* Research runs.                                                          *)

RsStates == {"CREATED", "QUEUED", "RESEARCHING", "RETRYABLE_FAILED", "FINAL_FAILED"}
RsRows == [name : RsArtifacts, selected : BOOLEAN, after : Nat, raced : BOOLEAN]
RsAdds == [name : RsArtifacts, selected : BOOLEAN, approved : BOOLEAN, after : Nat]

RsTypes ==
  /\ rsRun \in [state : RsStates, approved : SUBSET RsArtifacts]
  /\ rsArtifacts \subseteq RsRows
  /\ rsTx \in [RsClients -> RsAdds \cup {NoAdd}]
  /\ rsApprovals \in Nat /\ rsResults \in Nat

\* A request under way began after no more approvals than there were, and after fewer
\* if it saw none and one stands now.
AddsSaw ==
  \A c \in RsClients : rsTx[c] # NoAdd =>
    /\ rsTx[c].after <= rsApprovals
    /\ rsRun.approved # {} /\ ~rsTx[c].approved => rsTx[c].after < rsApprovals

RowsSaw == \A r \in rsArtifacts : r.after <= rsApprovals

\* A run that may still be executed has no result.
ResultIsLast == rsRun.state \in {"CREATED", "QUEUED"} => rsResults = 0

RsInv == RsTypes /\ AddsSaw /\ RowsSaw /\ ApprovalIsWithdrawn /\ ResultIsLast /\ OneResearchResult

LEMMA RsInitInv == RsInit => RsInv
BY DEF RsInit, RsInv, RsTypes, RsStates, NoAdd, AddsSaw, RowsSaw, ApprovalIsWithdrawn, ResultIsLast, OneResearchResult

\* mark_researching: of the states a run has, the table lets QUEUED alone be executed.
LEMMA OnlyQueuedRuns ==
  ASSUME NEW state \in RsStates, MayResearch(state)
  PROVE  state = "QUEUED"
<1>1. /\ ALLOWED_JOB_TRANSITIONS["CREATED"] = {"QUEUED", "CANCELLED"}
      /\ ALLOWED_JOB_TRANSITIONS["RESEARCHING"] =
           {"PLANNING", "RETRYABLE_FAILED", "FINAL_FAILED", "CANCEL_REQUESTED"}
      /\ ALLOWED_JOB_TRANSITIONS["RETRYABLE_FAILED"] = {"QUEUED", "FINAL_FAILED", "CANCEL_REQUESTED"}
      /\ ALLOWED_JOB_TRANSITIONS["FINAL_FAILED"] = {}
  BY DEF ALLOWED_JOB_TRANSITIONS
<1> QED BY <1>1 DEF RsStates, MayResearch, EnsureJobTransition

LEMMA RsStep == RsInv /\ [ResearchNext]_rsVars => RsInv'
<1> SUFFICES ASSUME RsInv, [ResearchNext]_rsVars PROVE RsInv'
  OBVIOUS
<1> USE DEF RsInv
<1>1. CASE CreateRun
  BY <1>1 DEF CreateRun, RsTypes, RsStates, AddsSaw, RowsSaw, ApprovalIsWithdrawn, ResultIsLast, OneResearchResult
<1>2. CASE ApproveSourceSet
  <2>1. RsTypes'
    BY <1>2 DEF ApproveSourceSet, RsTypes, Selected, RsRows
  <2>2. AddsSaw'
    BY <1>2 DEF ApproveSourceSet, RsTypes, RsAdds, AddsSaw
  <2>3. RowsSaw' /\ ApprovalIsWithdrawn'
    <3>1. /\ rsRun'.approved = Selected /\ rsArtifacts' = rsArtifacts /\ rsApprovals' = rsApprovals + 1
          /\ rsApprovals \in Nat /\ \A r \in rsArtifacts : r.after \in Nat /\ r.after <= rsApprovals
      BY <1>2 DEF ApproveSourceSet, RsTypes, RsRows, RowsSaw
    <3>2. \A r \in rsArtifacts : r.after < rsApprovals + 1 /\ r.after <= rsApprovals + 1
      BY <3>1
    <3>3. \A r \in rsArtifacts : r.selected => r.name \in Selected
      BY DEF Selected
    <3> QED BY <3>1, <3>2, <3>3 DEF RowsSaw, ApprovalIsWithdrawn
  <2>4. ResultIsLast' /\ OneResearchResult'
    BY <1>2 DEF ApproveSourceSet, RsTypes, ResultIsLast, OneResearchResult
  <2> QED BY <2>1, <2>2, <2>3, <2>4
<1>3. CASE RunExecuted
  <2>1. rsRun.state = "QUEUED"
    BY <1>3, OnlyQueuedRuns DEF RunExecuted, RsTypes
  <2>2. /\ rsRun'.state \in {"RESEARCHING", "RETRYABLE_FAILED", "FINAL_FAILED"}
        /\ rsRun'.approved = rsRun.approved /\ RsTypes'
    BY <1>3 DEF RunExecuted, RsTypes, RsStates
  <2>3. rsResults = 0 /\ rsResults' = 1
    BY <1>3, <2>1 DEF RunExecuted, ResultIsLast
  <2>4. UNCHANGED <<rsArtifacts, rsTx, rsApprovals>>
    BY <1>3 DEF RunExecuted
  <2>5. AddsSaw' /\ RowsSaw' /\ ApprovalIsWithdrawn'
    BY <2>2, <2>4 DEF AddsSaw, RowsSaw, ApprovalIsWithdrawn
  <2> QED BY <2>2, <2>3, <2>5 DEF ResultIsLast, OneResearchResult
<1>4. CASE RunUnavailable
  BY <1>4 DEF RunUnavailable, RsTypes, RsStates, AddsSaw, RowsSaw, ApprovalIsWithdrawn, ResultIsLast, OneResearchResult
<1>5. CASE RunRefused \/ WorkerCrash \/ UNCHANGED rsVars
  BY <1>5 DEF RunRefused, WorkerCrash, rsVars, RsTypes, AddsSaw, RowsSaw, ApprovalIsWithdrawn, ResultIsLast,
              OneResearchResult
<1>6. ASSUME NEW c \in RsClients, NEW a \in RsArtifacts, NEW selected \in BOOLEAN, AddArtifactStart(c, a, selected)
      PROVE  RsInv'
  <2> DEFINE tx == [name |-> a, selected |-> selected, approved |-> rsRun.approved # {}, after |-> rsApprovals]
  <2>1. /\ rsTx' = [rsTx EXCEPT ![c] = tx] /\ tx \in RsAdds
        /\ tx.after = rsApprovals /\ (tx.approved <=> rsRun.approved # {})
        /\ UNCHANGED <<rsRun, rsArtifacts, rsApprovals, rsResults>>
    BY <1>6 DEF AddArtifactStart, RsTypes, RsAdds
  <2> HIDE DEF tx
  <2>2. RsTypes'
    BY <2>1 DEF RsTypes
  <2>3. AddsSaw'
    BY <2>1 DEF RsTypes, AddsSaw
  <2>4. RowsSaw' /\ ApprovalIsWithdrawn' /\ ResultIsLast' /\ OneResearchResult'
    BY <2>1 DEF RowsSaw, ApprovalIsWithdrawn, ResultIsLast, OneResearchResult
  <2> QED BY <2>2, <2>3, <2>4
<1>7. ASSUME NEW c \in RsClients, AddArtifactCommit(c)
      PROVE  RsInv'
  <2> DEFINE tx == rsTx[c]
             row == [name |-> tx.name, selected |-> tx.selected, after |-> tx.after,
                     raced |-> ~tx.approved /\ rsRun.approved # {}]
  <2>1. /\ tx \in RsAdds /\ tx # NoAdd /\ rsTx' = [rsTx EXCEPT ![c] = NoAdd]
        /\ UNCHANGED <<rsApprovals, rsResults>>
    BY <1>7 DEF AddArtifactCommit, RsTypes
  <2>2. row \in RsRows /\ row.after = tx.after /\ (row.raced <=> ~tx.approved /\ rsRun.approved # {})
    BY <2>1 DEF RsAdds, RsRows
  <2>3. \/ UNCHANGED <<rsRun, rsArtifacts>>
        \/ rsArtifacts' = rsArtifacts \cup {row} /\ rsRun' = [rsRun EXCEPT !.approved = ApprovalAfterAdd(tx)]
    BY <1>7 DEF AddArtifactCommit
  <2>4. /\ rsRun' \in [state : RsStates, approved : SUBSET RsArtifacts] /\ rsRun'.state = rsRun.state
        /\ rsRun'.approved # {} => rsRun'.approved = rsRun.approved
        /\ rsArtifacts' # rsArtifacts /\ rsRun'.approved # {} => ~tx.approved
    BY <2>3 DEF ApprovalAfterAdd, RsTypes
  <2>5. tx.after <= rsApprovals /\ (rsRun.approved # {} /\ ~tx.approved => tx.after < rsApprovals)
    BY <2>1 DEF AddsSaw
  <2>6. rsArtifacts' = rsArtifacts \/ rsArtifacts' = rsArtifacts \cup {row}
    BY <2>3
  <2> HIDE DEF row
  <2>7. RsTypes'
    BY <2>1, <2>2, <2>4, <2>6 DEF RsTypes
  <2>8. AddsSaw'
    BY <2>1, <2>4 DEF RsTypes, AddsSaw
  <2>9. RowsSaw'
    BY <2>1, <2>2, <2>5, <2>6 DEF RowsSaw
  <2>10. ApprovalIsWithdrawn'
    BY <2>1, <2>2, <2>4, <2>5, <2>6 DEF ApprovalIsWithdrawn
  <2> QED BY <2>1, <2>4, <2>7, <2>8, <2>9, <2>10 DEF ResultIsLast, OneResearchResult
<1> QED BY <1>1, <1>2, <1>3, <1>4, <1>5, <1>6, <1>7 DEF ResearchNext

\* For any number of requests, artifacts and approvals: a standing approval has every
\* selected source in its set, except one whose request read the run before the approval
\* and inserted it afterwards, a source asked for later has withdrawn it, and a run has one
\* result however often it is delivered (add_artifact, mark_researching).
THEOREM ResearchKeepsItsPromise == RsSpec => []ResearchPromise
<1>1. RsInv => ResearchPromise
  BY DEF RsInv, ResearchPromise
<1> QED BY <1>1, RsInitInv, RsStep, PTL DEF RsSpec

-----------------------------------------------------------------------------
(* Knowledge sources.                                                      *)

KsBusy == {"QUEUED", "SCANNING"}
KsTexts == KsContents \cup {Nothing}
KsSources == [type : {Nothing, "URL", "TEXT", "FILE"},
              state : KsBusy \cup {"NONE", "UPLOADING", "DELETING", "DELETED", "READY", "NEEDS_REVIEW", "FAILED"},
              deleted : BOOLEAN, current : KsTexts, key : BOOLEAN, hash : KsTexts]
KsEnded == {"SUCCEEDED", "NEEDS_REVIEW", "RETRYABLE_FAILED", "FINAL_FAILED", "EXCEPTION"}
KsJobRows == [type : {"FETCH", "PARSE", "DELETE"}, state : KsEnded \cup {"QUEUED"}, attempt : Nat]

KsTypes ==
  /\ ksSource \in KsSources
  /\ ksVersions \subseteq KsTexts /\ ksUpload \in KsTexts
  /\ ksJobs \in Seq(KsJobRows) /\ Len(ksJobs) <= KsMaxJobs
  /\ ksMsg \in [KsJobIds -> BOOLEAN] /\ ksLost \in [KsJobIds -> BOOLEAN]
  /\ ksRun \in [job : Nat, source : KsSources, versions : SUBSET KsTexts, state : KsEnded \cup {"none"}]

\* A source that is not there has no jobs and no versions.
NotThere == ksSource.state = "NONE" => ksJobs = <<>> /\ ksVersions = {}

\* The hash a file is compared with was declared.
HashDeclared(source) == source.type = "FILE" => source.hash \in ksDeclared \cup {Nothing}

\* A run is of a job that may run; what it will commit leaves the source busy only when the
\* job will be tried again, and gives a file no version that was not declared.
RunKeepsPromise(run) ==
  /\ run.job \in DOMAIN ksJobs /\ ksJobs[run.job].state \in KsRunnable
  /\ run.source.state # "NONE" /\ run.state # "none"
  /\ run.state # "EXCEPTION" /\ run.source.state \in KsBusy => run.state = "RETRYABLE_FAILED"
  /\ run.source.type = ksSource.type
  /\ HashDeclared(run.source)
  /\ run.source.type = "FILE" => run.versions \subseteq ksDeclared

KsInv ==
  /\ KsTypes /\ NotThere /\ HashDeclared(ksSource)
  /\ ksRun # NoKsRun => RunKeepsPromise(ksRun)
  /\ KnowledgePromise

LEMMA KsInitInv == KsInit => KsInv
<1> SUFFICES ASSUME KsInit PROVE KsInv
  OBVIOUS
<1>1. NoSource \in KsSources
  BY DEF NoSource, KsSources, KsTexts, KsBusy
<1>2. KsTypes
  BY <1>1, KsBounds DEF KsInit, KsTypes, KsTexts, NoKsRun
<1>3. NotThere /\ HashDeclared(ksSource) /\ ksRun = NoKsRun
  BY DEF KsInit, NotThere, HashDeclared, NoSource, Nothing
<1>4. KnowledgePromise
  BY DEF KsInit, KnowledgePromise, BusySourceHasJob, NoKnowledgeJobForgotten, VersionsWereDeclared, NoSource, Nothing
<1> QED BY <1>2, <1>3, <1>4 DEF KsInv

\* What queueing a job leaves, and what it adds.
LEMMA KsQueues ==
  ASSUME KsTypes, NEW type \in {"FETCH", "PARSE", "DELETE"}, QueueJob(type)
  PROVE  /\ ksJobs' \in Seq(KsJobRows) /\ Len(ksJobs') <= KsMaxJobs /\ ksJobs' # <<>>
         /\ ksMsg' \in [KsJobIds -> BOOLEAN] /\ ksLost' = ksLost
         /\ \A j \in DOMAIN ksJobs : j \in DOMAIN ksJobs' /\ ksJobs'[j] = ksJobs[j] /\ ksMsg'[j] = ksMsg[j]
         /\ \E j \in DOMAIN ksJobs' : ksJobs'[j].state = "QUEUED"
         /\ \A j \in DOMAIN ksJobs' : j \in DOMAIN ksJobs \/ ksMsg'[j]
<1> DEFINE n == Len(ksJobs)
           row == [type |-> type, state |-> "QUEUED", attempt |-> 0]
<1>1. /\ n \in Nat /\ n + 1 <= KsMaxJobs /\ DOMAIN ksJobs = 1..n
      /\ ksJobs' = Append(ksJobs, row) /\ ksMsg' = [ksMsg EXCEPT ![n + 1] = TRUE] /\ ksLost' = ksLost
  BY DEF QueueJob, KsTypes
<1>2. row \in KsJobRows /\ row.state = "QUEUED"
  BY DEF KsJobRows, KsEnded
<1> HIDE DEF row
<1>3. /\ ksJobs' \in Seq(KsJobRows) /\ Len(ksJobs') = n + 1 /\ DOMAIN ksJobs' = 1..(n + 1)
      /\ ksJobs'[n + 1] = row /\ \A j \in 1..n : ksJobs'[j] = ksJobs[j]
  BY <1>1, <1>2, AppendProperties DEF KsTypes
<1>4. n + 1 \in KsJobIds /\ 1..n \subseteq KsJobIds
  BY <1>1, KsBounds DEF KsJobIds
<1>5. /\ ksMsg' \in [KsJobIds -> BOOLEAN] /\ ksMsg'[n + 1] = TRUE
      /\ \A j \in 1..n : ksMsg'[j] = ksMsg[j]
  <2>1. ksMsg \in [KsJobIds -> BOOLEAN] /\ n \in Nat /\ ksMsg' = [ksMsg EXCEPT ![n + 1] = TRUE]
    BY <1>1 DEF KsTypes
  <2>2. \A j \in 1..n : j \in KsJobIds /\ j # n + 1
    BY <1>4, <2>1
  <2> HIDE DEF n
  <2> QED BY <1>4, <2>1, <2>2
<1>6. ksJobs' # <<>>
  BY <1>1, <1>3
<1>7. n + 1 \in DOMAIN ksJobs' /\ \A j \in DOMAIN ksJobs' : j \in 1..n \/ j = n + 1
  BY <1>1, <1>3
<1> HIDE DEF n
<1>8. Len(ksJobs') <= KsMaxJobs /\ \A j \in 1..n : j \in DOMAIN ksJobs'
  BY <1>1, <1>3
<1>9. \E j \in DOMAIN ksJobs' : ksJobs'[j].state = "QUEUED"
  BY <1>2, <1>3, <1>7
<1>10. \A j \in DOMAIN ksJobs' : j \in DOMAIN ksJobs \/ ksMsg'[j]
  BY <1>1, <1>5, <1>7
<1> QED BY <1>1, <1>3, <1>5, <1>6, <1>8, <1>9, <1>10

\* A request that may change the source, and queues a job or none, while nothing runs.
LEMMA KsRequestKeeps ==
  ASSUME KsInv, SourceFree, UNCHANGED <<ksUpload, ksRun>>,
         NEW source \in KsSources, ksSource' = source,
         source.state # "NONE",
         ksDeclared \subseteq ksDeclared',
         source.type = "FILE" => /\ ksVersions' \subseteq ksDeclared' 
                                 /\ source.hash \in ksDeclared' \cup {Nothing},
         ksVersions' \subseteq KsTexts,
         \/ source.state \notin KsBusy /\ UNCHANGED <<ksJobs, ksMsg, ksLost>>
         \/ \E type \in {"FETCH", "PARSE", "DELETE"} : QueueJob(type)
  PROVE  KsInv'
<1>1. CASE source.state \notin KsBusy /\ UNCHANGED <<ksJobs, ksMsg, ksLost>>
  <2>1. KsTypes'
    BY <1>1 DEF KsInv, KsTypes
  <2>2. KnowledgePromise'
    BY <1>1 DEF KsInv, KnowledgePromise, BusySourceHasJob, NoKnowledgeJobForgotten, VersionsWereDeclared, KsBusy, KsJob
  <2> QED BY <2>1, <2>2 DEF KsInv, NotThere, HashDeclared, SourceFree
<1>2. ASSUME NEW type \in {"FETCH", "PARSE", "DELETE"}, QueueJob(type)
      PROVE  KsInv'
  <2>0. /\ ksJobs' \in Seq(KsJobRows) /\ Len(ksJobs') <= KsMaxJobs
        /\ ksMsg' \in [KsJobIds -> BOOLEAN] /\ ksLost' = ksLost
        /\ \A j \in DOMAIN ksJobs : j \in DOMAIN ksJobs' /\ ksJobs'[j] = ksJobs[j] /\ ksMsg'[j] = ksMsg[j]
        /\ \E j \in DOMAIN ksJobs' : ksJobs'[j].state = "QUEUED"
        /\ \A j \in DOMAIN ksJobs' : j \in DOMAIN ksJobs \/ ksMsg'[j]
    BY <1>2, KsQueues DEF KsInv
  <2>1. KsTypes'
    BY <2>0 DEF KsInv, KsTypes
  <2>2. BusySourceHasJob' /\ VersionsWereDeclared'
    BY <2>0 DEF BusySourceHasJob, VersionsWereDeclared, KsRunnable, KsJob
  <2>3. NoKnowledgeJobForgotten'
    BY <2>0 DEF KsInv, KnowledgePromise, NoKnowledgeJobForgotten, KsJob
  <2> QED BY <2>1, <2>2, <2>3 DEF KsInv, KnowledgePromise, NotThere, HashDeclared, SourceFree
<1> QED BY <1>1, <1>2

LEMMA KsRequestsKeep ==
  ASSUME KsInv, KnowledgeRequest
  PROVE  KsInv'
<1>0. /\ ksSource \in KsSources /\ ksVersions \subseteq KsTexts /\ NoSource \in KsSources
      /\ NoSource.state = "NONE" /\ HashDeclared(ksSource)
  BY DEF KsInv, KsTypes, NoSource, KsSources, KsTexts, KsBusy
<1>1. ksSource = NoSource => SourceFree /\ ksVersions = {}
  BY <1>0 DEF KsInv, NotThere, RunKeepsPromise, SourceFree
<1>2. CASE CreateUrlSource
  <2> DEFINE source == [NoSource EXCEPT !.type = "URL", !.state = "QUEUED"]
  <2>1. source \in KsSources /\ source.state = "QUEUED" /\ source.type = "URL"
    BY <1>0 DEF KsSources, KsBusy
  <2>2. /\ QueueJob("FETCH") /\ ksSource' = source
        /\ UNCHANGED <<ksVersions, ksUpload, ksSnapshots, ksRun, ksDeclared>> /\ SourceFree
    BY <1>1, <1>2 DEF CreateUrlSource
  <2> HIDE DEF source
  <2> QED BY <1>0, <2>1, <2>2, KsRequestKeeps
<1>3. ASSUME NEW c \in KsContents, NEW type \in {"TEXT", "URL"}, CreateInlineSource(type, c)
      PROVE  KsInv'
  <2> DEFINE source == [NoSource EXCEPT !.type = type, !.state = "READY", !.current = c]
  <2>1. source \in KsSources /\ source.state = "READY" /\ source.type # "FILE"
    BY <1>0 DEF KsSources, KsTexts
  <2>2. /\ ksSource' = source /\ ksVersions' = {c}
        /\ UNCHANGED <<ksUpload, ksRun, ksDeclared, ksJobs, ksMsg, ksLost>> /\ SourceFree
    BY <1>1, <1>3 DEF CreateInlineSource
  <2> HIDE DEF source
  <2> QED BY <2>1, <2>2, KsRequestKeeps DEF KsTexts, KsBusy
<1>4. CASE InitiateFileUpload
  <2> DEFINE source == [NoSource EXCEPT !.type = "FILE", !.state = "UPLOADING", !.key = TRUE]
  <2>1. source \in KsSources /\ source.state = "UPLOADING" /\ source.type = "FILE" /\ source.hash = Nothing
    BY <1>0 DEF KsSources, NoSource
  <2>2. /\ ksSource' = source /\ ksVersions = {}
        /\ UNCHANGED <<ksVersions, ksUpload, ksRun, ksDeclared, ksJobs, ksMsg, ksLost>> /\ SourceFree
    BY <1>1, <1>4 DEF InitiateFileUpload
  <2> HIDE DEF source
  <2> QED BY <2>1, <2>2, KsRequestKeeps DEF KsBusy
<1>5. ASSUME NEW c \in KsContents, ClientUploads(c)
      PROVE  KsInv'
  <2>1. ksUpload' \in KsTexts /\ UNCHANGED <<ksSource, ksVersions, ksSnapshots, ksJobs, ksMsg, ksLost, ksRun, ksDeclared>>
    BY <1>5 DEF ClientUploads, KsTexts
  <2> QED BY <2>1 DEF KsInv, KsTypes, NotThere, HashDeclared, RunKeepsPromise, KnowledgePromise, BusySourceHasJob,
                      NoKnowledgeJobForgotten, VersionsWereDeclared, KsJob
<1>6. ASSUME NEW c \in KsContents, CompleteFileUpload(c)
      PROVE  KsInv'
  <2> DEFINE source == [ksSource EXCEPT !.state = "SCANNING", !.hash = c]
  <2>1. source \in KsSources /\ source.state = "SCANNING" /\ source.type = ksSource.type /\ source.hash = c
    BY <1>0 DEF KsSources, KsBusy, KsTexts
  <2>2. /\ ksSource' = source /\ SourceFree /\ QueueJob("PARSE")
        /\ UNCHANGED <<ksVersions, ksUpload, ksRun>> /\ ksDeclared' = ksDeclared \cup {c}
    BY <1>6 DEF CompleteFileUpload, LiveSource
  <2>3. ksSource.type = "FILE" => ksVersions \subseteq ksDeclared
    BY DEF KsInv, KnowledgePromise, VersionsWereDeclared
  <2> HIDE DEF source
  <2> QED BY <1>0, <2>1, <2>2, <2>3, KsRequestKeeps
<1>7. ASSUME NEW state \in {"QUEUED", "DELETING"}, NEW deleted \in BOOLEAN, NEW type \in {"FETCH", "DELETE"},
             LiveSource, QueueJob(type), ksSource' = [ksSource EXCEPT !.state = state, !.deleted = deleted],
             UNCHANGED <<ksVersions, ksUpload, ksSnapshots, ksRun, ksDeclared>>
      PROVE  KsInv'
  <2> DEFINE source == [ksSource EXCEPT !.state = state, !.deleted = deleted]
  <2>1. /\ source \in KsSources /\ source.state # "NONE" /\ source.type = ksSource.type
        /\ source.hash = ksSource.hash
    BY <1>0 DEF KsSources, KsBusy
  <2>2. /\ ksSource' = source /\ SourceFree
        /\ ksSource.type = "FILE" => ksVersions \subseteq ksDeclared
    BY <1>7 DEF LiveSource, KsInv, KnowledgePromise, VersionsWereDeclared
  <2> HIDE DEF source
  <2> QED BY <1>0, <1>7, <2>1, <2>2, KsRequestKeeps DEF HashDeclared
<1>8. CASE RequestSync
  <2>1. /\ LiveSource /\ QueueJob("FETCH")
        /\ UNCHANGED <<ksVersions, ksUpload, ksSnapshots, ksRun, ksDeclared>>
    BY <1>8 DEF RequestSync
  <2>2. ksSource' = [ksSource EXCEPT !.state = "QUEUED", !.deleted = ksSource.deleted] /\ ksSource.deleted \in BOOLEAN
    BY <1>0, <1>8 DEF RequestSync, KsSources
  <2> QED BY <1>7, <2>1, <2>2
<1>9. CASE RequestDelete
  <2>1. /\ LiveSource /\ QueueJob("DELETE")
        /\ UNCHANGED <<ksVersions, ksUpload, ksSnapshots, ksRun, ksDeclared>>
        /\ ksSource' = [ksSource EXCEPT !.state = "DELETING", !.deleted = TRUE]
    BY <1>9 DEF RequestDelete
  <2> QED BY <1>7, <2>1
<1> QED BY <1>2, <1>3, <1>4, <1>5, <1>6, <1>8, <1>9 DEF KnowledgeRequest

\* A run that begins takes the message of its job, and holds what it will commit.
LEMMA KsRunBegins ==
  ASSUME KsInv, NEW j, NEW source \in KsSources, NEW versions \in SUBSET KsTexts, NEW state \in KsEnded,
         Ends(j, source, versions, state), ksUpload' \in KsTexts,
         source.state # "NONE",
         state # "EXCEPTION" /\ source.state \in KsBusy => state = "RETRYABLE_FAILED",
         source.type = ksSource.type,
         source.type = "FILE" => /\ source.hash \in ksDeclared \cup {Nothing}
                                 /\ versions \subseteq ksDeclared
  PROVE  KsInv'
<1> DEFINE run == [job |-> j, source |-> source, versions |-> versions, state |-> state]
<1>1. /\ j \in DOMAIN ksJobs /\ ksMsg[j] /\ ksRun = NoKsRun /\ ksJobs[j].state \in KsRunnable
      /\ ksMsg' = [ksMsg EXCEPT ![j] = FALSE] /\ ksRun' = run
      /\ UNCHANGED <<ksSource, ksVersions, ksJobs, ksLost, ksDeclared>>
  BY DEF Ends, Delivered, SourceFree, KsJob
<1>2. j \in Nat \ {0} /\ j \in KsJobIds
  BY <1>1, KsBounds DEF KsInv, KsTypes, KsJobIds
<1>3. RunKeepsPromise(run)'
  BY <1>1 DEF RunKeepsPromise, HashDeclared, KsEnded
<1>4. KsTypes'
  <2>1. run \in [job : Nat, source : KsSources, versions : SUBSET KsTexts, state : KsEnded \cup {"none"}]
    BY <1>2
  <2> HIDE DEF run
  <2> QED BY <1>1, <2>1 DEF KsInv, KsTypes
<1>5. NoKnowledgeJobForgotten'
  <2> SUFFICES ASSUME NEW k \in DOMAIN ksJobs, ksJobs[k].state \in KsRunnable
               PROVE  ksMsg'[k] \/ ksRun'.job = k \/ ksLost'[k]
    BY <1>1 DEF NoKnowledgeJobForgotten, KsJob
  <2>1. CASE k = j
    BY <1>1, <2>1
  <2>2. CASE k # j
    <3>1. k # 0
      BY DEF KsInv, KsTypes
    <3>2. ksMsg[k] \/ ksLost[k]
      BY <1>1, <3>1 DEF KsInv, KnowledgePromise, NoKnowledgeJobForgotten, KsJob, NoKsRun
    <3> QED BY <1>1, <2>2, <3>2 DEF KsInv, KsTypes
  <2> QED BY <2>1, <2>2
<1>6. BusySourceHasJob' /\ VersionsWereDeclared'
  BY <1>1 DEF KsInv, KnowledgePromise, BusySourceHasJob, VersionsWereDeclared, KsJob
<1> HIDE DEF run
<1> QED BY <1>1, <1>3, <1>4, <1>5, <1>6 DEF KsInv, KnowledgePromise, NotThere, HashDeclared

\* What the invariant says of the source when a run begins.
LEMMA KsAtRun ==
  ASSUME KsInv, NEW j, Delivered(j)
  PROVE  /\ ksSource \in KsSources /\ ksSource.state # "NONE" /\ ksVersions \subseteq KsTexts
         /\ ksUpload \in KsTexts /\ ksRun = NoKsRun /\ j \in KsJobIds
         /\ HashDeclared(ksSource) /\ VersionsWereDeclared
<1>1. j \in DOMAIN ksJobs
  BY DEF Delivered
<1>2. ksJobs # <<>> /\ j \in KsJobIds
  BY <1>1, KsBounds DEF KsInv, KsTypes, KsJobIds
<1> QED BY <1>2 DEF KsInv, KsTypes, NotThere, Delivered, SourceFree, KnowledgePromise

LEMMA KsErrorKeeps ==
  ASSUME KsInv, NEW j, NEW temporary \in BOOLEAN, Delivered(j), EndsInError(j, temporary), ksUpload' \in KsTexts
  PROVE  KsInv'
<1> DEFINE retryable == temporary /\ KsJob(j).attempt + 1 < KsMaxAttempts
           source == [ksSource EXCEPT !.state = SourceAfterFailure(retryable)]
           state == IF retryable THEN "RETRYABLE_FAILED" ELSE "FINAL_FAILED"
<1>1. Ends(j, source, ksVersions, state)
  BY DEF EndsInError
<1>2. /\ ksSource \in KsSources /\ ksVersions \subseteq KsTexts
      /\ HashDeclared(ksSource) /\ VersionsWereDeclared
  BY KsAtRun
<1>3. state \in KsEnded /\ state # "EXCEPTION"
  BY DEF KsEnded
<1>4. SourceAfterFailure(retryable) = IF state = "RETRYABLE_FAILED" THEN "QUEUED" ELSE "FAILED"
  BY DEF SourceAfterFailure
<1> HIDE DEF retryable, state
<1>5. /\ source \in KsSources /\ source.type = ksSource.type /\ source.hash = ksSource.hash
      /\ source.state = IF state = "RETRYABLE_FAILED" THEN "QUEUED" ELSE "FAILED"
  BY <1>2, <1>4 DEF KsSources, KsBusy
<1> HIDE DEF source
<1>6. /\ source.state # "NONE"
      /\ state # "EXCEPTION" /\ source.state \in KsBusy => state = "RETRYABLE_FAILED"
  BY <1>5 DEF KsBusy
<1>7. source.type = "FILE" => source.hash \in ksDeclared \cup {Nothing} /\ ksVersions \subseteq ksDeclared
  BY <1>2, <1>5 DEF HashDeclared, VersionsWereDeclared
<1> QED BY <1>1, <1>2, <1>3, <1>5, <1>6, <1>7, KsRunBegins

LEMMA KsStoreKeeps ==
  ASSUME KsInv, NEW j, NEW c \in KsTexts, NEW poor \in BOOLEAN, Delivered(j), StoreParsedVersion(j, c, poor),
         ksUpload' \in KsTexts,
         ksSource.type = "FILE" => c \in ksDeclared
  PROVE  KsInv'
<1> DEFINE after == IF poor /\ c \notin ksVersions THEN "NEEDS_REVIEW" ELSE "READY"
           source == [ksSource EXCEPT !.state = after, !.current = c]
           state == IF after = "READY" THEN "SUCCEEDED" ELSE "NEEDS_REVIEW"
<1>1. Ends(j, source, ksVersions \cup {c}, state)
  BY DEF StoreParsedVersion
<1>2. /\ ksSource \in KsSources /\ ksVersions \subseteq KsTexts
      /\ HashDeclared(ksSource) /\ VersionsWereDeclared
  BY KsAtRun
<1>3. state \in KsEnded /\ after \in {"NEEDS_REVIEW", "READY"}
  BY DEF KsEnded
<1> HIDE DEF after, state
<1>4. /\ source \in KsSources /\ source.type = ksSource.type /\ source.hash = ksSource.hash
      /\ source.state # "NONE" /\ source.state \notin KsBusy
  BY <1>2, <1>3 DEF KsSources, KsBusy
<1> HIDE DEF source
<1>5. source.type = "FILE" => source.hash \in ksDeclared \cup {Nothing} /\ ksVersions \cup {c} \subseteq ksDeclared
  BY <1>2, <1>4 DEF HashDeclared, VersionsWereDeclared
<1>6. ksVersions \cup {c} \in SUBSET KsTexts
  BY <1>2
<1> QED BY <1>1, <1>3, <1>4, <1>5, <1>6, KsRunBegins

LEMMA KsDeleteKeeps ==
  ASSUME KsInv, NEW j, DeleteSourceData(j)
  PROVE  KsInv'
<1>1. Delivered(j)
  BY DEF DeleteSourceData
<1>2. /\ ksSource \in KsSources /\ ksVersions \subseteq KsTexts /\ ksSource.state # "NONE"
      /\ HashDeclared(ksSource) /\ VersionsWereDeclared /\ ksUpload \in KsTexts
  BY <1>1, KsAtRun
<1>3. ksUpload' \in KsTexts
  BY <1>2 DEF DeleteSourceData, KsTexts
<1>4. CASE ksSource.current = Nothing
  <2> DEFINE source == [ksSource EXCEPT !.state = "DELETED", !.key = FALSE, !.hash = Nothing]
  <2>1. Ends(j, source, {}, "SUCCEEDED")
    BY <1>4 DEF DeleteSourceData
  <2>2. /\ source \in KsSources /\ source.type = ksSource.type /\ source.hash = Nothing
        /\ source.state # "NONE" /\ source.state \notin KsBusy
    BY <1>2 DEF KsSources, KsBusy, KsTexts
  <2> HIDE DEF source
  <2> QED BY <1>3, <2>1, <2>2, KsRunBegins DEF KsEnded
<1>5. CASE ksSource.current # Nothing
  <2>1. Ends(j, ksSource, ksVersions, "EXCEPTION")
    BY <1>5 DEF DeleteSourceData
  <2> QED BY <1>2, <1>3, <2>1, KsRunBegins DEF KsEnded, HashDeclared, VersionsWereDeclared
<1> QED BY <1>4, <1>5

LEMMA KsCommitKeeps ==
  ASSUME KsInv, KsCommit
  PROVE  KsInv'
<1> DEFINE j == ksRun.job
           row == [type |-> ksJobs[j].type, state |-> ksRun.state, attempt |-> ksJobs[j].attempt + 1]
<1>1. /\ ksRun # NoKsRun /\ ksRun.state # "EXCEPTION" /\ ksRun' = NoKsRun
      /\ ksSource' = ksRun.source /\ ksVersions' = ksRun.versions
      /\ ksMsg' = [ksMsg EXCEPT ![j] = (ksRun.state = "RETRYABLE_FAILED")]
      /\ UNCHANGED <<ksUpload, ksLost, ksDeclared>>
  BY DEF KsCommit
<1>2. RunKeepsPromise(ksRun)
  BY <1>1 DEF KsInv
<1>3. /\ j \in DOMAIN ksJobs /\ DOMAIN ksJobs = 1..Len(ksJobs) /\ Len(ksJobs) \in Nat /\ j \in KsJobIds
      /\ ksJobs[j] \in KsJobRows /\ ksRun.state \in KsEnded
  BY <1>2, KsBounds DEF KsInv, KsTypes, RunKeepsPromise, KsJobIds
<1>4. row \in KsJobRows
  BY <1>3 DEF KsJobRows
<1>5. ksJobs' = [ksJobs EXCEPT ![j] = row]
  BY DEF KsCommit
<1>6. row.state = ksRun.state
  OBVIOUS
<1> HIDE DEF row, j
<1>7. /\ ksJobs' \in Seq(KsJobRows) /\ Len(ksJobs') = Len(ksJobs) /\ DOMAIN ksJobs' = DOMAIN ksJobs
      /\ ksJobs'[j] = row /\ \A k \in DOMAIN ksJobs \ {j} : ksJobs'[k] = ksJobs[k]
  BY <1>3, <1>4, <1>5, ExceptSeq DEF KsInv, KsTypes
<1>8. /\ ksMsg' \in [KsJobIds -> BOOLEAN] /\ (ksMsg'[j] <=> ksRun.state = "RETRYABLE_FAILED")
      /\ \A k \in KsJobIds \ {j} : ksMsg'[k] = ksMsg[k]
  BY <1>1, <1>3 DEF KsInv, KsTypes, j
<1>9. KsTypes'
  <2>1. NoKsRun \in [job : Nat, source : KsSources, versions : SUBSET KsTexts, state : KsEnded \cup {"none"}]
    BY DEF NoKsRun, NoSource, KsSources, KsTexts, KsBusy
  <2> QED BY <1>1, <1>7, <1>8, <2>1 DEF KsInv, KsTypes
<1>10. BusySourceHasJob'
  <2>1. ksRun.source.state \in KsBusy => ksRun.state = "RETRYABLE_FAILED"
    BY <1>1, <1>2 DEF RunKeepsPromise
  <2> QED BY <1>1, <1>3, <1>6, <1>7, <2>1 DEF BusySourceHasJob, KsBusy, KsRunnable, KsJob
<1>11. NoKnowledgeJobForgotten'
  <2> SUFFICES ASSUME NEW k \in DOMAIN ksJobs, ksJobs'[k].state \in KsRunnable
               PROVE  ksMsg'[k] \/ ksLost'[k]
    BY <1>7 DEF NoKnowledgeJobForgotten, KsJob
  <2>1. CASE k = j
    BY <1>3, <1>6, <1>7, <1>8, <2>1 DEF KsRunnable, KsEnded
  <2>2. CASE k # j
    <3>1. k \in KsJobIds
      BY <1>3, KsBounds DEF KsInv, KsTypes, KsJobIds
    <3>2. ksMsg[k] \/ ksLost[k]
      BY <1>7, <2>2 DEF KsInv, KnowledgePromise, NoKnowledgeJobForgotten, KsJob, j
    <3> QED BY <1>1, <1>8, <2>2, <3>1, <3>2
  <2> QED BY <2>1, <2>2
<1>12. VersionsWereDeclared' /\ NotThere' /\ HashDeclared(ksSource)'
  BY <1>1, <1>2 DEF RunKeepsPromise, VersionsWereDeclared, NotThere, HashDeclared
<1> QED BY <1>1, <1>9, <1>10, <1>11, <1>12 DEF KsInv, KnowledgePromise

LEMMA KsRollbackKeeps ==
  ASSUME KsInv, KsRolledBack
  PROVE  KsInv'
<1> DEFINE j == ksRun.job
<1>1. /\ ksRun # NoKsRun /\ ksRun' = NoKsRun
      /\ UNCHANGED <<ksSource, ksVersions, ksUpload, ksSnapshots, ksJobs, ksDeclared>>
      /\ \/ ksMsg' = [ksMsg EXCEPT ![j] = TRUE] /\ ksLost' = ksLost
         \/ ksLost' = [ksLost EXCEPT ![j] = TRUE] /\ ksMsg' = ksMsg
  BY DEF KsRolledBack, Redelivered
<1>2. /\ j \in DOMAIN ksJobs /\ \A k \in DOMAIN ksJobs : k \in KsJobIds /\ k # 0
  BY <1>1, KsBounds DEF KsInv, KsTypes, RunKeepsPromise, KsJobIds
<1>3. KsTypes'
  <2>1. NoKsRun \in [job : Nat, source : KsSources, versions : SUBSET KsTexts, state : KsEnded \cup {"none"}]
    BY DEF NoKsRun, NoSource, KsSources, KsTexts, KsBusy
  <2>2. ksMsg' \in [KsJobIds -> BOOLEAN] /\ ksLost' \in [KsJobIds -> BOOLEAN]
    BY <1>1 DEF KsInv, KsTypes
  <2> QED BY <1>1, <2>1, <2>2 DEF KsInv, KsTypes
<1>4. NoKnowledgeJobForgotten'
  BY <1>1, <1>2 DEF KsInv, KsTypes, KnowledgePromise, NoKnowledgeJobForgotten, KsJob
<1>5. BusySourceHasJob' /\ VersionsWereDeclared' /\ NotThere' /\ HashDeclared(ksSource)'
  BY <1>1 DEF KsInv, KnowledgePromise, BusySourceHasJob, VersionsWereDeclared, NotThere, HashDeclared, KsJob
<1> QED BY <1>1, <1>3, <1>4, <1>5 DEF KsInv, KnowledgePromise

LEMMA KsRunKeeps ==
  ASSUME KsInv, KnowledgeRun
  PROVE  KsInv'
<1>1. ASSUME NEW j \in KsJobIds, KsDeliveryIgnored(j)
      PROVE  KsInv'
  <2>1. /\ ksMsg' = [ksMsg EXCEPT ![j] = FALSE] /\ ksJobs[j].state \notin KsRunnable
        /\ UNCHANGED <<ksSource, ksVersions, ksUpload, ksSnapshots, ksJobs, ksLost, ksRun, ksDeclared>>
    BY <1>1 DEF KsDeliveryIgnored, KsJob
  <2>2. KsTypes' /\ NoKnowledgeJobForgotten'
    BY <2>1 DEF KsInv, KsTypes, KnowledgePromise, NoKnowledgeJobForgotten, KsJob
  <2>3. RunKeepsPromise(ksRun)' <=> RunKeepsPromise(ksRun)
    BY <2>1 DEF RunKeepsPromise, HashDeclared
  <2> QED BY <2>1, <2>2, <2>3 DEF KsInv, KnowledgePromise, BusySourceHasJob, VersionsWereDeclared, NotThere,
                                  HashDeclared, KsJob
<1>2. ASSUME NEW j \in KsJobIds, NEW temporary \in BOOLEAN, Delivered(j), EndsInError(j, temporary),
             ksUpload' \in KsTexts
      PROVE  KsInv'
  BY <1>2, KsErrorKeeps
<1>3. ksUpload \in KsTexts /\ Nothing \in KsTexts /\ KsContents \subseteq KsTexts
  BY DEF KsInv, KsTypes, KsTexts
<1>4. ASSUME NEW j \in KsJobIds, FetchFails(j) \/ ParseFails(j) \/ ParseRejects(j) \/ DeleteFails(j)
      PROVE  KsInv'
  BY <1>2, <1>3, <1>4 DEF FetchFails, ParseFails, ParseRejects, DeleteFails
<1>5. ASSUME NEW j \in KsJobIds, FetchStores(j)
      PROVE  KsInv'
  <2>1. PICK c \in KsContents, poor \in BOOLEAN : StoreParsedVersion(j, c, poor)
    BY <1>5 DEF FetchStores
  <2>2. Delivered(j) /\ ksUpload' \in KsTexts /\ ksSource.type # "FILE" /\ c \in KsTexts
    BY <1>3, <1>5 DEF FetchStores
  <2> QED BY <2>1, <2>2, KsStoreKeeps
<1>6. ASSUME NEW j \in KsJobIds, ParseStores(j)
      PROVE  KsInv'
  <2>1. PICK poor \in BOOLEAN : StoreParsedVersion(j, ksUpload, poor)
    BY <1>6 DEF ParseStores
  <2>2. Delivered(j) /\ ksUpload' \in KsTexts /\ ksUpload # Nothing /\ ksUpload = ksSource.hash
    BY <1>3, <1>6 DEF ParseStores, DigestMatches
  <2>3. ksSource.type = "FILE" => ksUpload \in ksDeclared
    BY <2>2 DEF KsInv, HashDeclared
  <2> QED BY <1>3, <2>1, <2>2, <2>3, KsStoreKeeps
<1>7. ASSUME NEW j \in KsJobIds, ParseEmpty(j)
      PROVE  KsInv'
  <2> DEFINE source == [ksSource EXCEPT !.state = "NEEDS_REVIEW"]
  <2>1. Ends(j, source, ksVersions, "NEEDS_REVIEW") /\ Delivered(j) /\ ksUpload' \in KsTexts
    BY <1>3, <1>7 DEF ParseEmpty
  <2>2. /\ ksSource \in KsSources /\ ksVersions \subseteq KsTexts
        /\ HashDeclared(ksSource) /\ VersionsWereDeclared
    BY <2>1, KsAtRun
  <2>3. /\ source \in KsSources /\ source.type = ksSource.type /\ source.hash = ksSource.hash
        /\ source.state # "NONE" /\ source.state \notin KsBusy
    BY <2>2 DEF KsSources, KsBusy
  <2> HIDE DEF source
  <2> QED BY <2>1, <2>2, <2>3, KsRunBegins DEF KsEnded, HashDeclared, VersionsWereDeclared
<1> QED BY <1>1, <1>4, <1>5, <1>6, <1>7, KsDeleteKeeps, KsCommitKeeps, KsRollbackKeeps DEF KnowledgeRun

\* A source that waits has a job, a job that waits has a message, and a file holds only
\* what was declared, for any number of jobs, runs and crashes (domain/knowledge).
THEOREM KnowledgeKeepsItsPromise == KsSpec => []KnowledgePromise
<1>1. ASSUME KsInv, UNCHANGED ksVars PROVE KsInv'
  BY <1>1 DEF ksVars, KsInv, KsTypes, NotThere, HashDeclared, RunKeepsPromise, KnowledgePromise, BusySourceHasJob,
              NoKnowledgeJobForgotten, VersionsWereDeclared, KsJob
<1>2. KsInv /\ [KsNext]_ksVars => KsInv'
  BY <1>1, KsRequestsKeep, KsRunKeeps DEF KsNext
<1>3. KsInv => KnowledgePromise
  BY DEF KsInv
<1> QED BY <1>2, <1>3, KsInitInv, PTL DEF KsSpec

-----------------------------------------------------------------------------
(* The budget of a campaign.                                               *)

SpendRows == [ref : SpRefs, amount : SpAmounts, spent : Nat, limit : SpLimits, enforcement : Enforcements]

SpTypes ==
  /\ spCampaign \in [limit : SpLimits, enforcement : Enforcements, status : CampaignStatus]
  /\ spLedger \in Seq(SpendRows)
  /\ spTx \in [SpClients -> SpendRows \cup {NoSpend}]

\* Whoever has the campaign's row has it alone and knows what was spent.
SpendKnows ==
  \A c \in SpClients : spTx[c] # NoSpend =>
    /\ spTx[c].spent = SpentUpTo(Len(spLedger))
    /\ \A d \in SpClients : spTx[d] # NoSpend => d = c

SpInv == SpTypes /\ SpendKnows /\ SpendWithinBudget

\* The sum of a ledger's first rows, and of one row more.
LEMMA SpendSums ==
  ASSUME NEW n \in Nat, NEW s \in Seq(SpendRows), n <= Len(s)
  PROVE  /\ SumFunction([i \in 1..n |-> s[i].amount]) \in Nat
         /\ n < Len(s) => SumFunction([i \in 1..(n + 1) |-> s[i].amount])
                            = s[n + 1].amount + SumFunction([i \in 1..n |-> s[i].amount])
<1> DEFINE f == [i \in 1..n |-> s[i].amount]
           g == [i \in 1..(n + 1) |-> s[i].amount]
<1>1. Len(s) \in Nat /\ \A i \in 1..Len(s) : s[i].amount \in Nat
  <2>1. \A r \in SpendRows : r.amount \in SpAmounts
    BY DEF SpendRows
  <2>2. \A x \in SpAmounts : x \in Nat
    BY SpNumbers
  <2>3. Len(s) \in Nat /\ \A i \in 1..Len(s) : s[i] \in SpendRows
    OBVIOUS
  <2> QED BY <2>1, <2>2, <2>3
<1>2. IsFiniteSet(1..n)
  BY FS_Interval
<1>3. Summable(f, 1..n) /\ \A i \in 1..n : f[i] \in Nat
  BY <1>1, <1>2 DEF Summable
<1>4. SumFunction(f) = SumFunctionOnSet(f, 1..n) /\ SumFunction(g) = SumFunctionOnSet(g, 1..(n + 1))
  BY DEF SumFunction
<1>5. SumFunctionOnSet(f, 1..n) \in Nat
  <2> HIDE DEF f
  <2> QED BY <1>3, SumType
<1>6. ASSUME n < Len(s) PROVE SumFunctionOnSet(g, 1..(n + 1)) = s[n + 1].amount + SumFunctionOnSet(f, 1..n)
  <2>1. 1..(n + 1) = (1..n) \cup {n + 1} /\ n + 1 \notin 1..n
    OBVIOUS
  <2>2. \A i \in 1..n : g[i] = f[i]
    OBVIOUS
  <2>3. g[n + 1] = s[n + 1].amount /\ g[n + 1] \in Int
    BY <1>1, <1>6
  <2> HIDE DEF f, g
  <2>4. SumFunctionOnSet(g, 1..n) = SumFunctionOnSet(f, 1..n) /\ Summable(g, 1..n)
    BY <1>2, <1>3, <2>2, SumEqual DEF Summable
  <2>5. SumFunctionOnSet(g, (1..n) \cup {n + 1}) = g[n + 1] + SumFunctionOnSet(g, 1..n)
    BY <2>1, <2>3, <2>4, SumInsert
  <2> QED BY <2>1, <2>3, <2>4, <2>5
<1> QED BY <1>4, <1>5, <1>6

\* The sums depend on the ledger alone.
LEMMA SpRests ==
  ASSUME SpInv, UNCHANGED spLedger
  PROVE  SpendWithinBudget' /\ SpentUpTo(Len(spLedger))' = SpentUpTo(Len(spLedger))
BY DEF SpInv, SpendWithinBudget, SpentUpTo

LEMMA SpStartKeeps ==
  ASSUME SpInv, NEW c \in SpClients, NEW ref \in SpRefs, NEW amount \in SpAmounts, SpendStart(c, ref, amount)
  PROVE  SpInv'
<1> DEFINE row == [ref |-> ref, amount |-> amount, spent |-> SpentUpTo(Len(spLedger)),
                   limit |-> spCampaign.limit, enforcement |-> spCampaign.enforcement]
<1>1. SpTypes /\ \A d \in SpClients : spTx[d] = NoSpend
  BY DEF SpendStart, CampaignFree, SpInv
<1>2. spTx' = [spTx EXCEPT ![c] = row] /\ UNCHANGED <<spCampaign, spLedger>>
  BY DEF SpendStart
<1>3. SpentUpTo(Len(spLedger)) \in Nat
  <2>1. spLedger \in Seq(SpendRows)
    BY <1>1 DEF SpTypes
  <2>2. Len(spLedger) \in Nat /\ Len(spLedger) <= Len(spLedger)
    BY <2>1
  <2> QED BY <2>1, <2>2, SpendSums DEF SpentUpTo
<1>4. row \in SpendRows /\ row.spent = SpentUpTo(Len(spLedger))
  BY <1>1, <1>3 DEF SpTypes, SpendRows
<1> HIDE DEF row
<1>5. SpTypes'
  BY <1>1, <1>2, <1>4 DEF SpTypes
<1>6. SpendWithinBudget' /\ SpentUpTo(Len(spLedger))' = SpentUpTo(Len(spLedger))
  BY <1>2, SpRests
<1>7. spTx'[c] = row /\ \A d \in SpClients : d # c => spTx'[d] = NoSpend
  BY <1>1, <1>2 DEF SpTypes
<1>8. SpendKnows'
  BY <1>4, <1>6, <1>7 DEF SpendKnows
<1> QED BY <1>5, <1>6, <1>8 DEF SpInv

LEMMA SpRecordedKeeps ==
  ASSUME SpInv, NEW c \in SpClients, SpendRecorded(c)
  PROVE  SpInv'
<1> DEFINE tx == spTx[c]
           n == Len(spLedger)
<1>1. /\ tx \in SpendRows /\ spLedger \in Seq(SpendRows) /\ n \in Nat
      /\ tx.spent = SpentUpTo(n) /\ \A d \in SpClients : spTx[d] # NoSpend => d = c
  BY DEF SpInv, SpTypes, SpendKnows, SpendRecorded
<1>2. /\ Recorded(tx) /\ spLedger' = Append(spLedger, tx)
      /\ spTx' = [spTx EXCEPT ![c] = NoSpend] /\ UNCHANGED spCampaign
  BY DEF SpendRecorded
<1>3. /\ spLedger' \in Seq(SpendRows) /\ Len(spLedger') = n + 1 /\ spLedger'[n + 1] = tx
      /\ \A i \in 1..n : spLedger'[i] = spLedger[i]
  BY <1>1, <1>2, AppendProperties
<1>4. SpTypes'
  BY <1>2, <1>3 DEF SpInv, SpTypes
<1>5. SpendKnows'
  BY <1>1, <1>2 DEF SpendKnows, SpInv, SpTypes
<1>6. \A i \in 0..n : SumFunction([j \in 1..i |-> spLedger'[j].amount]) = SpentUpTo(i)
  <2>1. ASSUME NEW i \in 0..n PROVE SumFunction([j \in 1..i |-> spLedger'[j].amount]) = SpentUpTo(i)
    <3>1. [j \in 1..i |-> spLedger'[j].amount] = [j \in 1..i |-> spLedger[j].amount]
      BY <1>1, <1>3
    <3> QED BY <3>1 DEF SpentUpTo
  <2> QED BY <2>1
<1>7. tx.enforcement # "WARN" => tx.spent + tx.amount <= tx.limit
  BY <1>1, <1>2 DEF Recorded, BudgetDecision, SpendRows, Enforcements
<1>8. SumFunction([j \in 1..(n + 1) |-> spLedger'[j].amount]) = tx.amount + tx.spent
  <2>1. n < Len(spLedger') /\ n <= Len(spLedger')
    BY <1>1, <1>3
  <2>2. SumFunction([j \in 1..(n + 1) |-> spLedger'[j].amount])
          = spLedger'[n + 1].amount + SumFunction([j \in 1..n |-> spLedger'[j].amount])
    BY <1>1, <1>3, <2>1, SpendSums
  <2>3. SumFunction([j \in 1..n |-> spLedger'[j].amount]) = tx.spent
    BY <1>1, <1>6
  <2> QED BY <1>3, <2>2, <2>3
<1>9. SpendWithinBudget'
  <2>1. SUFFICES ASSUME NEW i \in 1..(n + 1), spLedger'[i].enforcement # "WARN"
                 PROVE  SumFunction([j \in 1..i |-> spLedger'[j].amount]) <= spLedger'[i].limit
    BY <1>1, <1>3 DEF SpendWithinBudget, SpentUpTo
  <2>2. CASE i = n + 1
    <3>1. tx.amount \in Int /\ tx.spent \in Int /\ tx.limit \in Int
      <4>1. tx.amount \in SpAmounts /\ tx.spent \in Nat /\ tx.limit \in SpLimits
        BY <1>1 DEF SpendRows
      <4>2. (\A x \in SpAmounts : x \in Nat) /\ (\A x \in SpLimits : x \in Nat)
        BY SpNumbers
      <4> QED BY <4>1, <4>2
    <3>2. tx.amount + tx.spent <= tx.limit
      BY <1>3, <1>7, <2>1, <2>2, <3>1
    <3> QED BY <1>3, <1>8, <2>2, <3>2
  <2>3. CASE i # n + 1
    <3>1. i \in 1..n
      BY <1>1, <2>3
    <3>2. SpentUpTo(i) <= spLedger[i].limit
      BY <1>1, <1>3, <2>1, <3>1 DEF SpInv, SpendWithinBudget
    <3> QED BY <1>3, <1>6, <3>1, <3>2
  <2> QED BY <2>2, <2>3
<1> QED BY <1>4, <1>5, <1>9 DEF SpInv

LEMMA SpStep == SpInv /\ [CampaignRequest]_spVars => SpInv'
<1> SUFFICES ASSUME SpInv, [CampaignRequest]_spVars PROVE SpInv'
  OBVIOUS
<1>1. ASSUME NEW c \in SpClients, SpendDeclined(c) \/ SpendRolledBack(c) PROVE SpInv'
  <2>1. spTx' = [spTx EXCEPT ![c] = NoSpend] /\ UNCHANGED spLedger
    BY <1>1 DEF SpendDeclined, SpendRolledBack
  <2>2. spCampaign' \in [limit : SpLimits, enforcement : Enforcements, status : CampaignStatus]
    BY <1>1 DEF SpendDeclined, SpendRolledBack, SpInv, SpTypes, CampaignStatus
  <2>3. SpTypes'
    BY <2>1, <2>2 DEF SpInv, SpTypes
  <2>4. SpendWithinBudget' /\ SpentUpTo(Len(spLedger))' = SpentUpTo(Len(spLedger))
    BY <2>1, SpRests
  <2>5. \A d \in SpClients : spTx'[d] # NoSpend => spTx'[d] = spTx[d]
    BY <2>1 DEF SpInv, SpTypes
  <2>6. SpendKnows'
    BY <2>4, <2>5 DEF SpInv, SpendKnows
  <2> QED BY <2>3, <2>4, <2>6 DEF SpInv
<1>2. ASSUME NEW limit \in SpLimits, NEW enforcement \in Enforcements, NEW status \in CampaignStatus,
             UpdateCampaign(limit, enforcement, status)
      PROVE  SpInv'
  <2>1. SpTypes' /\ UNCHANGED <<spLedger, spTx>>
    BY <1>2 DEF UpdateCampaign, SpInv, SpTypes
  <2>2. SpendWithinBudget' /\ SpentUpTo(Len(spLedger))' = SpentUpTo(Len(spLedger))
    BY <2>1, SpRests
  <2> QED BY <2>1, <2>2 DEF SpInv, SpendKnows
<1>3. CASE UNCHANGED spVars
  <2>1. SpTypes' /\ UNCHANGED <<spLedger, spTx>>
    BY <1>3 DEF spVars, SpInv, SpTypes
  <2>2. SpendWithinBudget' /\ SpentUpTo(Len(spLedger))' = SpentUpTo(Len(spLedger))
    BY <2>1, SpRests
  <2> QED BY <2>1, <2>2 DEF SpInv, SpendKnows
<1> QED BY <1>1, <1>2, <1>3, SpStartKeeps, SpRecordedKeeps DEF CampaignRequest

LEMMA SpInitially == SpInit => SpInv
<1> SUFFICES ASSUME SpInit PROVE SpInv
  OBVIOUS
<1>1. spLedger = <<>> /\ \A c \in SpClients : spTx[c] = NoSpend
  BY DEF SpInit
<1>2. SpTypes
  BY DEF SpInit, SpTypes, CampaignStatus
<1> QED BY <1>1, <1>2 DEF SpInv, SpendKnows, SpendWithinBudget

-----------------------------------------------------------------------------
(* The topic tree.                                                         *)

Places == TpNodes \cup {NoTopic}

TpTypes ==
  /\ tpNode \in [TpNodes -> [status : {"NONE", "ACTIVE", "MERGED"}, parent : Places, into : Places]]
  /\ tpTx \in [TpClients -> [kind : {"none", "create", "move", "merge", "split"}, node : Places,
                             parent : Places, from : SUBSET TpNodes, locks : SUBSET TpNodes]]

\* Only a merged topic names another.
UnmergedPointsNowhere == \A n \in TpNodes : tpNode[n].status # "MERGED" => tpNode[n].into = NoTopic

\* A topic is locked by one request.
LocksExclusive == \A c, d \in TpClients : c # d => tpTx[c].locks \cap tpTx[d].locks = {}

\* What a request under way has found and locked, or made and nobody else knows.
TxKnows(c) ==
  /\ tpTx[c].kind \in {"move", "merge"} =>
       /\ tpTx[c].node \in TpNodes /\ tpTx[c].node \in tpTx[c].locks
       /\ tpNode[tpTx[c].node].status = "ACTIVE"
  /\ tpTx[c].kind = "merge" =>
       /\ tpTx[c].from \subseteq tpTx[c].locks /\ tpTx[c].node \notin tpTx[c].from
       /\ \A n \in tpTx[c].from : tpNode[n].status = "ACTIVE"
  /\ tpTx[c].kind \in {"create", "split"} =>
       /\ tpTx[c].node \in TpNodes /\ tpNode[tpTx[c].node].status = "NONE"
       /\ \A d \in TpClients : d # c => tpTx[d].node # tpTx[c].node

\* Wherever merges lead to from a merged topic there is an active one.
MergesEndActive ==
  \A S \in SUBSET Places :
    ClosedUnder(Targets, S) /\ (\E n \in S \cap TpNodes : tpNode[n].status = "MERGED") =>
      \E n \in S \cap TpNodes : tpNode[n].status = "ACTIVE"

TpInv ==
  /\ TpTypes /\ UnmergedPointsNowhere /\ LocksExclusive /\ MergesEndActive
  /\ \A c \in TpClients : TxKnows(c)

\* What is reached is closed itself.
LEMMA MergedLeads == ASSUME TpInv PROVE MergedLeadsToActive
<1>1. SUFFICES ASSUME NEW n \in TpNodes, tpNode[n].status = "MERGED"
               PROVE  \E m \in Reached(Targets, n) \ {NoTopic} : tpNode[m].status = "ACTIVE"
  BY DEF MergedLeadsToActive
<1> DEFINE closed == {S \in SUBSET Places : n \in S /\ ClosedUnder(Targets, S)}
           R == {m \in Places : \A S \in closed : m \in S}
<1>2. Reached(Targets, n) = R
  BY DEF Reached, Places
<1>3. \A m \in TpNodes : Targets[m] \in Places
  BY DEF Targets, TpInv, TpTypes
<1>4. R \in SUBSET Places /\ n \in R
  BY DEF Places
<1>5. ClosedUnder(Targets, R)
  BY <1>3 DEF ClosedUnder, Places
<1> HIDE DEF R, closed
<1>6. PICK m \in R \cap TpNodes : tpNode[m].status = "ACTIVE"
  BY <1>1, <1>4, <1>5 DEF TpInv, MergesEndActive
<1> QED BY <1>2, <1>6, TpNames

\* A step that merges nothing leaves the merged ones and where they lead alone.
LEMMA NothingMerged ==
  ASSUME TpInv, \A n \in TpNodes : /\ tpNode'[n].into = tpNode[n].into
                                   /\ tpNode'[n].status = "MERGED" <=> tpNode[n].status = "MERGED"
                                   /\ tpNode[n].status = "ACTIVE" => tpNode'[n].status = "ACTIVE"
  PROVE  MergesEndActive' /\ UnmergedPointsNowhere'
<1>1. Targets' = Targets
  BY DEF Targets
<1>2. ASSUME NEW S \in SUBSET Places, ClosedUnder(Targets', S),
             \E n \in S \cap TpNodes : tpNode'[n].status = "MERGED"
      PROVE  \E n \in S \cap TpNodes : tpNode'[n].status = "ACTIVE"
  <2>1. ClosedUnder(Targets, S) /\ \E n \in S \cap TpNodes : tpNode[n].status = "MERGED"
    BY <1>1, <1>2
  <2> QED BY <2>1 DEF TpInv, MergesEndActive
<1>3. MergesEndActive'
  BY <1>2 DEF MergesEndActive, ClosedUnder
<1> QED BY <1>3 DEF TpInv, UnmergedPointsNowhere

\* One request goes on or ends; the others know what they knew.
LEMMA OthersKnow ==
  ASSUME TpInv, NEW c \in TpClients, NEW tx, tpTx' = [tpTx EXCEPT ![c] = tx], UNCHANGED tpNode,
         tx \in [kind : {"none", "create", "move", "merge", "split"}, node : Places,
                 parent : Places, from : SUBSET TpNodes, locks : SUBSET TpNodes],
         \A n \in tx.locks : ~LockedByOther(c, n),
         tx.node \in TpNodes /\ tpNode[tx.node].status = "NONE" =>
           tx.node = tpTx[c].node \/ \A d \in TpClients : tpTx[d].node # tx.node,
         TxKnows(c)'
  PROVE  TpInv'
<1>1. TpTypes'
  BY DEF TpInv, TpTypes
<1>2. tpTx'[c] = tx /\ \A d \in TpClients : d # c => tpTx'[d] = tpTx[d]
  BY DEF TpInv, TpTypes
<1>3. UnmergedPointsNowhere' /\ MergesEndActive'
  BY NothingMerged
<1>4. LocksExclusive'
  BY <1>2 DEF TpInv, LocksExclusive, LockedByOther
<1>5. ASSUME NEW d \in TpClients, d # c PROVE TxKnows(d)'
  <2>1. TxKnows(d) /\ tpTx'[d] = tpTx[d]
    BY <1>2, <1>5 DEF TpInv
  <2>2. tpTx[d].kind \in {"create", "split"} => \A e \in TpClients : e # d => tpTx'[e].node # tpTx[d].node
    <3>1. SUFFICES ASSUME tpTx[d].kind \in {"create", "split"}, tx.node = tpTx[d].node PROVE FALSE
      BY <1>2, <2>1 DEF TxKnows
    <3>2. tpTx[d].node \in TpNodes /\ tpNode[tpTx[d].node].status = "NONE" /\ tpTx[c].node # tpTx[d].node
      BY <1>5, <2>1, <3>1 DEF TxKnows
    <3> QED BY <3>1, <3>2
  <2> QED BY <2>1, <2>2 DEF TxKnows
<1> QED BY <1>1, <1>3, <1>4, <1>5 DEF TpInv

LEMMA ParentCommitKeeps == ASSUME TpInv, NEW c \in TpClients, ParentCommit(c) PROVE TpInv'
<1> DEFINE k == tpTx[c].node
<1>1. /\ tpTx[c].kind \in {"create", "move"} /\ tpTx[c].parent \in Places
      /\ tpNode' = [tpNode EXCEPT ![k] = [@ EXCEPT !.status = "ACTIVE", !.parent = tpTx[c].parent]]
      /\ tpTx' = [tpTx EXCEPT ![c] = NoTopicTx]
  BY DEF ParentCommit, TpInv, TpTypes
<1>2. TxKnows(c) /\ k \in TpNodes /\ tpNode[k].status \in {"NONE", "ACTIVE"}
  BY <1>1 DEF TpInv, TxKnows
<1> HIDE DEF k
<1>3. /\ \A n \in TpNodes : n # k => tpNode'[n] = tpNode[n]
      /\ tpNode'[k] = [tpNode[k] EXCEPT !.status = "ACTIVE", !.parent = tpTx[c].parent]
  BY <1>1, <1>2 DEF TpInv, TpTypes
<1>4. tpNode'[k].status = "ACTIVE" /\ tpNode'[k].into = tpNode[k].into /\ tpNode'[k].parent = tpTx[c].parent
  BY <1>2, <1>3 DEF TpInv, TpTypes
<1>5. tpTx'[c] = NoTopicTx /\ \A d \in TpClients : d # c => tpTx'[d] = tpTx[d]
  BY <1>1 DEF TpInv, TpTypes
<1>6. TpTypes'
  <2>1. tpNode' \in [TpNodes -> [status : {"NONE", "ACTIVE", "MERGED"}, parent : Places, into : Places]]
    BY <1>1, <1>2 DEF TpInv, TpTypes
  <2>2. NoTopicTx \in [kind : {"none", "create", "move", "merge", "split"}, node : Places,
                       parent : Places, from : SUBSET TpNodes, locks : SUBSET TpNodes]
    BY DEF NoTopicTx, Places
  <2>3. tpTx' \in [TpClients -> [kind : {"none", "create", "move", "merge", "split"}, node : Places,
                                 parent : Places, from : SUBSET TpNodes, locks : SUBSET TpNodes]]
    BY <1>1, <2>2 DEF TpInv, TpTypes
  <2> QED BY <2>1, <2>3 DEF TpTypes
<1>7. UnmergedPointsNowhere' /\ MergesEndActive'
  <2>1. \A n \in TpNodes : /\ tpNode'[n].into = tpNode[n].into
                           /\ tpNode'[n].status = "MERGED" <=> tpNode[n].status = "MERGED"
                           /\ tpNode[n].status = "ACTIVE" => tpNode'[n].status = "ACTIVE"
    BY <1>2, <1>3, <1>4
  <2> QED BY <2>1, NothingMerged
<1>8. LocksExclusive'
  BY <1>5 DEF TpInv, LocksExclusive, NoTopicTx
<1>9. ASSUME NEW d \in TpClients PROVE TxKnows(d)'
  <2>1. CASE d = c
    BY <1>5, <2>1 DEF TxKnows, NoTopicTx
  <2>2. CASE d # c
    <3>1. TxKnows(d) /\ tpTx'[d] = tpTx[d]
      BY <1>5, <2>2 DEF TpInv
    <3>2. tpTx[d].kind \in {"create", "split"} => tpTx[d].node # k
      BY <2>2, <3>1 DEF TxKnows, k
    <3>3. \A n \in TpNodes : tpNode[n].status = "ACTIVE" => tpNode'[n].status = "ACTIVE"
      BY <1>3, <1>4
    <3>4. tpTx[d].kind \in {"create", "split"} =>
            /\ tpNode'[tpTx[d].node].status = "NONE"
            /\ \A e \in TpClients : e # d => tpTx'[e].node # tpTx[d].node
      BY <1>3, <1>5, <3>1, <3>2, TpNames DEF TxKnows, NoTopicTx
    <3>5. tpTx[d].kind = "merge" => \A n \in tpTx[d].from : tpNode'[n].status = "ACTIVE"
      BY <3>1, <3>3 DEF TxKnows, TpInv, TpTypes
    <3>6. tpTx[d].kind \in {"move", "merge"} => tpNode'[tpTx[d].node].status = "ACTIVE"
      BY <3>1, <3>3 DEF TxKnows
    <3> QED BY <3>1, <3>4, <3>5, <3>6 DEF TxKnows
  <2> QED BY <2>1, <2>2
<1> QED BY <1>6, <1>7, <1>8, <1>9 DEF TpInv

LEMMA SplitCommitKeeps ==
  ASSUME TpInv, NEW c \in TpClients, NEW children \in SUBSET TpNodes, SplitCommit(c, children)
  PROVE  TpInv'
<1> DEFINE k == tpTx[c].node
<1>1. /\ tpTx[c].kind = "split" /\ tpTx[c].parent \in Places
      /\ tpNode' = [m \in TpNodes |->
           IF m = k THEN [NoNode EXCEPT !.status = "ACTIVE", !.parent = tpTx[c].parent]
           ELSE IF m \in children THEN [tpNode[m] EXCEPT !.parent = k] ELSE tpNode[m]]
      /\ tpTx' = [tpTx EXCEPT ![c] = NoTopicTx]
  BY DEF SplitCommit, TpInv, TpTypes
<1>2. TxKnows(c) /\ k \in TpNodes /\ tpNode[k].status = "NONE" /\ tpNode[k].into = NoTopic
  BY <1>1 DEF TpInv, TxKnows, UnmergedPointsNowhere
<1> HIDE DEF k
<1>3. /\ tpNode'[k] = [status |-> "ACTIVE", parent |-> tpTx[c].parent, into |-> NoTopic]
      /\ \A n \in TpNodes : n # k => tpNode'[n].status = tpNode[n].status /\ tpNode'[n].into = tpNode[n].into
  BY <1>1, <1>2 DEF NoNode, TpInv, TpTypes
<1>5. tpTx'[c] = NoTopicTx /\ \A d \in TpClients : d # c => tpTx'[d] = tpTx[d]
  BY <1>1 DEF TpInv, TpTypes
<1>6. TpTypes'
  <2>1. tpNode' \in [TpNodes -> [status : {"NONE", "ACTIVE", "MERGED"}, parent : Places, into : Places]]
    <3>1. ASSUME NEW m \in TpNodes
          PROVE  tpNode'[m] \in [status : {"NONE", "ACTIVE", "MERGED"}, parent : Places, into : Places]
      <4>1. k \in Places /\ NoTopic \in Places
        BY <1>2 DEF Places
      <4>2. CASE m = k
        BY <1>1, <1>3, <4>1, <4>2
      <4>3. CASE m # k /\ m \in children
        BY <1>1, <4>1, <4>3 DEF TpInv, TpTypes
      <4>4. CASE m # k /\ m \notin children
        BY <1>1, <4>4 DEF TpInv, TpTypes
      <4> QED BY <4>2, <4>3, <4>4
    <3> QED BY <1>1, <3>1
  <2>2. NoTopicTx \in [kind : {"none", "create", "move", "merge", "split"}, node : Places,
                       parent : Places, from : SUBSET TpNodes, locks : SUBSET TpNodes]
    BY DEF NoTopicTx, Places
  <2>3. tpTx' \in [TpClients -> [kind : {"none", "create", "move", "merge", "split"}, node : Places,
                                 parent : Places, from : SUBSET TpNodes, locks : SUBSET TpNodes]]
    BY <1>1, <2>2 DEF TpInv, TpTypes
  <2> QED BY <2>1, <2>3 DEF TpTypes
<1>7. UnmergedPointsNowhere' /\ MergesEndActive'
  <2>1. \A n \in TpNodes : /\ tpNode'[n].into = tpNode[n].into
                           /\ tpNode'[n].status = "MERGED" <=> tpNode[n].status = "MERGED"
                           /\ tpNode[n].status = "ACTIVE" => tpNode'[n].status = "ACTIVE"
    BY <1>2, <1>3
  <2> QED BY <2>1, NothingMerged
<1>8. LocksExclusive'
  BY <1>5 DEF TpInv, LocksExclusive, NoTopicTx
<1>9. ASSUME NEW d \in TpClients PROVE TxKnows(d)'
  <2>1. CASE d = c
    BY <1>5, <2>1 DEF TxKnows, NoTopicTx
  <2>2. CASE d # c
    <3>1. TxKnows(d) /\ tpTx'[d] = tpTx[d]
      BY <1>5, <2>2 DEF TpInv
    <3>2. tpTx[d].kind \in {"create", "split"} => tpTx[d].node # k
      BY <2>2, <3>1 DEF TxKnows, k
    <3>3. \A n \in TpNodes : tpNode[n].status = "ACTIVE" => tpNode'[n].status = "ACTIVE"
      BY <1>3
    <3>4. tpTx[d].kind \in {"create", "split"} =>
            /\ tpNode'[tpTx[d].node].status = "NONE"
            /\ \A e \in TpClients : e # d => tpTx'[e].node # tpTx[d].node
      BY <1>3, <1>5, <3>1, <3>2, TpNames DEF TxKnows, NoTopicTx
    <3>5. tpTx[d].kind = "merge" => \A n \in tpTx[d].from : tpNode'[n].status = "ACTIVE"
      BY <3>1, <3>3 DEF TxKnows, TpInv, TpTypes
    <3>6. tpTx[d].kind \in {"move", "merge"} => tpNode'[tpTx[d].node].status = "ACTIVE"
      BY <3>1, <3>3 DEF TxKnows
    <3> QED BY <3>1, <3>4, <3>5, <3>6 DEF TxKnows
  <2> QED BY <2>1, <2>2
<1> QED BY <1>6, <1>7, <1>8, <1>9 DEF TpInv

\* Where a merge changed what is reached, its target is reached, and is active.
LEMMA MergeCommitKeeps == ASSUME TpInv, NEW c \in TpClients, MergeCommit(c) PROVE TpInv'
<1> DEFINE k == tpTx[c].node  from == tpTx[c].from
<1>1. /\ tpTx[c].kind = "merge" /\ from \subseteq TpNodes
      /\ tpNode' = [m \in TpNodes |->
           [tpNode[m] EXCEPT !.parent = IF @ \in from THEN k ELSE @,
                             !.status = IF m \in from THEN "MERGED" ELSE @,
                             !.into = IF m \in from THEN k ELSE @]]
      /\ tpTx' = [tpTx EXCEPT ![c] = NoTopicTx]
  BY DEF MergeCommit, TpInv, TpTypes
<1>2. /\ TxKnows(c) /\ k \in TpNodes /\ tpNode[k].status = "ACTIVE" /\ k \notin from
      /\ from \subseteq tpTx[c].locks /\ k \in tpTx[c].locks
      /\ \A n \in from : tpNode[n].status = "ACTIVE"
  BY <1>1 DEF TpInv, TxKnows
<1> HIDE DEF k, from
<1>3. \A n \in TpNodes :
        /\ n \in from => tpNode'[n].status = "MERGED" /\ tpNode'[n].into = k
        /\ n \notin from => tpNode'[n].status = tpNode[n].status /\ tpNode'[n].into = tpNode[n].into
        /\ tpNode'[n].parent \in {tpNode[n].parent, k}
  BY <1>1, <1>2 DEF TpInv, TpTypes
<1>5. tpTx'[c] = NoTopicTx /\ \A d \in TpClients : d # c => tpTx'[d] = tpTx[d]
  BY <1>1 DEF TpInv, TpTypes
<1>6. TpTypes'
  <2>1. tpNode' \in [TpNodes -> [status : {"NONE", "ACTIVE", "MERGED"}, parent : Places, into : Places]]
    <3>1. ASSUME NEW m \in TpNodes
          PROVE  tpNode'[m] \in [status : {"NONE", "ACTIVE", "MERGED"}, parent : Places, into : Places]
      <4>1. tpNode[m] \in [status : {"NONE", "ACTIVE", "MERGED"}, parent : Places, into : Places]
        BY DEF TpInv, TpTypes
      <4>2. k \in Places
        BY <1>2 DEF Places
      <4>3. tpNode'[m] = [status |-> IF m \in from THEN "MERGED" ELSE tpNode[m].status,
                          parent |-> IF tpNode[m].parent \in from THEN k ELSE tpNode[m].parent,
                          into |-> IF m \in from THEN k ELSE tpNode[m].into]
        BY <1>1, <4>1
      <4> QED BY <4>1, <4>2, <4>3
    <3> QED BY <1>1, <3>1
  <2>2. NoTopicTx \in [kind : {"none", "create", "move", "merge", "split"}, node : Places,
                       parent : Places, from : SUBSET TpNodes, locks : SUBSET TpNodes]
    BY DEF NoTopicTx, Places
  <2>3. tpTx' \in [TpClients -> [kind : {"none", "create", "move", "merge", "split"}, node : Places,
                                 parent : Places, from : SUBSET TpNodes, locks : SUBSET TpNodes]]
    BY <1>1, <2>2 DEF TpInv, TpTypes
  <2> QED BY <2>1, <2>3 DEF TpTypes
<1>7. UnmergedPointsNowhere'
  BY <1>3 DEF UnmergedPointsNowhere, TpInv
<1>8. LocksExclusive'
  BY <1>5 DEF TpInv, LocksExclusive, NoTopicTx
<1>9. MergesEndActive'
  <2>1. ASSUME NEW S \in SUBSET Places, ClosedUnder(Targets', S),
               NEW n \in S \cap TpNodes, tpNode'[n].status = "MERGED"
        PROVE  \E m \in S \cap TpNodes : tpNode'[m].status = "ACTIVE"
    <3>1. \A m \in S \cap TpNodes : tpNode'[m].into \in S
      BY <2>1, TpNames DEF ClosedUnder, Targets
    <3>2. CASE S \cap from # {}
      <4>1. PICK m \in S : m \in from
        BY <3>2
      <4>2. m \in TpNodes /\ tpNode'[m].into = k
        BY <1>1, <1>3, <4>1
      <4>3. k \in S /\ tpNode'[k].status = "ACTIVE"
        BY <1>2, <1>3, <3>1, <4>2
      <4> QED BY <1>2, <4>3
    <3>3. CASE S \cap from = {}
      <4>1. \A m \in S : m # NoTopic => m \in TpNodes
        BY DEF Places
      <4>2. ClosedUnder(Targets, S)
        BY <1>3, <3>1, <3>3, <4>1 DEF ClosedUnder, Targets
      <4>3. n \notin from /\ tpNode[n].status = "MERGED"
        BY <1>3, <2>1, <3>3
      <4>4. PICK m \in S \cap TpNodes : tpNode[m].status = "ACTIVE"
        BY <4>2, <4>3 DEF TpInv, MergesEndActive
      <4>5. m \notin from
        BY <3>3
      <4> QED BY <1>3, <4>4, <4>5
    <3> QED BY <3>2, <3>3
  <2> QED BY <2>1 DEF MergesEndActive, ClosedUnder
<1>10. ASSUME NEW d \in TpClients PROVE TxKnows(d)'
  <2>1. CASE d = c
    BY <1>5, <2>1 DEF TxKnows, NoTopicTx
  <2>2. CASE d # c
    <3>1. TxKnows(d) /\ tpTx'[d] = tpTx[d]
      BY <1>5, <2>2 DEF TpInv
    <3>2. tpTx[d].locks \cap from = {}
      BY <1>2, <2>2 DEF TpInv, LocksExclusive
    <3>4. tpTx[d].kind \in {"create", "split"} =>
            /\ tpNode'[tpTx[d].node].status = "NONE"
            /\ \A e \in TpClients : e # d => tpTx'[e].node # tpTx[d].node
      BY <1>2, <1>3, <1>5, <3>1, TpNames DEF TxKnows, NoTopicTx
    <3>5. tpTx[d].kind = "merge" => \A n \in tpTx[d].from : tpNode'[n].status = "ACTIVE"
      BY <1>3, <3>1, <3>2 DEF TxKnows, TpInv, TpTypes
    <3>6. tpTx[d].kind \in {"move", "merge"} => tpNode'[tpTx[d].node].status = "ACTIVE"
      BY <1>3, <3>1, <3>2 DEF TxKnows
    <3> QED BY <3>1, <3>4, <3>5, <3>6 DEF TxKnows
  <2> QED BY <2>1, <2>2
<1> QED BY <1>6, <1>7, <1>8, <1>9, <1>10 DEF TpInv

\* One request starts, goes on or gives up; nothing is written.
LEMMA TpWaits ==
  ASSUME TpInv, NEW c \in TpClients,
         \/ TopicRolledBack(c)
         \/ \E n \in TpNodes : MergeStart(c, n) \/ MergeSource(c, n)
         \/ \E n \in TpNodes, parent \in Places : MoveStartTopic(c, n, parent) \/ CreateStart(c, n, parent)
         \/ \E n \in TpNodes : \E source \in TpNodes \ {n} : SplitStart(c, source, n)
  PROVE  TpInv'
<1> DEFINE TxRow == [kind : {"none", "create", "move", "merge", "split"}, node : Places,
                     parent : Places, from : SUBSET TpNodes, locks : SUBSET TpNodes]
<1>0. \A tx : tpTx' = [tpTx EXCEPT ![c] = tx] => tpTx'[c] = tx
  BY DEF TpInv, TpTypes
<1>n. NoTopic \in Places /\ TpNodes \subseteq Places
  BY DEF Places
<1>1. CASE TopicRolledBack(c)
  <2>1. tpTx' = [tpTx EXCEPT ![c] = NoTopicTx] /\ UNCHANGED tpNode
    BY <1>1 DEF TopicRolledBack
  <2>2. NoTopicTx \in TxRow /\ NoTopicTx.node \notin TpNodes /\ NoTopicTx.locks = {} /\ NoTopicTx.kind = "none"
    BY <1>n, TpNames DEF NoTopicTx
  <2>3. TxKnows(c)'
    BY <1>0, <2>1, <2>2 DEF TxKnows
  <2> QED BY <2>1, <2>2, <2>3, OthersKnow
<1>2. ASSUME NEW n \in TpNodes, MergeStart(c, n) PROVE TpInv'
  <2> DEFINE tx == [NoTopicTx EXCEPT !.kind = "merge", !.node = n, !.locks = {n}]
  <2>1. tpTx' = [tpTx EXCEPT ![c] = tx] /\ UNCHANGED tpNode
    BY <1>2 DEF MergeStart
  <2>2. tx \in TxRow /\ tx.node = n /\ tx.locks = {n} /\ tx.kind = "merge" /\ tx.from = {}
    BY <1>n DEF NoTopicTx
  <2> HIDE DEF tx
  <2>3. tpNode[n].status = "ACTIVE" /\ ~LockedByOther(c, n)
    BY <1>2 DEF MergeStart
  <2>4. TxKnows(c)'
    BY <1>0, <2>1, <2>2, <2>3 DEF TxKnows
  <2>5. /\ \A m \in tx.locks : ~LockedByOther(c, m)
        /\ tpNode[tx.node].status # "NONE"
    BY <2>2, <2>3
  <2> QED BY <2>1, <2>2, <2>4, <2>5, OthersKnow
<1>3. ASSUME NEW n \in TpNodes, MergeSource(c, n) PROVE TpInv'
  <2> DEFINE rows == {n} \cup ChildrenOf(n)
             tx == [tpTx[c] EXCEPT !.from = @ \cup {n}, !.locks = @ \cup rows]
  <2>0. tpTx[c] \in TxRow /\ tpTx[c].kind = "merge" /\ n # tpTx[c].node /\ TxKnows(c)
    BY <1>3 DEF MergeSource, TpInv, TpTypes
  <2>1. tpTx' = [tpTx EXCEPT ![c] = tx] /\ UNCHANGED tpNode
    BY <1>3, <2>0 DEF MergeSource, TpInv, TpTypes
  <2>2. rows \subseteq TpNodes /\ n \in rows
    BY DEF ChildrenOf
  <2>3. tpNode[n].status = "ACTIVE" /\ \A m \in rows : ~LockedByOther(c, m)
    BY <1>3 DEF MergeSource
  <2> HIDE DEF rows
  <2>4. /\ tx \in TxRow /\ tx.kind = "merge" /\ tx.node = tpTx[c].node
        /\ tx.from = tpTx[c].from \cup {n} /\ tx.locks = tpTx[c].locks \cup rows
    BY <2>0, <2>2
  <2> HIDE DEF tx
  <2>5. \A m \in tx.locks : ~LockedByOther(c, m)
    BY <2>3, <2>4 DEF LockedByOther, TpInv, LocksExclusive
  <2>6. TxKnows(c)'
    <3>1. tpTx'[c] = tx
      BY <1>0, <2>1
    <3> QED BY <2>0, <2>1, <2>2, <2>3, <2>4, <3>1 DEF TxKnows
  <2> QED BY <2>1, <2>4, <2>5, <2>6, OthersKnow
<1>4. ASSUME NEW n \in TpNodes, NEW parent \in Places, MoveStartTopic(c, n, parent) PROVE TpInv'
  <2> DEFINE tx == [NoTopicTx EXCEPT !.kind = "move", !.node = n, !.parent = parent, !.locks = {n}]
  <2>1. tpTx' = [tpTx EXCEPT ![c] = tx] /\ UNCHANGED tpNode
    BY <1>4 DEF MoveStartTopic
  <2>2. tx \in TxRow /\ tx.node = n /\ tx.locks = {n} /\ tx.kind = "move"
    BY <1>n DEF NoTopicTx
  <2> HIDE DEF tx
  <2>3. tpNode[n].status = "ACTIVE" /\ ~LockedByOther(c, n)
    BY <1>4 DEF MoveStartTopic
  <2>4. TxKnows(c)'
    BY <1>0, <2>1, <2>2, <2>3 DEF TxKnows
  <2>5. /\ \A m \in tx.locks : ~LockedByOther(c, m)
        /\ tpNode[tx.node].status # "NONE"
    BY <2>2, <2>3
  <2> QED BY <2>1, <2>2, <2>4, <2>5, OthersKnow
<1>5. ASSUME NEW n \in TpNodes, NEW parent \in Places, CreateStart(c, n, parent) PROVE TpInv'
  <2> DEFINE tx == [NoTopicTx EXCEPT !.kind = "create", !.node = n, !.parent = parent]
  <2>1. tpTx' = [tpTx EXCEPT ![c] = tx] /\ UNCHANGED tpNode
    BY <1>5 DEF CreateStart
  <2>2. tx \in TxRow /\ tx.node = n /\ tx.locks = {} /\ tx.kind = "create"
    BY <1>n DEF NoTopicTx
  <2> HIDE DEF tx
  <2>3. tpNode[n].status = "NONE" /\ \A d \in TpClients : tpTx[d].node # n
    BY <1>5 DEF CreateStart, Unused
  <2>4. \A d \in TpClients : d # c => tpTx'[d] = tpTx[d]
    BY <2>1 DEF TpInv, TpTypes
  <2>5. TxKnows(c)'
    BY <1>0, <2>1, <2>2, <2>3, <2>4 DEF TxKnows
  <2> QED BY <2>1, <2>2, <2>3, <2>5, OthersKnow
<1>6. ASSUME NEW n \in TpNodes, NEW source \in TpNodes \ {n}, SplitStart(c, source, n) PROVE TpInv'
  <2> DEFINE tx == [kind |-> "split", node |-> n, parent |-> tpNode[source].parent,
                    from |-> {source}, locks |-> {source}]
  <2>1. tpTx' = [tpTx EXCEPT ![c] = tx] /\ UNCHANGED tpNode
    BY <1>6 DEF SplitStart
  <2>2. tx \in TxRow /\ tx.node = n /\ tx.locks = {source} /\ tx.kind = "split"
    BY <1>n DEF TpInv, TpTypes
  <2> HIDE DEF tx
  <2>3. tpNode[n].status = "NONE" /\ ~LockedByOther(c, source) /\ \A d \in TpClients : tpTx[d].node # n
    BY <1>6 DEF SplitStart, Unused
  <2>4. \A d \in TpClients : d # c => tpTx'[d] = tpTx[d]
    BY <2>1 DEF TpInv, TpTypes
  <2>5. TxKnows(c)'
    BY <1>0, <2>1, <2>2, <2>3, <2>4 DEF TxKnows
  <2>6. /\ \A m \in tx.locks : ~LockedByOther(c, m)
        /\ \A d \in TpClients : tpTx[d].node # tx.node
    BY <2>2, <2>3
  <2> QED BY <2>1, <2>2, <2>5, <2>6, OthersKnow
<1> QED BY <1>1, <1>2, <1>3, <1>4, <1>5, <1>6

LEMMA TpStep == TpInv /\ [TopicNext]_tpVars => TpInv'
<1> SUFFICES ASSUME TpInv, [TopicNext]_tpVars PROVE TpInv'
  OBVIOUS
<1>1. CASE UNCHANGED tpVars
  BY <1>1 DEF tpVars, TpInv, TpTypes, UnmergedPointsNowhere, LocksExclusive, MergesEndActive, TxKnows,
              Targets, ClosedUnder
<1>2. CASE TopicStep
  BY <1>2, ParentCommitKeeps, TpWaits DEF TopicStep
<1>3. CASE MoveRequest
  BY <1>3, TpWaits DEF MoveRequest, Places
<1>4. CASE MergeRequest
  BY <1>4, MergeCommitKeeps, TpWaits DEF MergeRequest
<1>5. CASE GrowRequest
  BY <1>5, SplitCommitKeeps, TpWaits DEF GrowRequest, Places
<1> QED BY <1>1, <1>2, <1>3, <1>4, <1>5 DEF TopicNext

\* A tree of topics: some of them have a row, each with a parent or none.
IsTopicTree(tree) == \E T \in SUBSET TpNodes : tree \in [T -> Places]

LEMMA TpInitially == ASSUME NEW tree, IsTopicTree(tree), TpInit(tree) PROVE TpInv
<1>1. PICK T \in SUBSET TpNodes : tree \in [T -> Places]
  BY DEF IsTopicTree
<1>2. \A n \in TpNodes :
        /\ tpNode[n] \in [status : {"NONE", "ACTIVE", "MERGED"}, parent : Places, into : Places]
        /\ tpNode[n].status # "MERGED" /\ tpNode[n].into = NoTopic
  BY <1>1 DEF TpInit, NoNode, Places
<1>3. \A c \in TpClients : tpTx[c] = NoTopicTx
  BY DEF TpInit
<1>4. TpTypes
  <2>1. tpNode \in [TpNodes -> [status : {"NONE", "ACTIVE", "MERGED"}, parent : Places, into : Places]]
    BY <1>2 DEF TpInit
  <2>2. NoTopicTx \in [kind : {"none", "create", "move", "merge", "split"}, node : Places,
                       parent : Places, from : SUBSET TpNodes, locks : SUBSET TpNodes]
    BY DEF NoTopicTx, Places
  <2> QED BY <2>1, <2>2 DEF TpTypes, TpInit
<1>5. UnmergedPointsNowhere /\ MergesEndActive
  BY <1>2 DEF UnmergedPointsNowhere, MergesEndActive
<1>6. LocksExclusive /\ \A c \in TpClients : TxKnows(c)
  BY <1>3 DEF LocksExclusive, TxKnows, NoTopicTx
<1> QED BY <1>4, <1>5, <1>6 DEF TpInv

\* record_campaign_spend and merge_topic_nodes: for any number of requests under way at
\* once, what is recorded under an enforced budget stays within it, and from a merged
\* topic merged_into_id leads to an active one.
THEOREM CampaignsKeepTheirPromise ==
  ASSUME NEW CONSTANT tree, IsTopicTree(tree)
  PROVE  SpSpec /\ TpSpec(tree) => []CampaignPromise
<1>1. SpSpec => []SpInv
  BY SpInitially, SpStep, PTL DEF SpSpec
<1>2. TpInit(tree) => TpInv
  BY TpInitially
<1>3. TpSpec(tree) => []TpInv
  BY <1>2, TpStep, PTL DEF TpSpec
<1>4. SpInv /\ TpInv => CampaignPromise
  BY MergedLeads DEF SpInv, CampaignPromise
<1> QED BY <1>1, <1>3, <1>4, PTL

-----------------------------------------------------------------------------
(* Briefs, the calendar and the monthly plan.                              *)

BriefStatuses == {"DRAFT", "WAITING_REVIEW", "APPROVED", "SCHEDULED", "REJECTED", "REVISION_REQUESTED",
                  "ARCHIVED"}
BriefRow == [status : BriefStatuses, stage : Nat, version : Nat]
DecisionRow == [version : Nat, stage : Nat, by : BrPeople,
                kind : {"APPROVE", "REJECT", "REQUEST_CHANGES"}, saw : Nat]
ViewRow == [version : Nat, fresh : BOOLEAN]
EntryRow == [status : {"NONE", "INSERTING", "PLANNED", "CANCELLED"}, by : ClClients \cup {""},
             brief : BOOLEAN, version : Nat, slot : Nat, overlaps : BOOLEAN, raced : BOOLEAN,
             planned : BOOLEAN, late : BOOLEAN]
KeptBrief == BriefRow \cup {NoBrief}
Placements == {"create", "recurrence", "plan"}
CalendarTx == [kind : Placements \cup {"none", "move"}, todo : Seq(ClItems), resolution : Resolutions,
               entry : Nat, brief : BOOLEAN, kept : KeptBrief, slot : Nat, overlaps : BOOLEAN, raced : BOOLEAN,
               person : BrPeople \cup {""}]
PlanRow == [status : {"NONE", "PENDING_APPROVAL", "APPROVED", "REJECTED"}, version : Nat,
            items : Seq(ClItems), seen : Nat]

BriefTypes ==
  /\ brBrief \in BriefRow /\ brView \in [BrPeople -> ViewRow]
  /\ brDecisions \in SUBSET DecisionRow /\ IsFiniteSet(brDecisions)
ClTypes == clEntry \in [ClEntries -> EntryRow] /\ clTx \in [ClClients -> CalendarTx]
PlanTypes == mpPlan \in PlanRow /\ mpView \in [BrPeople -> ViewRow]

ApproversIn(v, s) ==
  {d.by : d \in {x \in brDecisions : x.version = v /\ x.stage = s /\ x.kind = "APPROVE"}}
Enough(v, s) == Cardinality(ApproversIn(v, s)) >= BrQuorum[s]

\* What the decisions so far mean for a brief in this status, stage and version.
Earned(status, stage, v) ==
  /\ \A d \in brDecisions : d.version <= v
  /\ status = "DRAFT" => \A d \in brDecisions : d.version # v
  /\ status \in {"WAITING_REVIEW", "APPROVED", "SCHEDULED"} =>
       \A d \in brDecisions : d.version = v => d.kind = "APPROVE"
  /\ status = "WAITING_REVIEW" => stage \in BrStages /\ \A s \in BrStages : s < stage => Enough(v, s)
  /\ status \in {"APPROVED", "SCHEDULED"} => \A s \in BrStages : Enough(v, s)

ViewsFresh == \A p \in BrPeople : brView[p].fresh => brView[p].version = brBrief.version

BriefInv == BriefTypes /\ DecisionsSawVersion /\ ViewsFresh /\ Earned(brBrief.status, brBrief.stage, brBrief.version)

\* What a session holds of a brief that may be placed: its version, and all of it until it changes.
KeptFits(c) ==
  clTx[c].kept # NoBrief =>
    /\ clTx[c].kept.status \in PlaceableStatuses /\ clTx[c].kept.version = brBrief.version
    /\ brBrief.status \in {"APPROVED", "SCHEDULED", "ARCHIVED"}
    /\ c \in brSince => clTx[c].kept = brBrief

\* A request that places a brief has it locked, and writes only what it has read.
PlacesBrief(c) ==
  clTx[c].brief =>
    /\ clTx[c].kept # NoBrief /\ (clTx[c].kept.status = "APPROVED" => brBrief.status = "APPROVED")
    /\ \A d \in ClClients : clTx[d].brief => d = c
    /\ \E e \in ClEntries : clEntry[e].status = "INSERTING" /\ clEntry[e].by = c /\ clEntry[e].brief

\* What becomes of an entry when its request commits.
InsertFits(e) ==
  clEntry[e].status = "INSERTING" /\ clEntry[e].brief =>
    /\ clTx[clEntry[e].by].brief /\ clEntry[e].version = brBrief.version
    /\ ~clEntry[e].late => clTx[clEntry[e].by].kept.status = brBrief.status

StandsFor(e) ==
  clEntry[e].status = "PLANNED" /\ clEntry[e].brief =>
    /\ clEntry[e].version = brBrief.version
    /\ brBrief.status \in {"APPROVED", "SCHEDULED", "ARCHIVED"}
    /\ ~clEntry[e].late => brBrief.status # "APPROVED"

\* The calendar has the version the brief holds, and a request that places it has the brief locked.
BriefLinked ==
  /\ \A c \in ClClients : KeptFits(c) /\ PlacesBrief(c)
  /\ \A e \in ClEntries : InsertFits(e) /\ StandsFor(e)
  /\ brBrief.status = "SCHEDULED" =>
       \E e \in ClEntries : clEntry[e].brief /\ clEntry[e].status = "PLANNED"

\* A row that is not committed belongs to a request that places entries.
InsertersAtWork ==
  /\ \A c \in ClClients : clTx[c].kind \notin Placements => clTx[c].todo = <<>>
  /\ \A e \in ClEntries : clEntry[e].status = "INSERTING" =>
       clEntry[e].by \in ClClients /\ clTx[clEntry[e].by].kind \in Placements

Standing == {e \in ClEntries : clEntry[e].status = "PLANNED"}

\* What a request sees that was neither placed at the same time nor kept in spite of a warning.
KeptBy(c) == {e \in EntriesSeen(c) : ~clEntry[e].overlaps /\ ~clEntry[e].raced}

SpacedFor(c) ==
  /\ \A e \in KeptBy(c), f \in KeptBy(c) : e # f => Gap(clEntry[e].slot, clEntry[f].slot) >= ClSpacing
  /\ \A s \in ClSlots : Cardinality(OnDay(KeptBy(c), s)) <= ClMaxPerDay

Viewers == ClClients \cup {""}
WellSpaced == \A c \in Viewers : SpacedFor(c)

\* The hour a move has found is free, unless something was committed meanwhile.
MovesFit ==
  \A c \in ClClients : clTx[c].kind = "move" =>
    /\ clTx[c].entry \in Standing /\ clTx[c].slot \in ClSlots
    /\ ~clTx[c].overlaps /\ ~clTx[c].raced => ~CalendarConflict(clTx[c].slot, Standing \ {clTx[c].entry})
    /\ \A d \in ClClients : clTx[d].kind = "move" /\ clTx[d].entry = clTx[c].entry => d = c

SlotsKnown == \A e \in ClEntries : clEntry[e].status \in {"INSERTING", "PLANNED"} => clEntry[e].slot \in ClSlots

SpaceInv == SlotsKnown /\ WellSpaced /\ MovesFit

InsertedBy(c) == {e \in ClEntries : clEntry[e].status = "INSERTING" /\ clEntry[e].by = c}

PlanInv ==
  /\ \A p \in BrPeople : mpView[p].fresh => mpView[p].version = mpPlan.version /\ mpPlan.status # "NONE"
  /\ \A c \in ClClients : clTx[c].kind = "plan" =>
       /\ mpPlan.status = "PENDING_APPROVAL"
       /\ clTx[c].person \in BrPeople /\ mpView[clTx[c].person].version = mpPlan.version
       /\ Cardinality(InsertedBy(c)) + Len(clTx[c].todo) = Len(mpPlan.items)
       /\ \A d \in ClClients : clTx[d].kind = "plan" => d = c
  /\ \A e \in ClEntries :
       /\ clEntry[e].status = "INSERTING" => (clEntry[e].planned <=> clTx[clEntry[e].by].kind = "plan")
       /\ clEntry[e].status = "NONE" => ~clEntry[e].planned
  /\ PlanIsOnCalendar

PbInv ==
  /\ BriefInv /\ ClTypes /\ PlanTypes
  /\ InsertersAtWork /\ BriefLinked /\ SpaceInv /\ PlanInv

LEMMA Limits == ClMaxPerDay \in Nat /\ ClSpacing \in Nat
BY PbNumbers

LEMMA EntrySets ==
  ASSUME NEW S \in SUBSET ClEntries PROVE IsFiniteSet(S) /\ Cardinality(S) \in Nat
<1>1. IsFiniteSet(ClEntries)
  BY PbNumbers, FS_Interval DEF ClEntries
<1>2. IsFiniteSet(S)
  BY <1>1, FS_Subset
<1> QED BY <1>2, FS_CardinalityType

LEMMA ApproversFinite ==
  ASSUME BriefTypes, NEW v, NEW s PROVE IsFiniteSet(ApproversIn(v, s)) /\ Cardinality(ApproversIn(v, s)) \in Nat
<1> DEFINE D == {x \in brDecisions : x.version = v /\ x.stage = s /\ x.kind = "APPROVE"}
           f == [d \in D |-> d.by]
<1>1. IsFiniteSet(D)
  BY FS_Subset DEF BriefTypes
<1>2. ApproversIn(v, s) = {d.by : d \in D}
  BY DEF ApproversIn
<1>3. f \in Surjection(D, ApproversIn(v, s))
  BY <1>2 DEF Surjection
<1>4. IsFiniteSet(ApproversIn(v, s))
  BY <1>1, <1>3, FS_Surjection
<1> QED BY <1>4, FS_CardinalityType

\* The brief becomes another.
LEMMA BriefChanges ==
  ASSUME BriefInv, NEW brief \in BriefRow, BriefUpdated(brief),
         brDecisions' \in SUBSET DecisionRow, IsFiniteSet(brDecisions'), DecisionsSawVersion',
         Earned(brief.status, brief.stage, brief.version)'
  PROVE  BriefInv' /\ brBrief' = brief
<1>1. brBrief' = brief
  BY DEF BriefUpdated
<1>2. brView' \in [BrPeople -> ViewRow] /\ ViewsFresh'
  <2>1. CASE brief = brBrief
    BY <1>1, <2>1 DEF BriefUpdated, BriefInv, BriefTypes, ViewsFresh
  <2>2. CASE brief # brBrief
    <3>1. brView' = [p \in BrPeople |-> [brView[p] EXCEPT !.fresh = FALSE]]
      BY <2>2 DEF BriefUpdated, Stale
    <3> QED BY <3>1 DEF BriefInv, BriefTypes, ViewRow, ViewsFresh
  <2> QED BY <2>1, <2>2
<1>3. BriefTypes' /\ Earned(brBrief.status, brBrief.stage, brBrief.version)'
  BY <1>1, <1>2 DEF BriefTypes
<1> QED BY <1>1, <1>2, <1>3 DEF BriefInv

\* ... while nothing is decided.
LEMMA BriefMoves ==
  ASSUME BriefInv, NEW brief \in BriefRow, BriefUpdated(brief), UNCHANGED brDecisions,
         Earned(brief.status, brief.stage, brief.version)
  PROVE  BriefInv' /\ brBrief' = brief
<1>1. brDecisions' \in SUBSET DecisionRow /\ IsFiniteSet(brDecisions') /\ DecisionsSawVersion'
  BY DEF BriefInv, BriefTypes, DecisionsSawVersion
<1>2. Earned(brief.status, brief.stage, brief.version)'
  BY DEF Earned, Enough, ApproversIn
<1> QED BY <1>1, <1>2, BriefChanges

LEMMA StageOne == 1 \in BrStages /\ \A s \in BrStages : s \in Nat /\ BrQuorum[s] \in Nat /\ 1 <= s /\ s <= Len(BrQuorum)
<1>1. BrStages = 1..Len(BrQuorum) /\ Len(BrQuorum) \in Nat /\ Len(BrQuorum) # 0
  BY PbNumbers, EmptySeq DEF BrStages
<1> QED BY <1>1, PbNumbers DEF BrStages

LEMMA SinceUpdated ==
  ASSUME NEW brief, BriefUpdated(brief)
  PROVE  \A c \in brSince' : c \in brSince /\ brBrief' = brBrief
BY DEF BriefUpdated

\* The calendar agrees with a brief that changes while no request has it locked.
LEMMA LinkKept ==
  ASSUME BriefInv, BriefLinked, InsertersAtWork, UNCHANGED clVars, BriefFree, brBrief'.status # "SCHEDULED",
         \A c \in brSince' : c \in brSince /\ brBrief' = brBrief,
         brBrief.status \in {"APPROVED", "SCHEDULED", "ARCHIVED"} =>
           brBrief'.status = "ARCHIVED" /\ brBrief'.version = brBrief.version
  PROVE  BriefLinked'
<1>1. clEntry' = clEntry /\ clTx' = clTx /\ \A c \in ClClients : ~clTx[c].brief
  BY DEF clVars, BriefFree
<1>2. ASSUME NEW c \in ClClients PROVE KeptFits(c)' /\ PlacesBrief(c)'
  <2>1. KeptFits(c)
    BY DEF BriefLinked
  <2> QED BY <1>1, <2>1 DEF KeptFits, PlacesBrief
<1>3. ASSUME NEW e \in ClEntries PROVE InsertFits(e)' /\ StandsFor(e)'
  <2>1. InsertFits(e) /\ StandsFor(e)
    BY DEF BriefLinked
  <2>2. clEntry[e].status = "INSERTING" => clEntry[e].by \in ClClients
    BY DEF InsertersAtWork
  <2> QED BY <1>1, <2>1, <2>2 DEF InsertFits, StandsFor
<1> QED BY <1>2, <1>3 DEF BriefLinked

\* ... and with one that stays as it is.
LEMMA LinkRests ==
  ASSUME BriefLinked, clEntry' = clEntry, clTx' = clTx, brBrief' = brBrief, brSince' \in SUBSET brSince
  PROVE  BriefLinked'
<1>1. ASSUME NEW c \in ClClients PROVE KeptFits(c)' /\ PlacesBrief(c)'
  BY DEF BriefLinked, KeptFits, PlacesBrief
<1>2. ASSUME NEW e \in ClEntries PROVE InsertFits(e)' /\ StandsFor(e)'
  BY DEF BriefLinked, InsertFits, StandsFor
<1> QED BY <1>1, <1>2 DEF BriefLinked

\* What changes the brief alone.
LEMMA BriefRests ==
  ASSUME PbInv, BriefInv', BriefLinked', UNCHANGED <<clVars, mpVars>>
  PROVE  PbInv'
<1>1. clEntry' = clEntry /\ clTx' = clTx /\ mpPlan' = mpPlan /\ mpView' = mpView
  BY DEF clVars, mpVars
<1>2. ClTypes' /\ PlanTypes' /\ InsertersAtWork'
  BY <1>1 DEF PbInv, ClTypes, PlanTypes, InsertersAtWork
<1>3. SpaceInv'
  BY <1>1 DEF PbInv, SpaceInv, SlotsKnown, WellSpaced, SpacedFor, KeptBy, EntriesSeen, OnDay, MovesFit,
              Standing, CalendarConflict
<1>4. PlanInv'
  BY <1>1 DEF PbInv, PlanInv, InsertedBy, PlanIsOnCalendar
<1> QED BY <1>2, <1>3, <1>4 DEF PbInv

LEMMA BriefWritten ==
  ASSUME PbInv, NEW p \in BrPeople, CreateBriefVersion(p) \/ SubmitBrief(p) \/ ArchiveBrief(p)
  PROVE  PbInv'
<1> DEFINE S == brBrief.status  V == brBrief.version
<1>1. /\ BriefInv /\ BriefLinked /\ InsertersAtWork /\ BriefFree /\ brBrief \in BriefRow
      /\ UNCHANGED <<clVars, mpVars>> /\ UNCHANGED brDecisions
      /\ Earned(S, brBrief.stage, V) /\ V \in Nat /\ \A d \in brDecisions : d.version \in Nat
  BY DEF PbInv, BriefInv, BriefTypes, BriefRow, DecisionRow, CreateBriefVersion, SubmitBrief, ArchiveBrief
<1>2. UNCHANGED clVars
  BY <1>1
<1>3. CASE CreateBriefVersion(p)
  <2> DEFINE b == [status |-> "DRAFT", stage |-> 1, version |-> V + 1]
  <2>1. BriefUpdated(b) /\ S \in {"DRAFT", "REVISION_REQUESTED", "REJECTED"}
    BY <1>3 DEF CreateBriefVersion, RewritableStatuses
  <2>2. b \in BriefRow /\ b.status = "DRAFT" /\ b.stage = 1 /\ b.version = V + 1
    BY <1>1 DEF BriefRow, BriefStatuses
  <2> HIDE DEF b
  <2>3. Earned(b.status, b.stage, b.version)
    BY <1>1, <2>2 DEF Earned
  <2>4. BriefInv' /\ brBrief' = b
    BY <1>1, <2>1, <2>2, <2>3, BriefMoves
  <2>5. BriefLinked'
    BY <1>1, <1>2, <2>1, <2>2, <2>4, SinceUpdated, LinkKept
  <2> QED BY <1>1, <2>4, <2>5, BriefRests
<1>4. CASE SubmitBrief(p)
  <2> DEFINE b == [brBrief EXCEPT !.status = "WAITING_REVIEW", !.stage = 1]
  <2>1. BriefUpdated(b) /\ S = "DRAFT"
    BY <1>4 DEF SubmitBrief
  <2>2. b \in BriefRow /\ b.status = "WAITING_REVIEW" /\ b.stage = 1 /\ b.version = V
    BY <1>1 DEF BriefRow, BriefStatuses
  <2> HIDE DEF b
  <2>3. Earned(b.status, b.stage, b.version)
    <3>1. \A s \in BrStages : ~(s < 1)
      BY StageOne
    <3> QED BY <1>1, <2>1, <2>2, <3>1, StageOne DEF Earned
  <2>4. BriefInv' /\ brBrief' = b
    BY <1>1, <2>1, <2>2, <2>3, BriefMoves
  <2>5. BriefLinked'
    BY <1>1, <1>2, <2>1, <2>2, <2>4, SinceUpdated, LinkKept
  <2> QED BY <1>1, <2>4, <2>5, BriefRests
<1>5. CASE ArchiveBrief(p)
  <2> DEFINE b == [brBrief EXCEPT !.status = "ARCHIVED"]
  <2>1. BriefUpdated(b)
    BY <1>5 DEF ArchiveBrief
  <2>2. b \in BriefRow /\ b.status = "ARCHIVED" /\ b.version = V
    BY <1>1 DEF BriefRow, BriefStatuses
  <2> HIDE DEF b
  <2>3. Earned(b.status, b.stage, b.version)
    BY <1>1, <2>2 DEF Earned
  <2>4. BriefInv' /\ brBrief' = b
    BY <1>1, <2>1, <2>2, <2>3, BriefMoves
  <2>5. BriefLinked'
    BY <1>1, <1>2, <2>1, <2>2, <2>4, SinceUpdated, LinkKept
  <2> QED BY <1>1, <2>4, <2>5, BriefRests
<1> QED BY <1>3, <1>4, <1>5

\* Views come and go, the brief stays.
LEMMA BriefViewed ==
  ASSUME PbInv, NEW p \in BrPeople, GetBrief(p) \/ ReplaceAssignments(p)
  PROVE  PbInv'
<1>1. /\ brBrief' = brBrief /\ brDecisions' = brDecisions /\ UNCHANGED <<clVars, mpVars>>
      /\ BriefInv /\ BriefTypes /\ brBrief.version \in Nat
  BY DEF GetBrief, ReplaceAssignments, PbInv, BriefInv, BriefTypes, BriefRow
<1>2. brView' \in [BrPeople -> ViewRow] /\ ViewsFresh'
  <2>1. CASE GetBrief(p)
    <3>1. brView' = [brView EXCEPT ![p] = [version |-> brBrief.version, fresh |-> TRUE]]
      BY <2>1 DEF GetBrief
    <3> QED BY <1>1, <3>1 DEF BriefInv, BriefTypes, ViewRow, ViewsFresh
  <2>2. CASE ReplaceAssignments(p)
    <3>1. brView' = [q \in BrPeople |-> [brView[q] EXCEPT !.fresh = FALSE]]
      BY <2>2 DEF ReplaceAssignments, Stale
    <3> QED BY <1>1, <3>1 DEF BriefTypes, ViewRow, ViewsFresh
  <2> QED BY <2>1, <2>2
<1>3. BriefInv'
  BY <1>1, <1>2 DEF BriefInv, BriefTypes, DecisionsSawVersion, Earned, Enough, ApproversIn
<1>4. BriefLinked'
  <2>1. brSince' \in SUBSET brSince
    BY DEF GetBrief, ReplaceAssignments
  <2>2. BriefLinked /\ clEntry' = clEntry /\ clTx' = clTx
    BY <1>1 DEF clVars, PbInv
  <2> QED BY <1>1, <2>1, <2>2, LinkRests
<1> QED BY <1>1, <1>3, <1>4, BriefRests

\* One more approval.
LEMMA ApprovalAdded ==
  ASSUME BriefTypes, NEW v \in Nat, NEW g \in BrStages, Earned("WAITING_REVIEW", g, v),
         NEW d \in DecisionRow, d.version = v, d.stage = g, d.kind = "APPROVE",
         d.by \notin ApproversIn(v, g), brDecisions' = brDecisions \cup {d}
  PROVE  /\ Earned("WAITING_REVIEW", g, v)'
         /\ Cardinality(ApproversIn(v, g)) + 1 >= BrQuorum[g] => Enough(v, g)'
<1>1. ApproversIn(v, g)' = ApproversIn(v, g) \cup {d.by}
  BY DEF ApproversIn
<1>2. \A s \in BrStages : s # g => ApproversIn(v, s)' = ApproversIn(v, s)
  BY DEF ApproversIn
<1>3. Cardinality(ApproversIn(v, g)') = Cardinality(ApproversIn(v, g)) + 1
  BY <1>1, ApproversFinite, FS_AddElement
<1>4. \A s \in BrStages : s < g => Enough(v, s)'
  <2>1. \A s \in BrStages : s < g => s # g /\ Enough(v, s)
    BY StageOne DEF Earned
  <2> QED BY <1>2, <2>1 DEF Enough
<1>5. \A x \in brDecisions' : x.version <= v /\ (x.version = v => x.kind = "APPROVE")
  BY DEF Earned
<1>6. Earned("WAITING_REVIEW", g, v)'
  BY <1>4, <1>5 DEF Earned
<1> QED BY <1>3, <1>6 DEF Enough

LEMMA BriefDecides ==
  ASSUME PbInv, NEW p \in BrPeople, NEW kind \in {"APPROVE", "REJECT", "REQUEST_CHANGES"},
         DecideBrief(p, kind)
  PROVE  PbInv'
<1>v. PICK v : v = brBrief.version
  OBVIOUS
<1>g. PICK g : g = brBrief.stage
  OBVIOUS
<1>d. PICK d : d = [version |-> v, stage |-> g, by |-> p, kind |-> kind, saw |-> brView[p].version]
  OBVIOUS
<1>b. PICK b : b = BriefDecided(g, kind)
  OBVIOUS
<1>1. /\ BriefInv /\ BriefTypes /\ BriefLinked /\ InsertersAtWork /\ BriefFree /\ brBrief \in BriefRow
      /\ UNCHANGED <<clVars, mpVars>> /\ UNCHANGED clVars /\ brBrief.status = "WAITING_REVIEW"
      /\ Earned("WAITING_REVIEW", g, v) /\ v \in Nat /\ g \in BrStages
  BY <1>v, <1>g DEF PbInv, BriefInv, BriefTypes, BriefRow, DecideBrief, Earned
<1>2. brView[p].version = v
  BY <1>v DEF DecideBrief, AssertBriefLock, PbInv, BriefInv, ViewsFresh
<1>3. d \in DecisionRow /\ d.version = v /\ d.stage = g /\ d.by = p /\ d.kind = kind /\ d.saw = v
  BY <1>d, <1>1, <1>2, StageOne DEF DecisionRow
<1>4. brDecisions' = brDecisions \cup {d} /\ BriefUpdated(b)
  BY <1>v, <1>g, <1>d, <1>b DEF DecideBrief
<1>5. brDecisions' \in SUBSET DecisionRow /\ IsFiniteSet(brDecisions') /\ DecisionsSawVersion'
  BY <1>1, <1>3, <1>4, FS_AddElement DEF BriefInv, BriefTypes, DecisionsSawVersion
<1>6. b \in BriefRow /\ b.version = v /\ b.status # "SCHEDULED" /\ Earned(b.status, b.stage, b.version)'
  <2>1. CASE kind = "APPROVE"
    <3>1. d.by \notin ApproversIn(v, g)
      BY <1>v, <1>g, <1>3, <2>1 DEF DecideBrief, ApprovalsOf, ApproversIn
    <3>2. /\ Earned("WAITING_REVIEW", g, v)'
          /\ Cardinality(ApproversIn(v, g)) + 1 >= BrQuorum[g] => Enough(v, g)'
      BY <1>1, <1>3, <1>4, <2>1, <3>1, ApprovalAdded
    <3>3. PriorApprovals(g) = Cardinality(ApproversIn(v, g))
      BY <1>v DEF PriorApprovals, ApprovalsOf, ApproversIn
    <3>4. b = BriefApproved(g)
      BY <1>b, <2>1 DEF BriefDecided
    <3>n. g \in Nat /\ Len(BrQuorum) \in Nat /\ g <= Len(BrQuorum) /\ \A s \in BrStages : s \in Nat
      BY <1>1, StageOne, PbNumbers
    <3>5. CASE PriorApprovals(g) + 1 >= BrQuorum[g] /\ g = Len(BrQuorum)
      <4>1. b \in BriefRow /\ b.version = v /\ b.status = "APPROVED"
        BY <1>v, <1>1, <3>4, <3>5 DEF BriefApproved, BriefRow, BriefStatuses
      <4>2. Enough(v, g)'
        BY <3>2, <3>3, <3>5
      <4>3. \A s \in BrStages : Enough(v, s)'
        <5>1. \A s \in BrStages : s < g \/ s = g
          BY <3>5, <3>n, StageOne
        <5> QED BY <3>2, <4>2, <5>1 DEF Earned
      <4> QED BY <3>2, <4>1, <4>3 DEF Earned
    <3>6. CASE PriorApprovals(g) + 1 >= BrQuorum[g] /\ g # Len(BrQuorum)
      <4>1. b \in BriefRow /\ b.version = v /\ b.status = "WAITING_REVIEW" /\ b.stage = g + 1
        <5>1. b = [brBrief EXCEPT !.status = "WAITING_REVIEW", !.stage = g + 1]
          BY <1>g, <1>1, <3>4, <3>6 DEF BriefApproved, BriefRow
        <5>2. g + 1 \in Nat
          BY <3>n
        <5> QED BY <1>v, <1>1, <5>1, <5>2 DEF BriefRow
      <4>2. Enough(v, g)'
        BY <3>2, <3>3, <3>6
      <4>3. \A s \in BrStages : s < g + 1 => Enough(v, s)'
        <5>1. \A s \in BrStages : s < g + 1 => s < g \/ s = g
          BY <3>n
        <5> QED BY <3>2, <4>2, <5>1 DEF Earned
      <4>4. g + 1 \in BrStages
        BY <1>1, <3>6, <3>n, PbNumbers DEF BrStages
      <4> QED BY <3>2, <4>1, <4>3, <4>4 DEF Earned
    <3>7. CASE ~(PriorApprovals(g) + 1 >= BrQuorum[g])
      <4>1. b = brBrief
        BY <1>g, <1>1, <3>4, <3>7 DEF BriefApproved, BriefRow
      <4> QED BY <1>v, <1>g, <1>1, <3>2, <4>1
    <3> QED BY <3>5, <3>6, <3>7
  <2>2. CASE kind # "APPROVE"
    <3>1. b \in BriefRow /\ b.version = v /\ b.status \in {"REJECTED", "REVISION_REQUESTED"}
      BY <1>v, <1>b, <1>1, <2>2 DEF BriefDecided, BriefRow, BriefStatuses
    <3>2. \A x \in brDecisions' : x.version <= v
      BY <1>1, <1>3, <1>4 DEF Earned
    <3> QED BY <3>1, <3>2 DEF Earned
  <2> QED BY <2>1, <2>2
<1>7. BriefInv' /\ brBrief' = b
  BY <1>1, <1>4, <1>5, <1>6, BriefChanges
<1>8. BriefLinked'
  BY <1>1, <1>4, <1>6, <1>7, SinceUpdated, LinkKept
<1> QED BY <1>1, <1>7, <1>8, BriefRests

\* The hour that is found is one of the calendar's, and free unless the warning was ignored.
LEMMA SlotFound ==
  ASSUME NEW s \in ClSlots, NEW entries, NEW resolution, ResolveSlot(s, entries, resolution) # NoSlot
  PROVE  LET t == ResolveSlot(s, entries, resolution) IN
         t \in ClSlots /\ (~Overlaps(s, entries, resolution) => ~CalendarConflict(t, entries))
<1> DEFINE t == ResolveSlot(s, entries, resolution)
           free == {x \in (s + 1)..ClMaxSlot : ~CalendarConflict(x, entries)}
<1>1. CASE ~CalendarConflict(s, entries) \/ resolution = "WARN"
  BY <1>1 DEF ResolveSlot, Overlaps
<1>2. CASE CalendarConflict(s, entries) /\ resolution # "WARN"
  <2>1. t = AutoSpread(s, entries)
    BY <1>2 DEF ResolveSlot
  <2>2. free # {} /\ t = CHOOSE x \in free : \A u \in free : x <= u
    BY <2>1 DEF AutoSpread
  <2>3. free \subseteq ClSlots /\ free \subseteq Nat
    BY PbNumbers DEF ClSlots
  <2>4. \E x \in free : \A u \in free : x <= u
    <3> HIDE DEF free
    <3>1. PICK x \in free : \A u \in free : ~(u < x)
      BY <2>2, <2>3, LeastNatural
    <3>2. \A u \in free : x <= u
      BY <2>3, <3>1
    <3> QED BY <3>2
  <2>5. t \in free
    <3> HIDE DEF free
    <3> QED BY <2>2, <2>4
  <2> QED BY <2>3, <2>5
<1> QED BY <1>1, <1>2

\* What is free among many is free among fewer that stand where they stood.
LEMMA FreeAmongFewer ==
  ASSUME NEW S \in SUBSET ClEntries, NEW T \in SUBSET S, NEW t, ~CalendarConflict(t, S),
         \A f \in T : clEntry'[f].slot = clEntry[f].slot
  PROVE  ~CalendarConflict(t, T)'
<1>1. \A f \in T : ~(Gap(t, clEntry'[f].slot) < ClSpacing)
  BY DEF CalendarConflict
<1>2. OnDay(T, t)' \subseteq OnDay(S, t) /\ OnDay(S, t) \in SUBSET ClEntries
  BY DEF OnDay
<1>3. /\ Cardinality(OnDay(T, t)') \in Nat /\ Cardinality(OnDay(S, t)) \in Nat
      /\ Cardinality(OnDay(T, t)') <= Cardinality(OnDay(S, t))
  BY <1>2, EntrySets, FS_Subset
<1>4. ~(Cardinality(OnDay(S, t)) >= ClMaxPerDay)
  BY DEF CalendarConflict
<1>5. ~(Cardinality(OnDay(T, t)') >= ClMaxPerDay)
  BY <1>3, <1>4, PbNumbers
<1> QED BY <1>1, <1>5 DEF CalendarConflict

LEMMA GapProps ==
  \A s, t \in Nat : Gap(s, t) = Gap(t, s) /\ Gap(s, t) \in Nat
BY DEF Gap

\* A request goes on seeing what was well spaced, and at most one entry more that was
\* put where it is free among them.
LEMMA StillSpaced ==
  ASSUME ClTypes, ClTypes', NEW u, SpacedFor(u), NEW v, NEW e, NEW S \in SUBSET ClEntries,
         \A f \in KeptBy(v)' : f # e => f \in KeptBy(u) /\ f \in S /\ clEntry'[f].slot = clEntry[f].slot,
         e \in KeptBy(v)' => ~CalendarConflict(clEntry'[e].slot, S)
  PROVE  SpacedFor(v)'
<1> DEFINE K == KeptBy(v)'
<1>0. K \in SUBSET ClEntries /\ KeptBy(u) \in SUBSET ClEntries
  BY DEF KeptBy, EntriesSeen
<1>t. \A f \in ClEntries : clEntry[f].slot \in Nat /\ clEntry'[f].slot \in Nat
  BY DEF ClTypes, EntryRow
<1> HIDE DEF K
<1>1. ASSUME NEW f \in K, NEW g \in K, f # g
      PROVE  Gap(clEntry'[f].slot, clEntry'[g].slot) >= ClSpacing
  <2>1. CASE f # e /\ g # e
    BY <1>1, <2>1 DEF K, SpacedFor
  <2>2. CASE f = e
    <3>1. g # e /\ g \in S /\ clEntry'[g].slot = clEntry[g].slot
      BY <1>1, <2>2 DEF K
    <3>2. ~(Gap(clEntry'[e].slot, clEntry[g].slot) < ClSpacing)
      BY <2>2, <3>1 DEF CalendarConflict, K
    <3>3. Gap(clEntry'[e].slot, clEntry[g].slot) \in Nat
      BY <1>0, <1>t, <2>2, GapProps
    <3> QED BY <2>2, <3>1, <3>2, <3>3, PbNumbers
  <2>3. CASE g = e
    <3>1. f # e /\ f \in S /\ clEntry'[f].slot = clEntry[f].slot
      BY <1>1, <2>3 DEF K
    <3>2. ~(Gap(clEntry'[e].slot, clEntry[f].slot) < ClSpacing)
      BY <2>3, <3>1 DEF CalendarConflict, K
    <3>3. Gap(clEntry'[e].slot, clEntry[f].slot) \in Nat
          /\ Gap(clEntry'[e].slot, clEntry[f].slot) = Gap(clEntry[f].slot, clEntry'[e].slot)
      BY <1>0, <1>t, <2>3, GapProps
    <3> QED BY <2>3, <3>1, <3>2, <3>3, PbNumbers
  <2> QED BY <2>1, <2>2, <2>3
<1>2. ASSUME NEW s \in ClSlots
      PROVE  Cardinality({f \in K : DayOf(clEntry'[f].slot) = DayOf(s)}) <= ClMaxPerDay
  <2> DEFINE D == {f \in K : DayOf(clEntry'[f].slot) = DayOf(s)}
  <2>1. D \in SUBSET ClEntries
    BY <1>0
  <2>2. CASE e \notin D
    <3>1. D \subseteq OnDay(KeptBy(u), s) /\ OnDay(KeptBy(u), s) \in SUBSET ClEntries
      BY <1>0, <2>2 DEF OnDay, K
    <3>2. Cardinality(OnDay(KeptBy(u), s)) <= ClMaxPerDay
      BY DEF SpacedFor
    <3> HIDE DEF D
    <3>3. /\ Cardinality(D) <= Cardinality(OnDay(KeptBy(u), s)) /\ Cardinality(D) \in Nat
          /\ Cardinality(OnDay(KeptBy(u), s)) \in Nat
      BY <2>1, <3>1, EntrySets, FS_Subset
    <3> QED BY <3>2, <3>3, PbNumbers DEF D
  <2>3. CASE e \in D
    <3> DEFINE O == OnDay(S, clEntry'[e].slot)
    <3>1. D \ {e} \subseteq O /\ O \in SUBSET ClEntries
      BY <2>3 DEF OnDay, K
    <3>2. ~(Cardinality(O) >= ClMaxPerDay)
      BY <2>3 DEF CalendarConflict, K
    <3> HIDE DEF D, O
    <3>3. /\ Cardinality(D \ {e}) <= Cardinality(O) /\ Cardinality(D) \in Nat
          /\ Cardinality(O) \in Nat /\ Cardinality(D \ {e}) \in Nat
      BY <2>1, <3>1, EntrySets, FS_Subset
    <3>4. Cardinality(D \ {e}) = Cardinality(D) - 1
      BY <2>1, <2>3, EntrySets, FS_RemoveElement
    <3> QED BY <3>2, <3>3, <3>4, PbNumbers DEF D
  <2> QED BY <2>2, <2>3
<1> QED BY <1>1, <1>2 DEF SpacedFor, OnDay, K

LEMMA FewerSpaced ==
  ASSUME ClTypes, ClTypes', NEW u, SpacedFor(u), NEW v,
         \A f \in KeptBy(v)' : f \in KeptBy(u) /\ clEntry'[f].slot = clEntry[f].slot
  PROVE  SpacedFor(v)'
<1>1. KeptBy(v)' \subseteq ClEntries /\ 0 \notin ClEntries
  BY DEF KeptBy, EntriesSeen, ClEntries
<1>2. 0 \notin KeptBy(v)' /\ ClEntries \in SUBSET ClEntries
  BY <1>1
<1>3. \A f \in KeptBy(v)' : f \in ClEntries
  BY <1>1
<1> QED BY <1>2, <1>3, StillSpaced

LEMMA NoTxFields ==
  /\ NoTx \in CalendarTx /\ NoTx.kind = "none" /\ NoTx.kind \notin Placements /\ NoTx.todo = <<>>
  /\ NoTx.brief = FALSE /\ NoTx.raced = FALSE /\ NoTx.kept = NoBrief
<1>1. <<>> \in Seq(ClItems)
  OBVIOUS
<1> QED BY <1>1 DEF NoTx, CalendarTx, KeptBrief, Placements, Resolutions, NoSlot

\* Spacing is about the entries alone.
LEMMA SpacingRests ==
  ASSUME WellSpaced, SlotsKnown, UNCHANGED clEntry PROVE WellSpaced' /\ SlotsKnown'
BY DEF WellSpaced, SlotsKnown, SpacedFor, KeptBy, EntriesSeen, OnDay

LEMMA MoversStand ==
  ASSUME MovesFit PROVE \A d \in ClClients : clTx[d].kind = "move" => clTx[d].entry \in Standing
BY DEF MovesFit

\* A move still fits where no entry came or moved, or knows that one did.
LEMMA MovesKept ==
  ASSUME MovesFit,
         \A d \in ClClients : clTx'[d].kind = "move" =>
           /\ clTx[d].kind = "move" /\ clTx'[d].entry = clTx[d].entry /\ clTx'[d].slot = clTx[d].slot
           /\ clTx'[d].entry \in Standing'
           /\ \/ clTx'[d].raced
              \/ /\ clTx'[d].overlaps = clTx[d].overlaps /\ clTx'[d].raced = clTx[d].raced
                 /\ \A f \in Standing' : f \in Standing /\ clEntry'[f].slot = clEntry[f].slot
  PROVE  MovesFit'
<1>1. ASSUME NEW d \in ClClients, clTx'[d].kind = "move", ~clTx'[d].overlaps, ~clTx'[d].raced,
             NEW t, t = clTx'[d].slot, NEW T, T = Standing' \ {clTx'[d].entry}
      PROVE  ~CalendarConflict(t, T)'
  <2> DEFINE S == Standing \ {clTx[d].entry}
  <2>1. /\ clTx[d].kind = "move" /\ clTx'[d].entry = clTx[d].entry /\ t = clTx[d].slot
        /\ ~clTx[d].overlaps /\ ~clTx[d].raced
        /\ \A f \in T : f \in Standing /\ clEntry'[f].slot = clEntry[f].slot
    BY <1>1
  <2>2. ~CalendarConflict(t, S)
    BY <2>1 DEF MovesFit
  <2>3. S \in SUBSET ClEntries /\ T \in SUBSET S
    BY <1>1, <2>1 DEF Standing
  <2> HIDE DEF S
  <2> QED BY <2>1, <2>2, <2>3, FreeAmongFewer
<1>2. ASSUME NEW d \in ClClients, clTx'[d].kind = "move", ~clTx'[d].overlaps, ~clTx'[d].raced
      PROVE  ~CalendarConflict(clTx[d].slot, Standing \ {clTx[d].entry})'
  <2>t. PICK t : t = clTx'[d].slot
    OBVIOUS
  <2>T. PICK T : T = Standing' \ {clTx'[d].entry}
    OBVIOUS
  <2>1. ~CalendarConflict(t, T)'
    BY <1>1, <1>2, <2>t, <2>T
  <2> QED BY <2>t, <2>T, <2>1
<1>3. ASSUME NEW d \in ClClients, clTx'[d].kind = "move"
      PROVE  /\ clTx'[d].entry \in Standing' /\ clTx'[d].slot \in ClSlots
             /\ \A x \in ClClients : clTx'[x].kind = "move" /\ clTx'[x].entry = clTx'[d].entry => x = d
  <2>1. clTx[d].kind = "move" /\ clTx'[d].entry = clTx[d].entry /\ clTx'[d].slot = clTx[d].slot
    BY <1>3
  <2>2. /\ clTx[d].slot \in ClSlots
        /\ \A x \in ClClients : clTx[x].kind = "move" /\ clTx[x].entry = clTx[d].entry => x = d
    BY <2>1 DEF MovesFit
  <2>3. \A x \in ClClients : clTx'[x].kind = "move" => clTx[x].kind = "move" /\ clTx'[x].entry = clTx[x].entry
    OBVIOUS
  <2> QED BY <1>3, <2>1, <2>2, <2>3
<1> QED BY <1>2, <1>3 DEF MovesFit

\* A request that has no brief yet begins; moves and plans are shown apart.
LEMMA TxBegins ==
  ASSUME PbInv, NEW c \in ClClients, clTx[c] = NoTx, NEW tx \in CalendarTx, tx.brief = FALSE,
         tx.kind \notin Placements => tx.todo = <<>>,
         tx.kept # NoBrief => tx.kept = brBrief /\ brBrief.status \in PlaceableStatuses,
         clTx' = [clTx EXCEPT ![c] = tx], UNCHANGED <<brBrief, brDecisions, brView, clEntry, mpVars>>,
         brSince' \in SUBSET (brSince \cup {c}),
         tx.kind # "plan" \/ (PlanInv' /\ tx.kind # "move"), tx.kind # "move" \/ MovesFit'
  PROVE  PbInv'
<1>1. clEntry' = clEntry /\ brBrief' = brBrief /\ brView' = brView /\ brDecisions' = brDecisions
      /\ mpPlan' = mpPlan /\ mpView' = mpView
  BY DEF mpVars
<1>2. clTx'[c] = tx /\ \A d \in ClClients : d # c => clTx'[d] = clTx[d]
  BY DEF PbInv, ClTypes
<1>3. clTx[c].kind = "none" /\ clTx[c].brief = FALSE
  BY NoTxFields
<1>4. \A e \in ClEntries : clEntry[e].status = "INSERTING" => clEntry[e].by \in ClClients /\ clEntry[e].by # c
  BY <1>3 DEF PbInv, InsertersAtWork, Placements
<1>5. BriefInv' /\ ClTypes' /\ PlanTypes'
  <2>1. BriefInv' /\ PlanTypes'
    BY <1>1 DEF PbInv, BriefInv, BriefTypes, DecisionsSawVersion, ViewsFresh, Earned, Enough, ApproversIn, PlanTypes
  <2>2. ClTypes'
    BY <1>1 DEF PbInv, ClTypes
  <2> QED BY <2>1, <2>2
<1>6. InsertersAtWork'
  BY <1>1, <1>2, <1>4 DEF PbInv, InsertersAtWork
<1>7. BriefLinked'
  <2>1. BriefLinked /\ \A d \in ClClients : clTx'[d].brief <=> clTx[d].brief
    BY <1>2, <1>3 DEF PbInv
  <2>2. ASSUME NEW d \in ClClients PROVE KeptFits(d)' /\ PlacesBrief(d)'
    <3>1. CASE d = c
      <4>1. ~clTx'[c].brief
        BY <1>2
      <4> QED BY <1>1, <1>2, <3>1, <4>1 DEF KeptFits, PlacesBrief, PlaceableStatuses
    <3>2. CASE d # c
      <4>1. clTx'[d] = clTx[d] /\ (d \in brSince' => d \in brSince)
        BY <1>2, <3>2
      <4>2. KeptFits(d) /\ PlacesBrief(d)
        BY <2>1 DEF BriefLinked
      <4> QED BY <1>1, <2>1, <4>1, <4>2 DEF KeptFits, PlacesBrief
    <3> QED BY <3>1, <3>2
  <2>3. ASSUME NEW e \in ClEntries PROVE InsertFits(e)' /\ StandsFor(e)'
    <3>1. InsertFits(e) /\ StandsFor(e)
      BY <2>1 DEF BriefLinked
    <3>2. clEntry[e].status = "INSERTING" => clTx'[clEntry[e].by] = clTx[clEntry[e].by]
      BY <1>2, <1>4
    <3> QED BY <1>1, <3>1, <3>2 DEF InsertFits, StandsFor
  <2> QED BY <1>1, <2>1, <2>2, <2>3 DEF BriefLinked
<1>8. SpaceInv'
  <2>1. SlotsKnown' /\ WellSpaced'
    BY <1>1, SpacingRests DEF PbInv, SpaceInv
  <2>2. CASE tx.kind # "move"
    <3>0. \A d \in ClClients : clTx'[d].kind = "move" => clTx'[d] = clTx[d] /\ clTx[d].kind = "move"
      BY <1>2, <2>2
    <3>s. Standing' = Standing
      BY <1>1 DEF Standing
    <3>m. MovesFit
      BY DEF PbInv, SpaceInv
    <3>2. \A d \in ClClients : clTx'[d].kind = "move" => clTx'[d].entry \in Standing'
      <4>1. \A d \in ClClients : clTx[d].kind = "move" => clTx[d].entry \in Standing
        BY <3>m, MoversStand
      <4> QED BY <3>0, <3>s, <4>1
    <3>1. MovesFit'
      BY <1>1, <3>0, <3>s, <3>m, <3>2, MovesKept
    <3> QED BY <2>1, <3>1 DEF SpaceInv
  <2> QED BY <2>1, <2>2 DEF SpaceInv
<1>9. PlanInv'
  <2>1. CASE tx.kind # "plan"
    <3>1. \A d \in ClClients : clTx'[d].kind = "plan" => d # c /\ clTx'[d] = clTx[d]
      BY <1>2, <2>1
    <3>2. PlanIsOnCalendar'
      BY <1>1 DEF PbInv, PlanInv, PlanIsOnCalendar
    <3>3. \A d \in ClClients : InsertedBy(d)' = InsertedBy(d)
      BY <1>1 DEF InsertedBy
    <3>4. \A e \in ClEntries : clEntry[e].status = "INSERTING" => clTx'[clEntry[e].by] = clTx[clEntry[e].by]
      BY <1>2, <1>4
    <3> QED BY <1>1, <3>1, <3>2, <3>3, <3>4 DEF PbInv, PlanInv
  <2> QED BY <2>1
<1> QED BY <1>5, <1>6, <1>7, <1>8, <1>9 DEF PbInv

LEMMA PlacementBegins ==
  ASSUME PbInv, NEW c \in ClClients, NEW item \in ClItems, NEW resolution \in Resolutions,
         PlacementStart(c, item, resolution)
  PROVE  PbInv'
<1> DEFINE tx == [NoTx EXCEPT !.kind = "create", !.todo = <<item>>, !.resolution = resolution]
<1>1. /\ clTx[c] = NoTx /\ clTx' = [clTx EXCEPT ![c] = tx]
      /\ UNCHANGED <<brBrief, brDecisions, brView, clEntry, mpVars>> /\ brSince' = brSince
  BY DEF PlacementStart, brVars
<1>2. tx \in CalendarTx /\ tx.brief = FALSE /\ tx.kind = "create" /\ tx.kept = NoBrief
  <2>1. <<item>> \in Seq(ClItems) /\ NoTx \in CalendarTx
    BY NoTxFields
  <2> QED BY <2>1, NoTxFields DEF CalendarTx, Placements
<1> HIDE DEF tx
<1>3. tx.kind \in Placements /\ tx.kind # "move" /\ tx.kind # "plan"
  BY <1>2 DEF Placements
<1> QED BY <1>1, <1>2, <1>3, TxBegins

LEMMA RecurrenceBegins ==
  ASSUME PbInv, NEW c \in ClClients, NEW items \in Seq(ClItems), NEW resolution \in Resolutions,
         RecurrenceStart(c, items, resolution)
  PROVE  PbInv'
<1>b. PICK b \in BOOLEAN : b = \E i \in DOMAIN items : items[i].brief
  OBVIOUS
<1>k. PICK k : k = IF b THEN brBrief ELSE NoBrief
  OBVIOUS
<1> DEFINE tx == [NoTx EXCEPT !.kind = "recurrence", !.todo = items, !.resolution = resolution, !.kept = k]
<1>1. /\ clTx[c] = NoTx /\ clTx' = [clTx EXCEPT ![c] = tx]
      /\ UNCHANGED <<brBrief, brDecisions, brView, clEntry, mpVars>>
      /\ brSince' \in SUBSET (brSince \cup {c}) /\ (b => brBrief.status \in PlaceableStatuses)
  BY <1>b, <1>k DEF RecurrenceStart
<1>2. k \in KeptBrief /\ (k # NoBrief => k = brBrief /\ brBrief.status \in PlaceableStatuses)
  BY <1>k, <1>1 DEF KeptBrief, PbInv, BriefInv, BriefTypes
<1>3. tx \in CalendarTx /\ tx.brief = FALSE /\ tx.kind = "recurrence" /\ tx.kept = k
  <2>1. NoTx \in CalendarTx
    BY NoTxFields
  <2> QED BY <1>2, <2>1, NoTxFields DEF CalendarTx, Placements
<1> HIDE DEF tx
<1>4. tx.kind \in Placements /\ tx.kind # "move" /\ tx.kind # "plan"
  BY <1>3 DEF Placements
<1> QED BY <1>1, <1>2, <1>3, <1>4, TxBegins

LEMMA MoveBegins ==
  ASSUME PbInv, NEW c \in ClClients, NEW e \in ClEntries, NEW s \in ClSlots,
         NEW resolution \in Resolutions, MoveStart(c, e, s, resolution)
  PROVE  PbInv'
<1> DEFINE others == EntriesSeen(c) \ {e}
           slot == ResolveSlot(s, others, resolution)
           over == Overlaps(s, others, resolution)
           tx == [NoTx EXCEPT !.kind = "move", !.entry = e, !.slot = slot, !.overlaps = over]
<1>1. /\ clTx[c] = NoTx /\ clTx' = [clTx EXCEPT ![c] = tx]
      /\ UNCHANGED <<brBrief, brDecisions, brView, clEntry, mpVars>> /\ brSince' = brSince
      /\ slot # NoSlot /\ clEntry[e].status = "PLANNED" /\ EntryFree(e) /\ clEntry' = clEntry
  BY DEF MoveStart, brVars
<1>2. slot \in ClSlots /\ (~over => ~CalendarConflict(slot, others))
  BY <1>1, SlotFound
<1>3. others = Standing \ {e}
  <2>1. \A f \in ClEntries : clEntry[f].status = "INSERTING" => clEntry[f].by # c
    BY <1>1, NoTxFields DEF PbInv, InsertersAtWork
  <2> QED BY <2>1 DEF EntriesSeen, Standing
<1>4. over \in BOOLEAN /\ slot \in Nat
  BY <1>2 DEF Overlaps, ClSlots
<1> HIDE DEF over, slot, others
<1>5. /\ tx \in CalendarTx /\ tx.brief = FALSE /\ tx.kind = "move" /\ tx.todo = <<>> /\ tx.entry = e
      /\ tx.slot = slot /\ tx.overlaps = over /\ tx.raced = FALSE /\ tx.kept = NoBrief
  <2>1. NoTx \in CalendarTx /\ e \in Nat /\ NoTx.raced = FALSE
    BY NoTxFields DEF ClEntries
  <2> QED BY <1>4, <2>1, NoTxFields DEF CalendarTx
<1> HIDE DEF tx
<1>6. clTx'[c] = tx /\ \A d \in ClClients : d # c => clTx'[d] = clTx[d]
  BY <1>1 DEF PbInv, ClTypes
<1>7. MovesFit'
  <2>1. Standing' = Standing /\ e \in Standing
    BY <1>1 DEF Standing
  <2>2. \A t, S : CalendarConflict(t, S)' <=> CalendarConflict(t, S)
    BY <1>1 DEF CalendarConflict, OnDay
  <2>3. ASSUME NEW d \in ClClients, clTx'[d].kind = "move"
        PROVE  /\ clTx'[d].entry \in Standing /\ clTx'[d].slot \in ClSlots
               /\ ~clTx'[d].overlaps /\ ~clTx'[d].raced =>
                    ~CalendarConflict(clTx'[d].slot, Standing \ {clTx'[d].entry})
               /\ \A x \in ClClients : clTx'[x].kind = "move" /\ clTx'[x].entry = clTx'[d].entry => x = d
    <3>1. CASE d = c
      BY <1>1, <1>2, <1>3, <1>5, <1>6, <2>1, <3>1 DEF EntryFree
    <3>2. CASE d # c
      <4>1. clTx'[d] = clTx[d] /\ clTx[d].kind = "move" /\ clTx[d].entry # e
        BY <1>1, <1>6, <2>3, <3>2 DEF EntryFree
      <4>2. /\ clTx[d].entry \in Standing /\ clTx[d].slot \in ClSlots
            /\ ~clTx[d].overlaps /\ ~clTx[d].raced =>
                 ~CalendarConflict(clTx[d].slot, Standing \ {clTx[d].entry})
            /\ \A x \in ClClients : clTx[x].kind = "move" /\ clTx[x].entry = clTx[d].entry => x = d
        BY <4>1 DEF PbInv, SpaceInv, MovesFit
      <4>3. \A x \in ClClients : clTx'[x].entry # e => clTx'[x] = clTx[x]
        BY <1>5, <1>6
      <4> QED BY <4>1, <4>2, <4>3
    <3> QED BY <3>1, <3>2
  <2> QED BY <1>1, <2>1, <2>2, <2>3 DEF MovesFit, CalendarConflict, OnDay
<1> QED BY <1>1, <1>5, <1>7, TxBegins

LEMMA PlanBegins ==
  ASSUME PbInv, NEW c \in ClClients, NEW p \in BrPeople, NEW resolution \in Resolutions,
         ApproveMonthlyProposal(c, p, resolution)
  PROVE  PbInv'
<1> DEFINE tx == [NoTx EXCEPT !.kind = "plan", !.todo = mpPlan.items, !.resolution = resolution, !.person = p]
<1>1. /\ clTx[c] = NoTx /\ clTx' = [clTx EXCEPT ![c] = tx]
      /\ UNCHANGED <<brBrief, brDecisions, brView, clEntry, mpVars>> /\ brSince' = brSince
      /\ PlanFree /\ mpPlan.status = "PENDING_APPROVAL" /\ mpView[p].fresh
      /\ clEntry' = clEntry /\ mpPlan' = mpPlan /\ mpView' = mpView
  BY DEF ApproveMonthlyProposal, AssertProposalIdentity, mpVars, brVars
<1>2. /\ tx \in CalendarTx /\ tx.brief = FALSE /\ tx.kind = "plan" /\ tx.todo = mpPlan.items /\ tx.person = p
      /\ tx.kept = NoBrief
  <2>1. NoTx \in CalendarTx /\ mpPlan.items \in Seq(ClItems)
    BY NoTxFields DEF PbInv, PlanTypes, PlanRow
  <2> QED BY <2>1, NoTxFields DEF CalendarTx, Placements
<1> HIDE DEF tx
<1>3. clTx'[c] = tx /\ \A d \in ClClients : d # c => clTx'[d] = clTx[d] /\ clTx'[d].kind # "plan"
  BY <1>1 DEF PbInv, ClTypes, PlanFree
<1>4. \A e \in ClEntries : clEntry[e].status = "INSERTING" => clEntry[e].by \in ClClients /\ clEntry[e].by # c
  BY <1>1, NoTxFields DEF PbInv, InsertersAtWork
<1>5. InsertedBy(c)' = {}
  BY <1>1, <1>4 DEF InsertedBy
<1>6. Len(mpPlan.items) \in Nat /\ Cardinality({}) = 0
  BY FS_EmptySet DEF PbInv, PlanTypes, PlanRow
<1>7. PlanInv'
  <2>1. PlanIsOnCalendar'
    BY <1>1 DEF PbInv, PlanInv, PlanIsOnCalendar
  <2>2. \A e \in ClEntries : clEntry[e].status = "INSERTING" => clTx'[clEntry[e].by] = clTx[clEntry[e].by]
    BY <1>3, <1>4
  <2>3. mpView[p].version = mpPlan.version
    BY <1>1 DEF PbInv, PlanInv
  <2>4. \A d \in ClClients : clTx'[d].kind = "plan" => d = c
    BY <1>3
  <2>5. Cardinality(InsertedBy(c)') + Len(clTx'[c].todo) = Len(mpPlan.items)
    BY <1>2, <1>3, <1>5, <1>6
  <2> QED BY <1>1, <1>2, <1>3, <2>1, <2>2, <2>3, <2>4, <2>5 DEF PbInv, PlanInv
<1> QED BY <1>1, <1>2, <1>7, TxBegins DEF Placements

\* _create_calendar_entry: the row that is inserted.
LEMMA EntryPlaced ==
  ASSUME PbInv, NEW c \in ClClients, NEW e \in ClEntries, PlaceEntry(c, e)
  PROVE  PbInv'
<1> DEFINE item == Head(clTx[c].todo)
           seen == EntriesSeen(c)
<1>slot. PICK slot : slot = ResolveSlot(item.slot, seen, clTx[c].resolution)
  OBVIOUS
<1>over. PICK over : over = Overlaps(item.slot, seen, clTx[c].resolution)
  OBVIOUS
<1>k. PICK k : k = IF item.brief THEN SessionBrief(c) ELSE NoBrief
  OBVIOUS
<1>row. PICK row : row = [status |-> "INSERTING", by |-> c, brief |-> item.brief, version |-> k.version,
                     slot |-> slot, overlaps |-> over, raced |-> FALSE, planned |-> clTx[c].kind = "plan",
                     late |-> item.brief /\ k.status # brBrief.status]
  OBVIOUS
<1>1. /\ clTx[c].todo # <<>> /\ clEntry[e].status = "NONE" /\ slot # NoSlot
      /\ item.brief => BriefPlaceable(c)
      /\ clEntry' = [clEntry EXCEPT ![e] = row]
      /\ clTx' = [clTx EXCEPT ![c].todo = Tail(@), ![c].brief = @ \/ item.brief,
                              ![c].kept = IF item.brief THEN k ELSE @]
      /\ brBrief' = brBrief /\ brView' = brView /\ brDecisions' = brDecisions /\ brSince' = brSince
      /\ mpPlan' = mpPlan /\ mpView' = mpView
  BY <1>slot, <1>over, <1>k, <1>row DEF PlaceEntry, brVars, mpVars
<1>2. /\ clTx[c] \in CalendarTx /\ item \in ClItems /\ clTx[c].kind \in Placements
      /\ Tail(clTx[c].todo) \in Seq(ClItems) /\ Len(Tail(clTx[c].todo)) = Len(clTx[c].todo) - 1
      /\ Len(clTx[c].todo) \in Nat
  <2>1. clTx[c] \in CalendarTx /\ clTx[c].todo \in Seq(ClItems) /\ clTx[c].kind \in Placements
    BY <1>1 DEF PbInv, ClTypes, CalendarTx, InsertersAtWork
  <2> QED BY <1>1, <2>1, HeadTailProperties
<1>3. item.slot \in ClSlots /\ item.brief \in BOOLEAN
  BY <1>2 DEF ClItems
<1>4. slot \in ClSlots /\ over \in BOOLEAN /\ slot \in Nat
  BY <1>slot, <1>over, <1>1, <1>3, SlotFound DEF Overlaps, ClSlots
<1>5. ~over => ~CalendarConflict(slot, seen)
  BY <1>slot, <1>over, <1>1, <1>3, SlotFound
<1>b. PICK b \in BOOLEAN : b = item.brief
  BY <1>3
<1>s. /\ k \in KeptBrief /\ k.version \in Nat
      /\ b => /\ k # NoBrief /\ k.status \in PlaceableStatuses /\ k.version = brBrief.version
              /\ brBrief.status \in {"APPROVED", "SCHEDULED", "ARCHIVED"}
              /\ c \in brSince => k = brBrief
              /\ k.status = "APPROVED" => brBrief.status = "APPROVED"
              /\ clTx[c].kept # NoBrief => k = clTx[c].kept
              /\ \A d \in ClClients : d # c => ~clTx[d].brief
  <2>1. brBrief \in BriefRow /\ brBrief # NoBrief /\ NoBrief.version = 0
    BY DEF PbInv, BriefInv, BriefTypes, BriefRow, BriefStatuses, NoBrief
  <2>2. KeptFits(c) /\ PlacesBrief(c) /\ clTx[c].kept \in KeptBrief
    BY <1>2 DEF PbInv, BriefLinked, CalendarTx
  <2>3. \A x \in KeptBrief : x.version \in Nat
    BY <2>1 DEF KeptBrief, BriefRow
  <2>4. CASE ~b
    BY <1>k, <1>b, <2>1, <2>4 DEF KeptBrief
  <2>5. CASE b /\ clTx[c].kept = NoBrief
    <3>1. k = brBrief /\ k.status \in PlaceableStatuses /\ \A d \in ClClients : d # c => ~clTx[d].brief
      BY <1>k, <1>1, <1>b, <2>5 DEF SessionBrief, BriefPlaceable
    <3> QED BY <2>1, <2>3, <2>5, <3>1 DEF KeptBrief, PlaceableStatuses
  <2>6. CASE b /\ clTx[c].kept # NoBrief
    <3>1. k = clTx[c].kept /\ \A d \in ClClients : d # c => ~clTx[d].brief
      BY <1>k, <1>1, <1>b, <2>6 DEF SessionBrief, BriefPlaceable
    <3>2. k.status = "APPROVED" => clTx[c].brief \/ c \in brSince
      BY <1>1, <1>b, <2>6, <3>1 DEF SessionBrief, BriefPlaceable, BriefWritable
    <3>3. k.status = "APPROVED" => brBrief.status = "APPROVED"
      BY <2>2, <2>6, <3>1, <3>2 DEF KeptFits, PlacesBrief
    <3> QED BY <2>2, <2>3, <2>6, <3>1, <3>3 DEF KeptFits
  <2> QED BY <2>4, <2>5, <2>6
<1>6. /\ row \in EntryRow /\ row.status = "INSERTING" /\ row.by = c /\ row.brief = b
      /\ row.slot = slot /\ row.overlaps = over /\ row.raced = FALSE /\ row.version = k.version
      /\ row.late <=> b /\ k.status # brBrief.status
      /\ row.planned <=> clTx[c].kind = "plan"
  BY <1>row, <1>4, <1>b, <1>s DEF EntryRow
<1>tx. PICK tx : tx = [clTx[c] EXCEPT !.todo = Tail(@), !.brief = @ \/ item.brief,
                                      !.kept = IF item.brief THEN k ELSE @]
  OBVIOUS
<1>7. /\ tx \in CalendarTx /\ tx.kind = clTx[c].kind /\ tx.todo = Tail(clTx[c].todo)
      /\ tx.brief = (clTx[c].brief \/ b) /\ tx.person = clTx[c].person
      /\ tx.kept = IF b THEN k ELSE clTx[c].kept
  BY <1>tx, <1>2, <1>b, <1>s DEF CalendarTx
<1>8. clTx' = [clTx EXCEPT ![c] = tx]
  BY <1>1, <1>tx DEF PbInv, ClTypes
<1>9. /\ clEntry'[e] = row /\ \A f \in ClEntries : f # e => clEntry'[f] = clEntry[f]
      /\ clTx'[c] = tx /\ \A d \in ClClients : d # c => clTx'[d] = clTx[d]
  BY <1>1, <1>8 DEF PbInv, ClTypes
<1>10. ClTypes' /\ PlanTypes' /\ BriefInv'
  <2>1. ClTypes'
    <3>1. clEntry \in [ClEntries -> EntryRow] /\ clTx \in [ClClients -> CalendarTx]
      BY DEF PbInv, ClTypes
    <3>2. clEntry' = [clEntry EXCEPT ![e] = row] /\ row \in EntryRow
      BY <1>1, <1>6
    <3>3. clTx' = [clTx EXCEPT ![c] = tx] /\ tx \in CalendarTx
      BY <1>7, <1>8
    <3> QED BY <3>1, <3>2, <3>3 DEF ClTypes
  <2>2. PlanTypes' /\ BriefInv'
    BY <1>1 DEF PbInv, BriefInv, BriefTypes, DecisionsSawVersion, ViewsFresh, Earned, Enough, ApproversIn, PlanTypes
  <2> QED BY <2>1, <2>2
<1> HIDE DEF item
<1>11. InsertersAtWork'
  BY <1>2, <1>6, <1>7, <1>9 DEF PbInv, InsertersAtWork
<1>12. BriefLinked'
  <2>1. BriefLinked /\ brBrief' = brBrief /\ brSince' = brSince
    BY <1>1 DEF PbInv
  <2>2. ASSUME NEW d \in ClClients, d # c PROVE KeptFits(d)' /\ PlacesBrief(d)'
    <3>1. clTx'[d] = clTx[d] /\ KeptFits(d) /\ PlacesBrief(d)
      BY <1>9, <2>1, <2>2 DEF BriefLinked
    <3>2. KeptFits(d)'
      BY <2>1, <3>1 DEF KeptFits
    <3>3. clTx[d].brief => ~b
      BY <1>s, <2>2
    <3>4. \A x \in ClClients : ~b /\ clTx'[x].brief => clTx[x].brief
      BY <1>7, <1>9
    <3>5. \A f \in ClEntries : clEntry[f].status = "INSERTING" => clEntry'[f] = clEntry[f]
      BY <1>1, <1>9
    <3>6. PlacesBrief(d)'
      BY <2>1, <3>1, <3>3, <3>4, <3>5 DEF PlacesBrief
    <3> QED BY <3>2, <3>6
  <2>3. KeptFits(c)' /\ PlacesBrief(c)'
    <3>1. clTx'[c] = tx /\ KeptFits(c) /\ PlacesBrief(c)
      BY <1>9, <2>1 DEF BriefLinked
    <3>2. CASE b
      <4>1. tx.kept = k /\ tx.brief
        BY <1>7, <3>2
      <4>2. \A d \in ClClients : clTx'[d].brief => d = c
        BY <1>9, <1>s, <3>2
      <4>3. clEntry'[e].status = "INSERTING" /\ clEntry'[e].by = c /\ clEntry'[e].brief
        BY <1>6, <1>9, <3>2
      <4>4. KeptFits(c)'
        BY <1>s, <2>1, <3>1, <3>2, <4>1 DEF KeptFits
      <4>5. PlacesBrief(c)'
        BY <1>s, <2>1, <3>1, <3>2, <4>1, <4>2, <4>3 DEF PlacesBrief
      <4> QED BY <4>4, <4>5
    <3>3. CASE ~b
      <4>1. tx.kept = clTx[c].kept /\ tx.brief = clTx[c].brief
        BY <1>7, <1>2, <3>3 DEF CalendarTx
      <4>2. \A d \in ClClients : clTx'[d].brief => clTx[d].brief
        BY <1>9, <4>1
      <4>3. \A f \in ClEntries : clEntry[f].status = "INSERTING" => clEntry'[f] = clEntry[f]
        BY <1>1, <1>9
      <4>4. KeptFits(c)'
        BY <2>1, <3>1, <4>1 DEF KeptFits
      <4>5. PlacesBrief(c)'
        BY <2>1, <3>1, <4>1, <4>2, <4>3 DEF PlacesBrief
      <4> QED BY <4>4, <4>5
    <3> QED BY <3>2, <3>3
  <2>4. ASSUME NEW f \in ClEntries PROVE InsertFits(f)' /\ StandsFor(f)'
    <3>1. CASE f = e
      <4>1. InsertFits(e)'
        BY <1>6, <1>7, <1>9, <1>s, <2>1 DEF InsertFits
      <4>2. StandsFor(e)'
        BY <1>6, <1>9 DEF StandsFor
      <4> QED BY <3>1, <4>1, <4>2
    <3>2. CASE f # e
      <4>1. clEntry'[f] = clEntry[f] /\ InsertFits(f) /\ StandsFor(f)
        BY <1>9, <2>1, <3>2 DEF BriefLinked
      <4>2. StandsFor(f)'
        BY <2>1, <4>1 DEF StandsFor
      <4>3. CASE clEntry[f].status = "INSERTING" /\ clEntry[f].brief
        <5>1. PICK d \in ClClients : d = clEntry[f].by
          BY <4>3 DEF PbInv, InsertersAtWork
        <5>2. /\ clTx[d].brief /\ clEntry[f].version = brBrief.version /\ clTx[d].kept # NoBrief
              /\ ~clEntry[f].late => clTx[d].kept.status = brBrief.status
          BY <2>1, <4>1, <4>3, <5>1 DEF InsertFits, BriefLinked, PlacesBrief
        <5>3. clTx'[d].brief /\ clTx'[d].kept = clTx[d].kept
          BY <1>7, <1>9, <1>s, <5>2
        <5> QED BY <2>1, <4>1, <4>2, <5>1, <5>2, <5>3 DEF InsertFits
      <4>4. CASE ~(clEntry[f].status = "INSERTING" /\ clEntry[f].brief)
        BY <4>1, <4>2, <4>4 DEF InsertFits
      <4> QED BY <4>3, <4>4
    <3> QED BY <3>1, <3>2
  <2>5. \A f \in ClEntries : clEntry[f].status = "PLANNED" => clEntry'[f] = clEntry[f]
    BY <1>1, <1>9
  <2> QED BY <2>1, <2>2, <2>3, <2>4, <2>5 DEF BriefLinked
<1>13. SpaceInv'
  <2>1. SlotsKnown'
    BY <1>4, <1>6, <1>9 DEF PbInv, SpaceInv, SlotsKnown
  <2>2. ASSUME NEW v \in Viewers PROVE SpacedFor(v)'
    <3>1. SpacedFor(v) /\ seen \in SUBSET ClEntries
      BY DEF PbInv, SpaceInv, WellSpaced, EntriesSeen
    <3>2. ASSUME NEW f \in KeptBy(v)', f # e
          PROVE  f \in KeptBy(v) /\ clEntry'[f].slot = clEntry[f].slot /\ f \in ClEntries
      BY <1>9, <3>2 DEF KeptBy, EntriesSeen
    <3>3. CASE e \in KeptBy(v)'
      <4>1. v = c /\ ~over
        BY <1>6, <1>9, <3>3 DEF KeptBy, EntriesSeen
      <4>2. KeptBy(v) \subseteq seen
        BY <4>1 DEF KeptBy
      <4> HIDE DEF seen
      <4>3. ~CalendarConflict(clEntry'[e].slot, seen)
        BY <1>5, <1>6, <1>9, <4>1
      <4> QED BY <1>10, <3>1, <3>2, <4>2, <4>3, StillSpaced DEF PbInv
    <3>4. CASE e \notin KeptBy(v)'
      <4>1. ClEntries \in SUBSET ClEntries
        OBVIOUS
      <4> QED BY <1>10, <3>1, <3>2, <3>4, <4>1, StillSpaced DEF PbInv
    <3> QED BY <3>3, <3>4
  <2>3. MovesFit'
    <3>1. MovesFit /\ Standing' = Standing /\ \A f \in Standing : clEntry'[f].slot = clEntry[f].slot
      BY <1>1, <1>6, <1>9 DEF PbInv, SpaceInv, Standing
    <3>2. \A d \in ClClients : clTx'[d].kind = "move" => clTx'[d] = clTx[d]
      BY <1>2, <1>7, <1>9 DEF Placements
    <3>3. \A d \in ClClients : clTx[d].kind = "move" => clTx[d].entry \in Standing
      BY <3>1, MoversStand
    <3> QED BY <3>1, <3>2, <3>3, MovesKept
  <2> QED BY <2>1, <2>2, <2>3 DEF SpaceInv, WellSpaced
<1>14. PlanInv'
  <2>1. PlanInv /\ InsertedBy(c) \in SUBSET ClEntries /\ e \notin InsertedBy(c)
    BY <1>1 DEF PbInv, InsertedBy
  <2>2. InsertedBy(c)' = InsertedBy(c) \cup {e} /\ \A d \in ClClients : d # c => InsertedBy(d)' = InsertedBy(d)
    BY <1>1, <1>6, <1>9 DEF InsertedBy
  <2>3. Cardinality(InsertedBy(c)') = Cardinality(InsertedBy(c)) + 1 /\ Cardinality(InsertedBy(c)) \in Nat
    BY <2>1, <2>2, EntrySets, FS_AddElement
  <2>4. ASSUME NEW d \in ClClients, clTx'[d].kind = "plan"
        PROVE  /\ mpPlan.status = "PENDING_APPROVAL"
               /\ clTx'[d].person \in BrPeople /\ mpView[clTx'[d].person].version = mpPlan.version
               /\ Cardinality(InsertedBy(d)') + Len(clTx'[d].todo) = Len(mpPlan.items)
               /\ \A x \in ClClients : clTx'[x].kind = "plan" => x = d
    <3>1. clTx[d].kind = "plan" /\ clTx'[d].person = clTx[d].person
          /\ \A x \in ClClients : clTx'[x].kind = clTx[x].kind
      BY <1>7, <1>9, <2>4
    <3>2. /\ mpPlan.status = "PENDING_APPROVAL"
          /\ clTx[d].person \in BrPeople /\ mpView[clTx[d].person].version = mpPlan.version
          /\ Cardinality(InsertedBy(d)) + Len(clTx[d].todo) = Len(mpPlan.items)
          /\ \A x \in ClClients : clTx[x].kind = "plan" => x = d
      BY <2>1, <3>1 DEF PlanInv
    <3>3. Cardinality(InsertedBy(d)') + Len(clTx'[d].todo) = Len(mpPlan.items)
      <4>1. CASE d = c
        <5>1. Len(clTx'[c].todo) = Len(clTx[c].todo) - 1
          BY <1>2, <1>7, <1>9
        <5> QED BY <1>2, <2>3, <3>2, <4>1, <5>1
      <4>2. CASE d # c
        BY <1>9, <2>2, <3>2, <4>2
      <4> QED BY <4>1, <4>2
    <3> QED BY <3>1, <3>2, <3>3
  <2>5. \A f \in ClEntries :
          /\ clEntry'[f].status = "INSERTING" => (clEntry'[f].planned <=> clTx'[clEntry'[f].by].kind = "plan")
          /\ clEntry'[f].status = "NONE" => ~clEntry'[f].planned
    <3>1. \A x \in ClClients : clTx'[x].kind = clTx[x].kind
      BY <1>7, <1>9
    <3>2. \A f \in ClEntries : clEntry[f].status = "INSERTING" => clEntry[f].by \in ClClients
      BY DEF PbInv, InsertersAtWork
    <3> QED BY <1>6, <1>7, <1>9, <2>1, <3>1, <3>2 DEF PlanInv
  <2>6. PlanIsOnCalendar'
    <3> DEFINE made == {f \in ClEntries : clEntry[f].planned /\ clEntry[f].status # "INSERTING"}
    <3>1. ~clEntry[e].planned
      BY <1>1, <2>1 DEF PlanInv
    <3>2. {f \in ClEntries : clEntry'[f].planned /\ clEntry'[f].status # "INSERTING"} = made
      BY <1>6, <1>9, <3>1
    <3> QED BY <1>1, <2>1, <3>2 DEF PlanInv, PlanIsOnCalendar
  <2> QED BY <1>1, <2>1, <2>4, <2>5, <2>6 DEF PlanInv
<1> QED BY <1>10, <1>11, <1>12, <1>13, <1>14 DEF PbInv

\* What a commit of c leaves of the requests of the others.
LEMMA OthersRaced ==
  ASSUME ClTypes, NEW c \in ClClients, clTx' = TxRaced(c)
  PROVE  /\ clTx' \in [ClClients -> CalendarTx] /\ clTx'[c] = NoTx
         /\ \A d \in ClClients : d # c =>
              /\ clTx'[d].kind = clTx[d].kind /\ clTx'[d].todo = clTx[d].todo
              /\ clTx'[d].brief = clTx[d].brief /\ clTx'[d].kept = clTx[d].kept /\ clTx'[d].person = clTx[d].person
              /\ clTx'[d].entry = clTx[d].entry /\ clTx'[d].slot = clTx[d].slot
              /\ clTx[d].kind = "move" => clTx'[d].raced
<1>1. /\ clTx'[c] = NoTx
      /\ \A d \in ClClients : d # c =>
           clTx'[d] = IF clTx[d].kind = "move" THEN [clTx[d] EXCEPT !.raced = TRUE] ELSE clTx[d]
  BY DEF TxRaced
<1>2. \A d \in ClClients : clTx[d] \in CalendarTx
  BY DEF ClTypes
<1>3. ASSUME NEW d \in ClClients, d # c
      PROVE  /\ clTx'[d] \in CalendarTx
             /\ clTx'[d].kind = clTx[d].kind /\ clTx'[d].todo = clTx[d].todo
             /\ clTx'[d].brief = clTx[d].brief /\ clTx'[d].kept = clTx[d].kept /\ clTx'[d].person = clTx[d].person
             /\ clTx'[d].entry = clTx[d].entry /\ clTx'[d].slot = clTx[d].slot
             /\ clTx[d].kind = "move" => clTx'[d].raced
  BY <1>1, <1>2, <1>3 DEF CalendarTx
<1>4. clTx' \in [ClClients -> CalendarTx]
  BY <1>1, <1>3, NoTxFields DEF TxRaced
<1> QED BY <1>1, <1>3, <1>4

LEMMA PlacementCommitted ==
  ASSUME PbInv, NEW c \in ClClients, PlacementCommit(c)
  PROVE  PbInv'
<1> DEFINE Writes == clTx[c].brief /\ clTx[c].kept.status = "APPROVED"
<1>b. PICK b : b = IF Writes THEN [brBrief EXCEPT !.status = "SCHEDULED"] ELSE brBrief
  OBVIOUS
<1>1. /\ clTx[c].kind \in Placements /\ clTx[c].todo = <<>> /\ BriefUpdated(b)
      /\ clTx' = TxRaced(c) /\ UNCHANGED brDecisions
      /\ mpPlan' = IF clTx[c].kind = "plan"
                   THEN [mpPlan EXCEPT !.status = "APPROVED", !.seen = mpView[clTx[c].person].version]
                   ELSE mpPlan
      /\ mpView' = IF clTx[c].kind = "plan" THEN Stale(mpView) ELSE mpView
  BY <1>b DEF PlacementCommit, Placements
<1>t. /\ ClTypes /\ BriefInv /\ InsertersAtWork /\ BriefLinked /\ PlanInv /\ PlanTypes /\ SpaceInv
      /\ brBrief \in BriefRow /\ clTx[c].brief \in BOOLEAN /\ \A e \in ClEntries : clEntry[e] \in EntryRow
  BY DEF PbInv, BriefInv, BriefTypes, ClTypes, CalendarTx
<1>2. \A e \in ClEntries :
        /\ clEntry[e].status = "INSERTING" /\ clEntry[e].by = c =>
             clEntry'[e] = [clEntry[e] EXCEPT !.status = "PLANNED", !.by = ""]
        /\ clEntry[e].status = "INSERTING" /\ clEntry[e].by # c =>
             clEntry'[e] = [clEntry[e] EXCEPT !.raced = TRUE]
        /\ clEntry[e].status # "INSERTING" => clEntry'[e] = clEntry[e]
  <2>1. PICK mine : mine = [e \in ClEntries |->
           IF clEntry[e].status = "INSERTING" /\ clEntry[e].by = c
           THEN [clEntry[e] EXCEPT !.status = "PLANNED", !.by = ""] ELSE clEntry[e]]
    OBVIOUS
  <2>2. clEntry' = [e \in ClEntries |-> IF mine[e].status = "INSERTING" /\ mine[e].by # c
                       THEN [mine[e] EXCEPT !.raced = TRUE] ELSE mine[e]]
    BY <2>1 DEF PlacementCommit, Raced
  <2>3. ASSUME NEW e \in ClEntries, clEntry[e].status = "INSERTING", clEntry[e].by = c
        PROVE  clEntry'[e] = [clEntry[e] EXCEPT !.status = "PLANNED", !.by = ""]
    <3>1. mine[e] = [clEntry[e] EXCEPT !.status = "PLANNED", !.by = ""]
      BY <2>1, <2>3
    <3>2. mine[e].status = "PLANNED"
      BY <1>t, <3>1 DEF EntryRow
    <3> QED BY <2>2, <3>1, <3>2
  <2>4. ASSUME NEW e \in ClEntries, ~(clEntry[e].status = "INSERTING" /\ clEntry[e].by = c)
        PROVE  clEntry'[e] = IF clEntry[e].status = "INSERTING" THEN [clEntry[e] EXCEPT !.raced = TRUE]
                             ELSE clEntry[e]
    BY <2>1, <2>2, <2>4
  <2> QED BY <2>3, <2>4
<1>3. ASSUME NEW e \in ClEntries
      PROVE  /\ clEntry'[e] \in EntryRow
             /\ clEntry'[e].brief = clEntry[e].brief /\ clEntry'[e].version = clEntry[e].version
             /\ clEntry'[e].slot = clEntry[e].slot /\ clEntry'[e].overlaps = clEntry[e].overlaps
             /\ clEntry'[e].planned = clEntry[e].planned /\ clEntry'[e].late = clEntry[e].late
             /\ clEntry[e].raced => clEntry'[e].raced
             /\ clEntry[e].status = "INSERTING" /\ clEntry[e].by = c => clEntry'[e].status = "PLANNED"
             /\ clEntry[e].status = "INSERTING" /\ clEntry[e].by # c =>
                  clEntry'[e].status = "INSERTING" /\ clEntry'[e].raced /\ clEntry'[e].by = clEntry[e].by
             /\ clEntry[e].status # "INSERTING" => clEntry'[e].status = clEntry[e].status
  <2>1. CASE clEntry[e].status = "INSERTING" /\ clEntry[e].by = c
    <3>1. clEntry'[e] = [clEntry[e] EXCEPT !.status = "PLANNED", !.by = ""] /\ clEntry[e] \in EntryRow
      BY <1>2, <1>t, <2>1
    <3>2. clEntry'[e] \in EntryRow /\ clEntry'[e].status = "PLANNED"
      BY <3>1 DEF EntryRow
    <3>3. /\ clEntry'[e].brief = clEntry[e].brief /\ clEntry'[e].version = clEntry[e].version
          /\ clEntry'[e].slot = clEntry[e].slot /\ clEntry'[e].overlaps = clEntry[e].overlaps
          /\ clEntry'[e].planned = clEntry[e].planned /\ clEntry'[e].late = clEntry[e].late
          /\ clEntry'[e].raced = clEntry[e].raced
      BY <3>1 DEF EntryRow
    <3> QED BY <2>1, <3>2, <3>3
  <2>2. CASE clEntry[e].status = "INSERTING" /\ clEntry[e].by # c
    <3>1. clEntry'[e] = [clEntry[e] EXCEPT !.raced = TRUE] /\ clEntry[e] \in EntryRow
      BY <1>2, <1>t, <2>2
    <3>2. clEntry'[e] \in EntryRow /\ clEntry'[e].raced = TRUE /\ clEntry'[e].by = clEntry[e].by
          /\ clEntry'[e].status = clEntry[e].status
      BY <3>1 DEF EntryRow
    <3>3. /\ clEntry'[e].brief = clEntry[e].brief /\ clEntry'[e].version = clEntry[e].version
          /\ clEntry'[e].slot = clEntry[e].slot /\ clEntry'[e].overlaps = clEntry[e].overlaps
          /\ clEntry'[e].planned = clEntry[e].planned /\ clEntry'[e].late = clEntry[e].late
      BY <3>1 DEF EntryRow
    <3> QED BY <2>2, <3>2, <3>3
  <2>3. CASE clEntry[e].status # "INSERTING"
    BY <1>2, <1>t, <2>3
  <2> QED BY <2>1, <2>2, <2>3
<1>4. clEntry' \in [ClEntries -> EntryRow]
  <2>1. DOMAIN clEntry' = ClEntries /\ clEntry' = [e \in ClEntries |-> clEntry'[e]]
    BY DEF PlacementCommit, Raced
  <2> QED BY <1>3, <2>1
<1>5. /\ clTx' \in [ClClients -> CalendarTx] /\ clTx'[c] = NoTx
      /\ \A d \in ClClients : d # c =>
           /\ clTx'[d].kind = clTx[d].kind /\ clTx'[d].todo = clTx[d].todo
           /\ clTx'[d].brief = clTx[d].brief /\ clTx'[d].kept = clTx[d].kept /\ clTx'[d].person = clTx[d].person
           /\ clTx'[d].entry = clTx[d].entry /\ clTx'[d].slot = clTx[d].slot
           /\ clTx[d].kind = "move" => clTx'[d].raced
  BY <1>1, <1>t, OthersRaced
<1>6. ClTypes'
  BY <1>4, <1>5 DEF ClTypes
<1>7. InsertersAtWork'
  <2>1. \A e \in ClEntries : clEntry'[e].status = "INSERTING" =>
          clEntry[e].status = "INSERTING" /\ clEntry[e].by # c /\ clEntry'[e].by = clEntry[e].by
    BY <1>3
  <2> QED BY <1>5, <1>t, <2>1, NoTxFields DEF InsertersAtWork
<1>8. /\ b \in BriefRow /\ b.version = brBrief.version /\ b.stage = brBrief.stage
      /\ Writes => b.status = "SCHEDULED" /\ brBrief.status = "APPROVED"
      /\ ~Writes => b = brBrief
  <2>1. Writes => brBrief.status = "APPROVED"
    BY <1>t DEF BriefLinked, PlacesBrief
  <2> QED BY <1>b, <1>t, <2>1 DEF BriefRow, BriefStatuses
<1>9. BriefInv' /\ brBrief' = b
  <2>1. Earned(b.status, b.stage, b.version)
    BY <1>8, <1>t DEF BriefInv, Earned
  <2> QED BY <1>1, <1>8, <1>t, <2>1, BriefMoves
<1>10. BriefLinked'
  <2>1. \A d \in brSince' : d \in brSince /\ brBrief' = brBrief
    BY <1>1, SinceUpdated
  <2>2. ASSUME NEW d \in ClClients PROVE KeptFits(d)' /\ PlacesBrief(d)'
    <3>1. CASE d = c
      BY <1>5, <3>1, NoTxFields DEF KeptFits, PlacesBrief
    <3>2. CASE d # c
      <4>1. clTx'[d].kept = clTx[d].kept /\ clTx'[d].brief = clTx[d].brief /\ KeptFits(d) /\ PlacesBrief(d)
        BY <1>5, <1>t, <3>2 DEF BriefLinked
      <4>2. KeptFits(d)'
        BY <1>8, <1>9, <2>1, <4>1 DEF KeptFits
      <4>3. \A x \in ClClients : clTx'[x].brief => clTx[x].brief
        BY <1>5, NoTxFields
      <4>4. \A f \in ClEntries : clEntry[f].status = "INSERTING" /\ clEntry[f].by = d =>
              clEntry'[f].status = "INSERTING" /\ clEntry'[f].by = d /\ clEntry'[f].brief = clEntry[f].brief
        BY <1>3, <3>2
      <4>5. clTx[d].brief => b = brBrief
        BY <1>8, <3>2, <4>1 DEF PlacesBrief
      <4>6. PlacesBrief(d)'
        BY <1>9, <4>1, <4>3, <4>4, <4>5 DEF PlacesBrief
      <4> QED BY <4>2, <4>6
    <3> QED BY <3>1, <3>2
  <2>3. ASSUME NEW f \in ClEntries PROVE InsertFits(f)' /\ StandsFor(f)'
    <3>1. InsertFits(f) /\ StandsFor(f)
      BY <1>t DEF BriefLinked
    <3>2. CASE clEntry[f].status = "INSERTING" /\ clEntry[f].by # c
      <4>1. PICK d \in ClClients : d = clEntry[f].by /\ d # c
        BY <1>t, <3>2 DEF InsertersAtWork
      <4>2. clTx'[d].brief = clTx[d].brief /\ clTx'[d].kept = clTx[d].kept
        BY <1>5, <4>1
      <4>3. clEntry[f].brief => b = brBrief
        BY <1>8, <1>t, <3>1, <3>2, <4>1 DEF InsertFits, BriefLinked, PlacesBrief
      <4>4. /\ clEntry'[f].status = "INSERTING" /\ clEntry'[f].by = d /\ clEntry'[f].brief = clEntry[f].brief
            /\ clEntry'[f].version = clEntry[f].version /\ clEntry'[f].late = clEntry[f].late
        BY <1>3, <3>2, <4>1
      <4> QED BY <1>9, <3>1, <3>2, <4>1, <4>2, <4>3, <4>4 DEF InsertFits, StandsFor
    <3>3. CASE clEntry[f].status = "INSERTING" /\ clEntry[f].by = c
      <4>1. /\ clEntry'[f].status = "PLANNED" /\ clEntry'[f].brief = clEntry[f].brief
            /\ clEntry'[f].version = clEntry[f].version /\ clEntry'[f].late = clEntry[f].late
        BY <1>3, <3>3
      <4>2. /\ clEntry[f].brief => clTx[c].brief /\ clEntry[f].version = brBrief.version
            /\ clEntry[f].brief /\ ~clEntry[f].late => clTx[c].kept.status = brBrief.status
        BY <3>1, <3>3 DEF InsertFits
      <4>3. clTx[c].brief => brBrief.status \in {"APPROVED", "SCHEDULED", "ARCHIVED"}
        BY <1>t DEF BriefLinked, PlacesBrief, KeptFits
      <4>4. StandsFor(f)'
        BY <1>8, <1>9, <4>1, <4>2, <4>3 DEF StandsFor
      <4> QED BY <4>1, <4>4 DEF InsertFits
    <3>4. CASE clEntry[f].status # "INSERTING"
      <4>1. /\ clEntry'[f].status = clEntry[f].status /\ clEntry'[f].brief = clEntry[f].brief
            /\ clEntry'[f].version = clEntry[f].version /\ clEntry'[f].late = clEntry[f].late
        BY <1>3, <3>4
      <4>2. StandsFor(f)'
        BY <1>8, <1>9, <3>1, <4>1 DEF StandsFor
      <4> QED BY <3>4, <4>1, <4>2 DEF InsertFits
    <3> QED BY <3>2, <3>3, <3>4
  <2>4. ASSUME b.status = "SCHEDULED"
        PROVE  \E f \in ClEntries : clEntry'[f].brief /\ clEntry'[f].status = "PLANNED"
    <3>1. CASE Writes
      <4>1. PICK f \in ClEntries : clEntry[f].status = "INSERTING" /\ clEntry[f].by = c /\ clEntry[f].brief
        BY <1>t, <3>1 DEF BriefLinked, PlacesBrief
      <4> QED BY <1>3, <4>1
    <3>2. CASE ~Writes
      <4>1. PICK f \in ClEntries : clEntry[f].brief /\ clEntry[f].status = "PLANNED"
        BY <1>8, <1>t, <2>4, <3>2 DEF BriefLinked
      <4> QED BY <1>3, <4>1
    <3> QED BY <3>1, <3>2
  <2> QED BY <1>9, <2>2, <2>3, <2>4 DEF BriefLinked
<1>11. SpaceInv'
  <2>1. SlotsKnown'
    BY <1>3, <1>t DEF SpaceInv, SlotsKnown
  <2>2. ASSUME NEW v \in Viewers PROVE SpacedFor(v)'
    <3>1. SpacedFor(c)
      BY <1>t DEF SpaceInv, WellSpaced, Viewers
    <3>2. ASSUME NEW f \in KeptBy(v)'
          PROVE  f \in KeptBy(c) /\ clEntry'[f].slot = clEntry[f].slot /\ f \in ClEntries
      <4>1. f \in ClEntries /\ ~clEntry'[f].overlaps /\ ~clEntry'[f].raced
            /\ clEntry'[f].status \in {"PLANNED", "INSERTING"}
        BY <3>2 DEF KeptBy, EntriesSeen
      <4>2. /\ ~clEntry[f].overlaps /\ ~clEntry[f].raced
            /\ \/ clEntry[f].status = "PLANNED"
               \/ clEntry[f].status = "INSERTING" /\ clEntry[f].by = c
        BY <1>3, <4>1
      <4> QED BY <1>3, <4>1, <4>2 DEF KeptBy, EntriesSeen
    <3> QED BY <1>6, <1>t, <3>1, <3>2, FewerSpaced
  <2>3. MovesFit'
    <3>1. MovesFit /\ \A d \in ClClients : clTx[d].kind = "move" => clTx[d].entry \in Standing
      BY <1>t, MoversStand DEF SpaceInv
    <3>2. \A f \in Standing : f \in Standing'
      BY <1>3 DEF Standing
    <3>3. \A d \in ClClients : clTx'[d].kind = "move" => d # c
      BY <1>5, NoTxFields
    <3> QED BY <1>5, <3>1, <3>2, <3>3, MovesKept
  <2> QED BY <2>1, <2>2, <2>3 DEF SpaceInv, WellSpaced
<1>12. PlanTypes' /\ PlanInv'
  <2>1. \A f \in ClEntries : clEntry'[f].status = "INSERTING" =>
          clEntry[f].status = "INSERTING" /\ clEntry[f].by # c /\ clEntry[f].by \in ClClients
          /\ clEntry'[f].by = clEntry[f].by
    BY <1>3, <1>t DEF InsertersAtWork
  <2>2. \A f \in ClEntries :
          /\ clEntry'[f].status = "INSERTING" => (clEntry'[f].planned <=> clTx'[clEntry'[f].by].kind = "plan")
          /\ clEntry'[f].status = "NONE" => ~clEntry'[f].planned
    BY <1>3, <1>5, <1>t, <2>1 DEF PlanInv
  <2>3. \A d \in ClClients : d # c => InsertedBy(d)' = InsertedBy(d)
    BY <1>3 DEF InsertedBy
  <2> DEFINE made == {f \in ClEntries : clEntry[f].planned /\ clEntry[f].status # "INSERTING"}
             madeNow == {f \in ClEntries : clEntry'[f].planned /\ clEntry'[f].status # "INSERTING"}
  <2>4. CASE clTx[c].kind = "plan"
    <3>1. /\ mpPlan.status = "PENDING_APPROVAL" /\ clTx[c].person \in BrPeople
          /\ mpView[clTx[c].person].version = mpPlan.version
          /\ Cardinality(InsertedBy(c)) + Len(clTx[c].todo) = Len(mpPlan.items)
          /\ \A d \in ClClients : clTx[d].kind = "plan" => d = c
      BY <1>t, <2>4 DEF PlanInv
    <3>2. mpPlan' = [mpPlan EXCEPT !.status = "APPROVED", !.seen = mpPlan.version]
      BY <1>1, <2>4, <3>1
    <3>3. mpPlan' \in PlanRow /\ mpPlan'.status = "APPROVED" /\ mpPlan'.seen = mpPlan'.version
          /\ mpPlan'.items = mpPlan.items /\ mpPlan'.version = mpPlan.version
      BY <1>t, <3>2 DEF PlanTypes, PlanRow
    <3>4. mpView' \in [BrPeople -> ViewRow] /\ \A p \in BrPeople : ~mpView'[p].fresh
      BY <1>1, <1>t, <2>4 DEF PlanTypes, ViewRow, Stale
    <3>5. made = {}
      BY <1>t, <3>1 DEF PlanInv, PlanIsOnCalendar
    <3>6. madeNow = InsertedBy(c)
      BY <1>3, <1>t, <2>4, <3>5 DEF InsertedBy, PlanInv
    <3>7. Cardinality(madeNow) = Len(mpPlan'.items)
      <4>1. Len(clTx[c].todo) = 0 /\ Cardinality(InsertedBy(c)) \in Nat
        BY <1>1, EntrySets DEF InsertedBy
      <4> HIDE DEF madeNow
      <4> QED BY <3>1, <3>3, <3>6, <4>1
    <3>8. PlanIsOnCalendar'
      BY <3>3, <3>7 DEF PlanIsOnCalendar
    <3>9. \A d \in ClClients : clTx'[d].kind # "plan"
      BY <1>5, <3>1, NoTxFields
    <3> QED BY <2>2, <3>3, <3>4, <3>8, <3>9 DEF PlanInv, PlanTypes
  <2>5. CASE clTx[c].kind # "plan"
    <3>1. mpPlan' = mpPlan /\ mpView' = mpView
      BY <1>1, <2>5
    <3>2. madeNow = made
      BY <1>3, <1>t, <2>5 DEF PlanInv
    <3>3. PlanIsOnCalendar'
      BY <1>t, <3>1, <3>2 DEF PlanInv, PlanIsOnCalendar
    <3>4. \A d \in ClClients : clTx'[d].kind = "plan" =>
            d # c /\ clTx[d].kind = "plan" /\ clTx'[d].todo = clTx[d].todo /\ clTx'[d].person = clTx[d].person
      BY <1>5, NoTxFields
    <3>5. (\A d \in ClClients : clTx[d].kind = "plan" =>
            /\ mpPlan.status = "PENDING_APPROVAL"
            /\ clTx[d].person \in BrPeople /\ mpView[clTx[d].person].version = mpPlan.version
            /\ Cardinality(InsertedBy(d)) + Len(clTx[d].todo) = Len(mpPlan.items)
            /\ \A x \in ClClients : clTx[x].kind = "plan" => x = d)'
      BY <1>t, <2>3, <3>1, <3>4 DEF PlanInv
    <3> QED BY <1>t, <2>2, <3>1, <3>3, <3>5 DEF PlanInv, PlanTypes
  <2> QED BY <2>4, <2>5
<1> QED BY <1>6, <1>7, <1>9, <1>10, <1>11, <1>12 DEF PbInv

\* The rows of a request that is rolled back are gone.
LEMMA PlacementRolledBack ==
  ASSUME PbInv, NEW c \in ClClients, TxRolledBack(c)
  PROVE  PbInv'
<1>1. /\ clTx' = [clTx EXCEPT ![c] = NoTx]
      /\ clEntry' = [e \in ClEntries |->
           IF clEntry[e].status = "INSERTING" /\ clEntry[e].by = c THEN NoEntry ELSE clEntry[e]]
      /\ brBrief' = brBrief /\ brView' = brView /\ brDecisions' = brDecisions
      /\ mpPlan' = mpPlan /\ mpView' = mpView
  BY DEF TxRolledBack, brVars, mpVars
<1>2. NoEntry \in EntryRow /\ NoEntry.status = "NONE" /\ NoEntry.planned = FALSE
  BY DEF NoEntry, EntryRow, NoSlot
<1>3. \A e \in ClEntries :
        /\ clEntry[e].status = "INSERTING" /\ clEntry[e].by = c => clEntry'[e] = NoEntry
        /\ ~(clEntry[e].status = "INSERTING" /\ clEntry[e].by = c) => clEntry'[e] = clEntry[e]
  BY <1>1
<1>4. clTx'[c] = NoTx /\ \A d \in ClClients : d # c => clTx'[d] = clTx[d]
  BY <1>1 DEF PbInv, ClTypes
<1>5. ClTypes' /\ PlanTypes' /\ BriefInv'
  <2>1. \A e \in ClEntries : clEntry'[e] \in EntryRow
    BY <1>2, <1>3 DEF PbInv, ClTypes
  <2>2. ClTypes'
    BY <1>1, <2>1, NoTxFields DEF PbInv, ClTypes
  <2>3. PlanTypes' /\ BriefInv'
    BY <1>1 DEF PbInv, BriefInv, BriefTypes, DecisionsSawVersion, ViewsFresh, Earned, Enough, ApproversIn, PlanTypes
  <2> QED BY <2>2, <2>3
<1>6. \A e \in ClEntries : clEntry'[e].status # "NONE" =>
        clEntry'[e] = clEntry[e] /\ (clEntry[e].status = "INSERTING" => clEntry[e].by # c)
  BY <1>2, <1>3
<1>7. InsertersAtWork'
  BY <1>4, <1>6, NoTxFields DEF PbInv, InsertersAtWork
<1>8. BriefLinked'
  <2>1. BriefLinked /\ brBrief' = brBrief /\ brSince' = brSince
    BY <1>1 DEF PbInv, TxRolledBack, brVars
  <2>2. ASSUME NEW d \in ClClients PROVE KeptFits(d)' /\ PlacesBrief(d)'
    <3>1. CASE d = c
      BY <1>4, <3>1, NoTxFields DEF KeptFits, PlacesBrief
    <3>2. CASE d # c
      <4>1. clTx'[d] = clTx[d] /\ KeptFits(d) /\ PlacesBrief(d)
        BY <1>4, <2>1, <3>2 DEF BriefLinked
      <4>2. KeptFits(d)'
        BY <2>1, <4>1 DEF KeptFits
      <4>3. \A x \in ClClients : clTx'[x].brief => clTx[x].brief
        BY <1>4, NoTxFields
      <4>4. \A e \in ClEntries : clEntry[e].status = "INSERTING" /\ clEntry[e].by = d => clEntry'[e] = clEntry[e]
        BY <1>3, <3>2
      <4>5. PlacesBrief(d)'
        BY <2>1, <4>1, <4>3, <4>4 DEF PlacesBrief
      <4> QED BY <4>2, <4>5
    <3> QED BY <3>1, <3>2
  <2>3. ASSUME NEW e \in ClEntries PROVE InsertFits(e)' /\ StandsFor(e)'
    <3>1. CASE clEntry'[e].status \in {"INSERTING", "PLANNED"}
      <4>1. clEntry'[e] = clEntry[e] /\ InsertFits(e) /\ StandsFor(e)
        BY <1>6, <2>1, <3>1 DEF BriefLinked
      <4>2. clEntry[e].status = "INSERTING" => clTx'[clEntry[e].by] = clTx[clEntry[e].by]
        BY <1>4, <1>6, <3>1 DEF PbInv, InsertersAtWork
      <4> QED BY <2>1, <4>1, <4>2 DEF InsertFits, StandsFor
    <3>2. CASE clEntry'[e].status \notin {"INSERTING", "PLANNED"}
      BY <3>2 DEF InsertFits, StandsFor
    <3> QED BY <3>1, <3>2
  <2>4. \A e \in ClEntries : clEntry[e].status = "PLANNED" => clEntry'[e] = clEntry[e]
    BY <1>3
  <2> QED BY <2>1, <2>2, <2>3, <2>4 DEF BriefLinked
<1>9. SpaceInv'
  <2>1. SlotsKnown'
    BY <1>6 DEF PbInv, SpaceInv, SlotsKnown
  <2>2. ASSUME NEW v \in Viewers PROVE SpacedFor(v)'
    <3>1. SpacedFor(v)
      BY DEF PbInv, SpaceInv, WellSpaced
    <3>2. \A f \in KeptBy(v)' : f \in KeptBy(v) /\ clEntry'[f].slot = clEntry[f].slot
      BY <1>6 DEF KeptBy, EntriesSeen
    <3> QED BY <1>5, <3>1, <3>2, FewerSpaced DEF PbInv
  <2>3. MovesFit'
    <3>1. MovesFit /\ \A d \in ClClients : clTx[d].kind = "move" => clTx[d].entry \in Standing
      BY MoversStand DEF PbInv, SpaceInv
    <3>2. Standing' = Standing /\ \A f \in Standing : clEntry'[f] = clEntry[f]
      BY <1>3, <1>6 DEF Standing
    <3>3. \A d \in ClClients : clTx'[d].kind = "move" => clTx'[d] = clTx[d]
      BY <1>4, NoTxFields
    <3> QED BY <3>1, <3>2, <3>3, MovesKept
  <2> QED BY <2>1, <2>2, <2>3 DEF SpaceInv, WellSpaced
<1>10. PlanInv'
  <2>1. PlanInv
    BY DEF PbInv
  <2>2. \A f \in ClEntries :
          /\ clEntry'[f].status = "INSERTING" => (clEntry'[f].planned <=> clTx'[clEntry'[f].by].kind = "plan")
          /\ clEntry'[f].status = "NONE" => ~clEntry'[f].planned
    <3>1. ASSUME NEW f \in ClEntries, clEntry'[f].status = "INSERTING"
          PROVE  clEntry'[f].planned <=> clTx'[clEntry'[f].by].kind = "plan"
      <4>1. clEntry'[f] = clEntry[f] /\ clEntry[f].by # c /\ clEntry[f].by \in ClClients
        BY <1>6, <3>1 DEF PbInv, InsertersAtWork
      <4> QED BY <1>4, <2>1, <3>1, <4>1 DEF PlanInv
    <3>2. \A f \in ClEntries : clEntry'[f].status = "NONE" => ~clEntry'[f].planned
      BY <1>2, <1>3, <2>1 DEF PlanInv
    <3> QED BY <3>1, <3>2
  <2>3. \A d \in ClClients : d # c => InsertedBy(d)' = InsertedBy(d)
    BY <1>2, <1>3 DEF InsertedBy
  <2>4. PlanIsOnCalendar'
    <3> DEFINE made == {f \in ClEntries : clEntry[f].planned /\ clEntry[f].status # "INSERTING"}
    <3>1. {f \in ClEntries : clEntry'[f].planned /\ clEntry'[f].status # "INSERTING"} = made
      BY <1>2, <1>3
    <3> QED BY <1>1, <2>1, <3>1 DEF PlanInv, PlanIsOnCalendar
  <2>5. \A d \in ClClients : clTx'[d].kind = "plan" => d # c /\ clTx'[d] = clTx[d]
    BY <1>4, NoTxFields
  <2>6. (\A d \in ClClients : clTx[d].kind = "plan" =>
          /\ mpPlan.status = "PENDING_APPROVAL"
          /\ clTx[d].person \in BrPeople /\ mpView[clTx[d].person].version = mpPlan.version
          /\ Cardinality(InsertedBy(d)) + Len(clTx[d].todo) = Len(mpPlan.items)
          /\ \A x \in ClClients : clTx[x].kind = "plan" => x = d)'
    BY <1>1, <2>1, <2>3, <2>5 DEF PlanInv
  <2> QED BY <1>1, <2>1, <2>2, <2>4, <2>6 DEF PlanInv
<1> QED BY <1>5, <1>7, <1>8, <1>9, <1>10 DEF PbInv

\* move_calendar_entry: the entry stands at its new hour.
LEMMA MoveCommitted ==
  ASSUME PbInv, NEW c \in ClClients, MoveCommit(c)
  PROVE  PbInv'
<1>e. PICK e : e = clTx[c].entry
  OBVIOUS
<1>row. PICK row : row = [clEntry[e] EXCEPT !.slot = clTx[c].slot, !.overlaps = clTx[c].overlaps,
                                       !.raced = clTx[c].raced]
  OBVIOUS
<1>1. /\ clTx[c].kind = "move" /\ clTx' = TxRaced(c)
      /\ brBrief' = brBrief /\ brView' = brView /\ brDecisions' = brDecisions
      /\ mpPlan' = mpPlan /\ mpView' = mpView
  BY DEF MoveCommit, brVars, mpVars
<1>t. /\ ClTypes /\ BriefInv /\ InsertersAtWork /\ BriefLinked /\ PlanInv /\ PlanTypes /\ SpaceInv /\ MovesFit
      /\ clTx[c] \in CalendarTx /\ \A f \in ClEntries : clEntry[f] \in EntryRow
  BY DEF PbInv, ClTypes, SpaceInv
<1>2. /\ e \in ClEntries /\ clEntry[e].status = "PLANNED" /\ clTx[c].slot \in ClSlots
      /\ ~clTx[c].overlaps /\ ~clTx[c].raced => ~CalendarConflict(clTx[c].slot, Standing \ {e})
  BY <1>e, <1>1, <1>t DEF MovesFit, Standing
<1>3. /\ row \in EntryRow /\ row.status = "PLANNED" /\ row.slot = clTx[c].slot
      /\ row.overlaps = clTx[c].overlaps /\ row.raced = clTx[c].raced
      /\ row.brief = clEntry[e].brief /\ row.version = clEntry[e].version
      /\ row.planned = clEntry[e].planned /\ row.late = clEntry[e].late
  <2>1. clTx[c].slot \in Nat /\ clTx[c].overlaps \in BOOLEAN /\ clTx[c].raced \in BOOLEAN /\ clEntry[e] \in EntryRow
    BY <1>2, <1>t DEF CalendarTx
  <2> QED BY <1>row, <1>2, <2>1 DEF EntryRow
<1>4. \A f \in ClEntries : clEntry[f].status = "INSERTING" => clEntry[f].by \in ClClients /\ clEntry[f].by # c
  BY <1>1, <1>t DEF InsertersAtWork, Placements
<1>5. /\ clEntry'[e] = row
      /\ \A f \in ClEntries : f # e =>
           clEntry'[f] = IF clEntry[f].status = "INSERTING" THEN [clEntry[f] EXCEPT !.raced = TRUE]
                         ELSE clEntry[f]
      /\ DOMAIN clEntry' = ClEntries /\ clEntry' = [f \in ClEntries |-> clEntry'[f]]
  <2>1. PICK moved : moved = [clEntry EXCEPT ![e].slot = clTx[c].slot, ![e].overlaps = clTx[c].overlaps,
                                             ![e].raced = clTx[c].raced]
    OBVIOUS
  <2>2. clEntry' = [f \in ClEntries |-> IF moved[f].status = "INSERTING" /\ moved[f].by # c
                       THEN [moved[f] EXCEPT !.raced = TRUE] ELSE moved[f]]
    BY <1>e, <2>1 DEF MoveCommit, Raced
  <2>3. moved[e] = row /\ \A f \in ClEntries : f # e => moved[f] = clEntry[f]
    BY <1>row, <1>2, <1>t, <2>1 DEF ClTypes
  <2>4. clEntry'[e] = row
    BY <1>2, <1>3, <2>2, <2>3
  <2>5. ASSUME NEW f \in ClEntries, f # e
        PROVE  clEntry'[f] = IF clEntry[f].status = "INSERTING" THEN [clEntry[f] EXCEPT !.raced = TRUE]
                             ELSE clEntry[f]
    BY <1>4, <2>2, <2>3, <2>5
  <2> QED BY <2>2, <2>4, <2>5
<1>6. ASSUME NEW f \in ClEntries
      PROVE  /\ clEntry'[f] \in EntryRow /\ clEntry'[f].status = clEntry[f].status
             /\ clEntry'[f].brief = clEntry[f].brief /\ clEntry'[f].version = clEntry[f].version
             /\ clEntry'[f].planned = clEntry[f].planned /\ clEntry'[f].late = clEntry[f].late
             /\ clEntry[f].status = "INSERTING" =>
                  clEntry'[f].raced /\ clEntry'[f].by = clEntry[f].by /\ clEntry'[f].slot = clEntry[f].slot
             /\ f # e /\ clEntry[f].status # "INSERTING" => clEntry'[f] = clEntry[f]
  <2>1. CASE f = e
    BY <1>2, <1>3, <1>5, <2>1
  <2>2. CASE f # e /\ clEntry[f].status # "INSERTING"
    BY <1>5, <1>t, <2>2
  <2>3. CASE f # e /\ clEntry[f].status = "INSERTING"
    <3>1. clEntry'[f] = [clEntry[f] EXCEPT !.raced = TRUE] /\ clEntry[f] \in EntryRow
      BY <1>5, <1>t, <2>3
    <3>2. clEntry'[f] \in EntryRow /\ clEntry'[f].raced = TRUE /\ clEntry'[f].by = clEntry[f].by
          /\ clEntry'[f].status = clEntry[f].status
      BY <3>1 DEF EntryRow
    <3>3. /\ clEntry'[f].brief = clEntry[f].brief /\ clEntry'[f].version = clEntry[f].version
          /\ clEntry'[f].slot = clEntry[f].slot /\ clEntry'[f].planned = clEntry[f].planned
          /\ clEntry'[f].late = clEntry[f].late
      BY <3>1 DEF EntryRow
    <3> QED BY <2>3, <3>2, <3>3
  <2> QED BY <2>1, <2>2, <2>3
<1>7. /\ clTx' \in [ClClients -> CalendarTx] /\ clTx'[c] = NoTx
      /\ \A d \in ClClients : d # c =>
           /\ clTx'[d].kind = clTx[d].kind /\ clTx'[d].todo = clTx[d].todo
           /\ clTx'[d].brief = clTx[d].brief /\ clTx'[d].kept = clTx[d].kept /\ clTx'[d].person = clTx[d].person
           /\ clTx'[d].entry = clTx[d].entry /\ clTx'[d].slot = clTx[d].slot
           /\ clTx[d].kind = "move" => clTx'[d].raced
  BY <1>1, <1>t, OthersRaced
<1>8. ClTypes' /\ PlanTypes' /\ BriefInv'
  <2>1. ClTypes'
    BY <1>5, <1>6, <1>7 DEF ClTypes
  <2>3. PlanTypes' /\ BriefInv'
    BY <1>1, <1>t DEF BriefInv, BriefTypes, DecisionsSawVersion, ViewsFresh, Earned, Enough, ApproversIn, PlanTypes
  <2> QED BY <2>1, <2>3
<1>9. InsertersAtWork'
  BY <1>4, <1>6, <1>7, <1>t, NoTxFields DEF InsertersAtWork
<1>10. BriefLinked'
  <2>1. BriefLinked /\ brBrief' = brBrief /\ brSince' = brSince
    BY <1>1, <1>t DEF MoveCommit, brVars
  <2>2. ASSUME NEW d \in ClClients PROVE KeptFits(d)' /\ PlacesBrief(d)'
    <3>1. CASE d = c
      BY <1>7, <3>1, NoTxFields DEF KeptFits, PlacesBrief
    <3>2. CASE d # c
      <4>1. clTx'[d].kept = clTx[d].kept /\ clTx'[d].brief = clTx[d].brief /\ KeptFits(d) /\ PlacesBrief(d)
        BY <1>7, <2>1, <3>2 DEF BriefLinked
      <4>2. KeptFits(d)'
        BY <2>1, <4>1 DEF KeptFits
      <4>3. \A x \in ClClients : clTx'[x].brief => clTx[x].brief
        BY <1>7, NoTxFields
      <4>4. \A f \in ClEntries : clEntry[f].status = "INSERTING" =>
              clEntry'[f].status = "INSERTING" /\ clEntry'[f].by = clEntry[f].by /\ clEntry'[f].brief = clEntry[f].brief
        BY <1>6
      <4>5. PlacesBrief(d)'
        BY <2>1, <4>1, <4>3, <4>4 DEF PlacesBrief
      <4> QED BY <4>2, <4>5
    <3> QED BY <3>1, <3>2
  <2>3. ASSUME NEW f \in ClEntries PROVE InsertFits(f)' /\ StandsFor(f)'
    <3>1. /\ InsertFits(f) /\ StandsFor(f) /\ clEntry'[f].status = clEntry[f].status
          /\ clEntry'[f].brief = clEntry[f].brief /\ clEntry'[f].version = clEntry[f].version
          /\ clEntry'[f].late = clEntry[f].late
          /\ clEntry[f].status = "INSERTING" => clEntry'[f].by = clEntry[f].by
      BY <1>6, <2>1 DEF BriefLinked
    <3>2. StandsFor(f)'
      BY <2>1, <3>1 DEF StandsFor
    <3>3. CASE clEntry[f].status = "INSERTING"
      <4>1. PICK d \in ClClients : d = clEntry[f].by /\ d # c
        BY <1>4, <3>3
      <4>2. clTx'[d].brief = clTx[d].brief /\ clTx'[d].kept = clTx[d].kept
        BY <1>7, <4>1
      <4> QED BY <2>1, <3>1, <3>2, <4>1, <4>2 DEF InsertFits
    <3>4. CASE clEntry[f].status # "INSERTING"
      BY <3>1, <3>2, <3>4 DEF InsertFits
    <3> QED BY <3>3, <3>4
  <2>4. \A f \in ClEntries : clEntry[f].status = "PLANNED" =>
          clEntry'[f].status = "PLANNED" /\ clEntry'[f].brief = clEntry[f].brief
    BY <1>6
  <2> QED BY <2>1, <2>2, <2>3, <2>4 DEF BriefLinked
<1>11. SpaceInv'
  <2>1. SlotsKnown'
    <3>1. ASSUME NEW f \in ClEntries, clEntry'[f].status \in {"INSERTING", "PLANNED"}
          PROVE  clEntry'[f].slot \in ClSlots
      <4>1. CASE f = e
        BY <1>2, <1>3, <1>5, <4>1
      <4>2. CASE f # e
        BY <1>6, <1>t, <3>1, <4>2 DEF SpaceInv, SlotsKnown
      <4> QED BY <4>1, <4>2
    <3> QED BY <3>1 DEF SlotsKnown
  <2>2. ASSUME NEW v \in Viewers PROVE SpacedFor(v)'
    <3>1. SpacedFor(v) /\ Standing \ {e} \in SUBSET ClEntries
      BY <1>t DEF SpaceInv, WellSpaced, Standing
    <3>2. ASSUME NEW f \in KeptBy(v)', f # e
          PROVE  f \in KeptBy(v) /\ f \in Standing \ {e} /\ clEntry'[f].slot = clEntry[f].slot
      <4>1. f \in ClEntries /\ ~clEntry'[f].overlaps /\ ~clEntry'[f].raced
            /\ clEntry'[f].status \in {"PLANNED", "INSERTING"}
        BY <3>2 DEF KeptBy, EntriesSeen
      <4>2. clEntry'[f] = clEntry[f] /\ clEntry[f].status = "PLANNED"
        BY <1>6, <3>2, <4>1
      <4> QED BY <3>2, <4>1, <4>2 DEF KeptBy, EntriesSeen, Standing
    <3>3. e \in KeptBy(v)' => ~CalendarConflict(clEntry'[e].slot, Standing \ {e})
      BY <1>2, <1>3, <1>5 DEF KeptBy
    <3> QED BY <1>8, <1>t, <3>1, <3>2, <3>3, StillSpaced
  <2>3. MovesFit'
    <3>1. \A d \in ClClients : clTx[d].kind = "move" => clTx[d].entry \in Standing
      BY <1>t, MoversStand
    <3>2. \A f \in Standing : f \in Standing'
      BY <1>6 DEF Standing
    <3>3. \A d \in ClClients : clTx'[d].kind = "move" => d # c
      BY <1>7, NoTxFields
    <3> QED BY <1>7, <1>t, <3>1, <3>2, <3>3, MovesKept
  <2> QED BY <2>1, <2>2, <2>3 DEF SpaceInv, WellSpaced
<1>12. PlanInv'
  <2>1. \A f \in ClEntries :
          /\ clEntry'[f].status = "INSERTING" => (clEntry'[f].planned <=> clTx'[clEntry'[f].by].kind = "plan")
          /\ clEntry'[f].status = "NONE" => ~clEntry'[f].planned
    BY <1>4, <1>6, <1>7, <1>t DEF PlanInv
  <2>2. \A d \in ClClients : InsertedBy(d)' = InsertedBy(d)
    BY <1>6 DEF InsertedBy
  <2>3. PlanIsOnCalendar'
    <3> DEFINE made == {f \in ClEntries : clEntry[f].planned /\ clEntry[f].status # "INSERTING"}
    <3>1. {f \in ClEntries : clEntry'[f].planned /\ clEntry'[f].status # "INSERTING"} = made
      BY <1>6
    <3> QED BY <1>1, <1>t, <3>1 DEF PlanInv, PlanIsOnCalendar
  <2>4. \A d \in ClClients : clTx'[d].kind = "plan" =>
          clTx[d].kind = "plan" /\ clTx'[d].todo = clTx[d].todo /\ clTx'[d].person = clTx[d].person
    BY <1>7, NoTxFields
  <2>5. (\A d \in ClClients : clTx[d].kind = "plan" =>
          /\ mpPlan.status = "PENDING_APPROVAL"
          /\ clTx[d].person \in BrPeople /\ mpView[clTx[d].person].version = mpPlan.version
          /\ Cardinality(InsertedBy(d)) + Len(clTx[d].todo) = Len(mpPlan.items)
          /\ \A x \in ClClients : clTx[x].kind = "plan" => x = d)'
    BY <1>1, <1>t, <2>2, <2>4 DEF PlanInv
  <2> QED BY <1>1, <1>t, <2>1, <2>3, <2>5 DEF PlanInv
<1> QED BY <1>8, <1>9, <1>10, <1>11, <1>12 DEF PbInv

LEMMA EntryCancelled ==
  ASSUME PbInv, NEW e \in ClEntries, CancelCalendarEntry(e)
  PROVE  PbInv'
<1> DEFINE Last == clEntry[e].brief /\ brBrief.status = "SCHEDULED" /\ RemainingEntries(e) = {}
<1>b. PICK b : b = IF Last THEN [brBrief EXCEPT !.status = "APPROVED"] ELSE brBrief
  OBVIOUS
<1>row. PICK row : row = [NoEntry EXCEPT !.status = "CANCELLED", !.planned = clEntry[e].planned]
  OBVIOUS
<1>1. /\ clEntry[e].status = "PLANNED" /\ EntryFree(e) /\ (clEntry[e].brief => BriefFree)
      /\ clEntry' = [clEntry EXCEPT ![e] = row] /\ BriefUpdated(b)
      /\ brDecisions' = brDecisions /\ clTx' = clTx /\ mpPlan' = mpPlan /\ mpView' = mpView
  BY <1>b, <1>row DEF CancelCalendarEntry, mpVars
<1>t. /\ ClTypes /\ BriefInv /\ InsertersAtWork /\ BriefLinked /\ PlanInv /\ PlanTypes /\ SpaceInv /\ MovesFit
      /\ brBrief \in BriefRow /\ \A f \in ClEntries : clEntry[f] \in EntryRow
  BY DEF PbInv, ClTypes, SpaceInv, BriefInv, BriefTypes
<1>2. row \in EntryRow /\ row.status = "CANCELLED" /\ row.planned = clEntry[e].planned /\ row.brief = FALSE
  <2>1. clEntry[e].planned \in BOOLEAN
    BY <1>t DEF EntryRow
  <2> QED BY <1>row, <2>1 DEF NoEntry, EntryRow, NoSlot
<1>3. clEntry'[e] = row /\ \A f \in ClEntries : f # e => clEntry'[f] = clEntry[f]
  BY <1>1, <1>t DEF ClTypes
<1>4. /\ b \in BriefRow /\ b.version = brBrief.version /\ b.stage = brBrief.stage
      /\ Last => b.status = "APPROVED" /\ brBrief.status = "SCHEDULED"
      /\ ~Last => b = brBrief
  BY <1>b, <1>t DEF BriefRow, BriefStatuses
<1> HIDE DEF Last
<1>5. BriefInv' /\ brBrief' = b
  <2>1. Earned(b.status, b.stage, b.version)
    BY <1>4, <1>t DEF BriefInv, Earned
  <2> QED BY <1>1, <1>4, <1>t, <2>1, BriefMoves
<1>6. ClTypes' /\ PlanTypes' /\ InsertersAtWork'
  <2>1. ClTypes'
    BY <1>1, <1>2, <1>t DEF ClTypes
  <2>2. InsertersAtWork'
    BY <1>1, <1>2, <1>3, <1>t DEF InsertersAtWork
  <2> QED BY <1>1, <1>t, <2>1, <2>2 DEF PlanTypes
<1>7. BriefLinked'
  <2>1. BriefLinked /\ clTx' = clTx /\ \A d \in brSince' : d \in brSince /\ brBrief' = brBrief
    BY <1>1, <1>t, SinceUpdated
  <2>2. ASSUME NEW d \in ClClients PROVE KeptFits(d)' /\ PlacesBrief(d)'
    <3>1. KeptFits(d) /\ PlacesBrief(d)
      BY <2>1 DEF BriefLinked
    <3>2. KeptFits(d)'
      BY <1>4, <1>5, <2>1, <3>1 DEF KeptFits
    <3>3. PlacesBrief(d)'
      <4>1. CASE clTx[d].brief
        <5>1. PICK f \in ClEntries : clEntry[f].status = "INSERTING" /\ clEntry[f].by = d /\ clEntry[f].brief
          BY <3>1, <4>1 DEF PlacesBrief
        <5>2. clEntry'[f] = clEntry[f]
          BY <1>1, <1>3, <5>1
        <5>3. ~Last
          BY <1>1, <4>1 DEF Last, BriefFree
        <5> QED BY <1>4, <1>5, <2>1, <3>1, <4>1, <5>1, <5>2, <5>3 DEF PlacesBrief
      <4>2. CASE ~clTx[d].brief
        BY <2>1, <4>2 DEF PlacesBrief
      <4> QED BY <4>1, <4>2
    <3> QED BY <3>2, <3>3
  <2>3. ASSUME NEW f \in ClEntries PROVE InsertFits(f)' /\ StandsFor(f)'
    <3>1. CASE f = e
      BY <1>2, <1>3, <3>1 DEF InsertFits, StandsFor
    <3>2. CASE f # e
      <4>1. clEntry'[f] = clEntry[f] /\ InsertFits(f) /\ StandsFor(f)
        BY <1>3, <2>1, <3>2 DEF BriefLinked
      <4>2. clEntry[f].status = "PLANNED" /\ clEntry[f].brief => ~Last
        BY <3>2 DEF Last, RemainingEntries
      <4>3. StandsFor(f)'
        BY <1>4, <1>5, <4>1, <4>2 DEF StandsFor
      <4>4. clEntry[f].status = "INSERTING" /\ clEntry[f].brief => ~Last
        <5>1. clEntry[f].status = "INSERTING" /\ clEntry[f].brief => clTx[clEntry[f].by].brief /\ clEntry[f].by \in ClClients
          BY <1>t, <4>1 DEF InsertFits, InsertersAtWork
        <5> QED BY <1>1, <5>1 DEF Last, BriefFree
      <4>5. InsertFits(f)'
        BY <1>4, <1>5, <2>1, <4>1, <4>4 DEF InsertFits
      <4> QED BY <4>3, <4>5
    <3> QED BY <3>1, <3>2
  <2>5. ASSUME b.status = "SCHEDULED"
        PROVE  \E f \in ClEntries : clEntry'[f].brief /\ clEntry'[f].status = "PLANNED"
    <3>1. ~Last /\ brBrief.status = "SCHEDULED"
      BY <1>4, <2>5
    <3>2. PICK f \in ClEntries : f # e /\ clEntry[f].brief /\ clEntry[f].status = "PLANNED"
      <4>1. CASE clEntry[e].brief
        BY <3>1, <4>1 DEF Last, RemainingEntries
      <4>2. CASE ~clEntry[e].brief
        BY <2>1, <3>1, <4>2 DEF BriefLinked
      <4> QED BY <4>1, <4>2
    <3> QED BY <1>3, <3>2
  <2> QED BY <1>5, <2>2, <2>3, <2>5 DEF BriefLinked
<1>8. SpaceInv'
  <2>1. SlotsKnown'
    BY <1>2, <1>3, <1>t DEF SpaceInv, SlotsKnown
  <2>2. ASSUME NEW v \in Viewers PROVE SpacedFor(v)'
    <3>1. SpacedFor(v)
      BY <1>t DEF SpaceInv, WellSpaced
    <3>2. \A f \in KeptBy(v)' : f \in KeptBy(v) /\ clEntry'[f].slot = clEntry[f].slot
      BY <1>2, <1>3 DEF KeptBy, EntriesSeen
    <3> QED BY <1>6, <1>t, <3>1, <3>2, FewerSpaced
  <2>3. MovesFit'
    <3>1. \A d \in ClClients : clTx[d].kind = "move" => clTx[d].entry \in Standing /\ clTx[d].entry # e
      BY <1>1, <1>t, MoversStand DEF EntryFree
    <3>2. \A f : f \in Standing' <=> f \in Standing /\ f # e
      BY <1>2, <1>3 DEF Standing
    <3>3. \A f \in Standing' : f \in Standing /\ clEntry'[f].slot = clEntry[f].slot
      BY <1>3, <3>2 DEF Standing
    <3> QED BY <1>1, <1>t, <3>1, <3>2, <3>3, MovesKept
  <2> QED BY <2>1, <2>2, <2>3 DEF SpaceInv, WellSpaced
<1>9. PlanInv'
  <2>1. \A f \in ClEntries :
          /\ clEntry'[f].status = "INSERTING" => (clEntry'[f].planned <=> clTx'[clEntry'[f].by].kind = "plan")
          /\ clEntry'[f].status = "NONE" => ~clEntry'[f].planned
    BY <1>1, <1>2, <1>3, <1>t DEF PlanInv
  <2>2. \A d \in ClClients : InsertedBy(d)' = InsertedBy(d)
    BY <1>1, <1>2, <1>3 DEF InsertedBy
  <2>3. PlanIsOnCalendar'
    <3> DEFINE made == {f \in ClEntries : clEntry[f].planned /\ clEntry[f].status # "INSERTING"}
    <3>1. {f \in ClEntries : clEntry'[f].planned /\ clEntry'[f].status # "INSERTING"} = made
      BY <1>1, <1>2, <1>3
    <3> QED BY <1>1, <1>t, <3>1 DEF PlanInv, PlanIsOnCalendar
  <2>5. (\A d \in ClClients : clTx[d].kind = "plan" =>
          /\ mpPlan.status = "PENDING_APPROVAL"
          /\ clTx[d].person \in BrPeople /\ mpView[clTx[d].person].version = mpPlan.version
          /\ Cardinality(InsertedBy(d)) + Len(clTx[d].todo) = Len(mpPlan.items)
          /\ \A x \in ClClients : clTx[x].kind = "plan" => x = d)'
    BY <1>1, <1>t, <2>2 DEF PlanInv
  <2> QED BY <1>1, <1>t, <2>1, <2>3, <2>5 DEF PlanInv
<1> QED BY <1>5, <1>6, <1>7, <1>8, <1>9 DEF PbInv

\* A request about the proposal while no request is placing its entries.
LEMMA ProposalChanges ==
  ASSUME PbInv, NEW plans \in SUBSET Seq(ClItems),
         \/ \E items \in plans : CreateMonthlyProposal(items)
         \/ \E p \in BrPeople :
              \/ GetMonthlyProposal(p) \/ RejectMonthlyProposal(p)
              \/ \E items \in plans : ReviseMonthlyProposal(p, items)
  PROVE  PbInv'
<1>1. clEntry' = clEntry /\ clTx' = clTx /\ brBrief' = brBrief /\ brView' = brView /\ brDecisions' = brDecisions
      /\ brSince' = brSince
  BY DEF CreateMonthlyProposal, GetMonthlyProposal, RejectMonthlyProposal, ReviseMonthlyProposal, brVars, clVars
<1>t. PlanInv /\ PlanTypes /\ mpPlan \in PlanRow /\ mpView \in [BrPeople -> ViewRow] /\ mpPlan.version \in Nat
  BY DEF PbInv, PlanTypes, PlanRow
<1>2. BriefInv' /\ BriefLinked' /\ ClTypes' /\ InsertersAtWork'
  <2>1. BriefInv'
    BY <1>1 DEF PbInv, BriefInv, BriefTypes, DecisionsSawVersion, ViewsFresh, Earned, Enough, ApproversIn
  <2>2. BriefLinked' /\ ClTypes' /\ InsertersAtWork'
    BY <1>1, LinkRests DEF PbInv, ClTypes, InsertersAtWork
  <2> QED BY <2>1, <2>2
<1>3. SpaceInv'
  BY <1>1 DEF PbInv, SpaceInv, SlotsKnown, WellSpaced, SpacedFor, KeptBy, EntriesSeen, OnDay, MovesFit,
              Standing, CalendarConflict
<1>4. \A f \in ClEntries :
        /\ clEntry'[f].status = "INSERTING" => (clEntry'[f].planned <=> clTx'[clEntry'[f].by].kind = "plan")
        /\ clEntry'[f].status = "NONE" => ~clEntry'[f].planned
  BY <1>1, <1>t DEF PlanInv
<1>5. ASSUME NEW p \in BrPeople, GetMonthlyProposal(p) PROVE PbInv'
  <2>1. mpPlan' = mpPlan /\ mpView' = [mpView EXCEPT ![p] = [version |-> mpPlan.version, fresh |-> TRUE]]
        /\ mpPlan.status # "NONE"
    BY <1>5 DEF GetMonthlyProposal
  <2>2. mpView' \in [BrPeople -> ViewRow]
    BY <1>t, <2>1 DEF ViewRow
  <2>3. \A q \in BrPeople : /\ mpView'[q].fresh => mpView'[q].version = mpPlan.version
                            /\ mpView[q].version = mpPlan.version => mpView'[q].version = mpPlan.version
    BY <1>t, <2>1 DEF PlanInv
  <2>4. PlanIsOnCalendar'
    BY <1>1, <1>t, <2>1 DEF PlanInv, PlanIsOnCalendar
  <2>5. \A d \in ClClients : InsertedBy(d)' = InsertedBy(d)
    BY <1>1 DEF InsertedBy
  <2>6. (\A d \in ClClients : clTx[d].kind = "plan" =>
          /\ mpPlan.status = "PENDING_APPROVAL"
          /\ clTx[d].person \in BrPeople /\ mpView[clTx[d].person].version = mpPlan.version
          /\ Cardinality(InsertedBy(d)) + Len(clTx[d].todo) = Len(mpPlan.items)
          /\ \A x \in ClClients : clTx[x].kind = "plan" => x = d)'
    BY <1>1, <1>t, <2>1, <2>3, <2>5 DEF PlanInv
  <2>7. PlanInv'
    BY <1>4, <2>1, <2>3, <2>4, <2>6 DEF PlanInv
  <2> QED BY <1>2, <1>3, <1>t, <2>1, <2>2, <2>7 DEF PbInv, PlanTypes
<1>6. ASSUME mpPlan' \in PlanRow, mpPlan'.status # "APPROVED", mpPlan.status # "APPROVED", PlanFree,
             mpView' \in [BrPeople -> ViewRow],
             \A p \in BrPeople : mpView'[p].fresh => mpView'[p].version = mpPlan'.version /\ mpPlan'.status # "NONE"
      PROVE  PbInv'
  <2>1. \A d \in ClClients : clTx'[d].kind # "plan"
    BY <1>1, <1>6 DEF PlanFree
  <2>2. PlanIsOnCalendar'
    BY <1>1, <1>t, <1>6 DEF PlanInv, PlanIsOnCalendar
  <2>3. PlanInv'
    BY <1>4, <1>6, <2>1, <2>2 DEF PlanInv
  <2> QED BY <1>2, <1>3, <1>6, <2>3 DEF PbInv, PlanTypes
<1>s. Stale(mpView) \in [BrPeople -> ViewRow] /\ \A q \in BrPeople : ~Stale(mpView)[q].fresh
  BY <1>t DEF Stale, ViewRow
<1>7. ASSUME NEW p \in BrPeople, RejectMonthlyProposal(p) PROVE PbInv'
  <2>1. mpPlan' = [mpPlan EXCEPT !.status = "REJECTED"] /\ mpView' = Stale(mpView) /\ PlanFree
        /\ mpPlan.status = "PENDING_APPROVAL"
    BY <1>7 DEF RejectMonthlyProposal
  <2>2. mpPlan' \in PlanRow /\ mpPlan'.status = "REJECTED"
    BY <1>t, <2>1 DEF PlanRow
  <2> QED BY <1>6, <1>s, <2>1, <2>2
<1>8. ASSUME NEW p \in BrPeople, NEW items \in plans, ReviseMonthlyProposal(p, items) PROVE PbInv'
  <2>1. mpPlan' = [mpPlan EXCEPT !.version = @ + 1, !.items = items] /\ mpView' = Stale(mpView) /\ PlanFree
        /\ mpPlan.status = "PENDING_APPROVAL"
    BY <1>8 DEF ReviseMonthlyProposal
  <2>2. mpPlan' \in PlanRow /\ mpPlan'.status = "PENDING_APPROVAL"
    <3>1. mpPlan.version + 1 \in Nat /\ items \in Seq(ClItems)
      BY <1>t
    <3> QED BY <1>t, <2>1, <3>1 DEF PlanRow
  <2> QED BY <1>6, <1>s, <2>1, <2>2
<1>9. ASSUME NEW items \in plans, CreateMonthlyProposal(items) PROVE PbInv'
  <2>1. mpPlan' = [status |-> "PENDING_APPROVAL", version |-> 1, items |-> items, seen |-> 0]
        /\ mpView' = mpView /\ mpPlan.status = "NONE"
    BY <1>9 DEF CreateMonthlyProposal
  <2>2. mpPlan' \in PlanRow /\ mpPlan'.status = "PENDING_APPROVAL" /\ mpPlan'.version = 1
    BY <2>1 DEF PlanRow
  <2>3. PlanFree
    BY <1>t, <2>1 DEF PlanInv, PlanFree
  <2>4. \A p \in BrPeople : ~mpView[p].fresh
    BY <1>t, <2>1 DEF PlanInv
  <2> QED BY <1>6, <1>t, <2>1, <2>2, <2>3, <2>4
<1> QED BY <1>5, <1>7, <1>8, <1>9

LEMMA PbStep ==
  ASSUME NEW plans \in SUBSET Seq(ClItems), PbInv, [PbNext(plans)]_pbVars PROVE PbInv'
<1>1. CASE UNCHANGED pbVars
  <2>1. UNCHANGED <<clVars, mpVars>> /\ brBrief' = brBrief /\ brView' = brView /\ brDecisions' = brDecisions
        /\ clEntry' = clEntry /\ clTx' = clTx /\ brSince' = brSince
    BY <1>1 DEF pbVars, brVars, clVars, mpVars
  <2>2. BriefInv'
    BY <2>1 DEF PbInv, BriefInv, BriefTypes, DecisionsSawVersion, ViewsFresh, Earned, Enough, ApproversIn
  <2>3. BriefLinked'
    BY <2>1, LinkRests DEF PbInv
  <2> QED BY <2>1, <2>2, <2>3, BriefRests
<1>2. CASE BriefRequest
  BY <1>2, BriefViewed, BriefWritten, BriefDecides DEF BriefRequest
<1>3. CASE CalendarRequest
  <2>2. ASSUME NEW c \in ClClients, NEW resolution \in Resolutions, NEW item \in ClItems, item.slot < ClMaxSlot,
               RecurrenceStart(c, <<item, [item EXCEPT !.slot = @ + 1]>>, resolution)
        PROVE  PbInv'
    <3>1. [item EXCEPT !.slot = @ + 1] \in ClItems
      <4>1. item.slot + 1 \in ClSlots
        BY <2>2, PbNumbers DEF ClItems, ClSlots
      <4> QED BY <4>1 DEF ClItems
    <3>2. <<item, [item EXCEPT !.slot = @ + 1]>> \in Seq(ClItems)
      BY <3>1
    <3> QED BY <2>2, <3>2, RecurrenceBegins
  <2> QED BY <1>3, <2>2, PlacementBegins, MoveBegins, EntryCancelled DEF CalendarRequest
<1>4. CASE CalendarStep
  BY <1>4, PlacementCommitted, MoveCommitted, PlacementRolledBack, EntryPlaced DEF CalendarStep
<1>5. CASE ProposalRequest(plans)
  BY <1>5, ProposalChanges, PlanBegins DEF ProposalRequest
<1> QED BY <1>1, <1>2, <1>3, <1>4, <1>5 DEF PbNext

LEMMA PbInitially == PbInit(NewBrief, {}) => PbInv
<1> SUFFICES ASSUME PbInit(NewBrief, {}) PROVE PbInv
  OBVIOUS
<1>1. /\ brBrief = NewBrief /\ brDecisions = {} /\ mpPlan = NoPlan
      /\ brView = [p \in BrPeople |-> NoView] /\ mpView = [p \in BrPeople |-> NoView]
      /\ clEntry = [e \in ClEntries |-> NoEntry] /\ clTx = [c \in ClClients |-> NoTx]
  BY DEF PbInit
<1>2. NoView \in ViewRow /\ ~NoView.fresh
  BY DEF NoView, ViewRow
<1>3. NoEntry \in EntryRow /\ NoEntry.status = "NONE" /\ NoEntry.planned = FALSE
  BY DEF NoEntry, EntryRow, NoSlot
<1>4. \A e \in ClEntries : clEntry[e].status = "NONE" /\ ~clEntry[e].planned
  BY <1>1, <1>3
<1>5. \A c \in ClClients : clTx[c] = NoTx
  BY <1>1
<1>6. NewBrief \in BriefRow /\ NewBrief.status = "DRAFT"
  BY DEF NewBrief, BriefRow, BriefStatuses
<1>7. BriefInv
  <2>1. BriefTypes
    BY <1>1, <1>2, <1>6, FS_EmptySet DEF BriefTypes
  <2>2. ViewsFresh /\ DecisionsSawVersion
    BY <1>1, <1>2 DEF ViewsFresh, DecisionsSawVersion
  <2>3. Earned(brBrief.status, brBrief.stage, brBrief.version)
    BY <1>1, <1>6 DEF Earned
  <2> QED BY <2>1, <2>2, <2>3 DEF BriefInv
<1>8. ClTypes /\ InsertersAtWork
  BY <1>1, <1>3, <1>4, <1>5, NoTxFields DEF ClTypes, InsertersAtWork
<1>9. BriefLinked
  <2>1. \A c \in ClClients : KeptFits(c) /\ PlacesBrief(c)
    BY <1>5, NoTxFields DEF KeptFits, PlacesBrief
  <2>2. \A e \in ClEntries : InsertFits(e) /\ StandsFor(e)
    BY <1>4 DEF InsertFits, StandsFor
  <2> QED BY <1>1, <1>6, <2>1, <2>2 DEF BriefLinked
<1>10. SpaceInv
  <2>1. \A v \in Viewers : KeptBy(v) = {}
    BY <1>4 DEF KeptBy, EntriesSeen
  <2>2. \A s : OnDay({}, s) = {}
    BY DEF OnDay
  <2>3. \A v \in Viewers : SpacedFor(v)
    <3>1. Cardinality({}) = 0
      BY FS_EmptySet
    <3>2. ASSUME NEW v \in Viewers PROVE SpacedFor(v)
      <4>1. KeptBy(v) = {}
        BY <2>1
      <4>2. \A s : Cardinality(OnDay(KeptBy(v), s)) <= ClMaxPerDay
        BY <2>2, <3>1, <4>1, Limits
      <4> QED BY <4>1, <4>2 DEF SpacedFor
    <3> QED BY <3>2
  <2> QED BY <1>4, <1>5, <2>3, NoTxFields DEF SpaceInv, SlotsKnown, WellSpaced, MovesFit
<1>11. PlanTypes /\ PlanInv
  <2>1. NoPlan \in PlanRow /\ NoPlan.status = "NONE"
    BY DEF NoPlan, PlanRow
  <2>2. PlanIsOnCalendar
    BY <1>1, <1>4, <2>1 DEF PlanIsOnCalendar
  <2> QED BY <1>1, <1>2, <1>4, <1>5, <2>1, <2>2, NoTxFields DEF PlanTypes, PlanInv
<1> QED BY <1>7, <1>8, <1>9, <1>10, <1>11 DEF PbInv

\* The invariant says what planning promises.
LEMMA PlanningHolds == PbInv => PlanningPromise
<1> SUFFICES ASSUME PbInv PROVE PlanningPromise
  OBVIOUS
<1>1. DecisionsSawVersion /\ BriefApprovalIsEarned
  <2>1. \A s : ApprovalsOf(s) = ApproversIn(brBrief.version, s)
    BY DEF ApprovalsOf, ApproversIn
  <2> QED BY <2>1 DEF PbInv, BriefInv, BriefApprovalIsEarned, Earned, Enough
<1>2. EntriesShowCurrentVersion /\ ScheduledHasEntry
  <2>1. /\ \A e \in ClEntries : StandsFor(e)
        /\ brBrief.status = "SCHEDULED" =>
             \E e \in ClEntries : clEntry[e].brief /\ clEntry[e].status = "PLANNED"
    BY DEF PbInv, BriefLinked
  <2>2. EntriesShowCurrentVersion
    BY <2>1 DEF StandsFor, EntriesShowCurrentVersion
  <2> QED BY <2>1, <2>2 DEF StandsFor, ScheduledHasEntry
<1>3. SpacingKept
  <2>0. PICK kept : kept = {e \in ClEntries : clEntry[e].status = "PLANNED" /\ ~clEntry[e].overlaps
                                               /\ ~clEntry[e].raced}
    OBVIOUS
  <2>v. PICK v \in Viewers : TRUE
    BY DEF Viewers
  <2>1. SpacedFor(v)
    BY DEF PbInv, SpaceInv, WellSpaced
  <2>2. kept \subseteq KeptBy(v) /\ KeptBy(v) \in SUBSET ClEntries
    BY <2>0 DEF KeptBy, EntriesSeen
  <2>3. ASSUME NEW s \in ClSlots PROVE Cardinality(OnDay(kept, s)) <= ClMaxPerDay
    <3>1. OnDay(kept, s) \subseteq OnDay(KeptBy(v), s) /\ OnDay(KeptBy(v), s) \in SUBSET ClEntries
      BY <2>2 DEF OnDay
    <3>2. Cardinality(OnDay(KeptBy(v), s)) <= ClMaxPerDay
      BY <2>1 DEF SpacedFor
    <3>3. /\ Cardinality(OnDay(kept, s)) <= Cardinality(OnDay(KeptBy(v), s))
          /\ Cardinality(OnDay(kept, s)) \in Nat /\ Cardinality(OnDay(KeptBy(v), s)) \in Nat
      BY <3>1, EntrySets, FS_Subset
    <3> QED BY <3>2, <3>3, Limits
  <2>4. \A e \in kept, f \in kept : e # f => Gap(clEntry[e].slot, clEntry[f].slot) >= ClSpacing
    BY <2>1, <2>2 DEF SpacedFor
  <2> QED BY <2>0, <2>3, <2>4 DEF SpacingKept
<1> QED BY <1>1, <1>2, <1>3 DEF PbInv, PlanInv, PlanningPromise

\* PlanningService: for any number of people, requests, entries and stages, decisions are
\* about the version that was read, an approved brief has earned it, and the calendar, the
\* brief and the monthly plan agree whatever is under way at once.
THEOREM PlanningKeepsItsPromise ==
  ASSUME NEW CONSTANT plans \in SUBSET Seq(ClItems)
  PROVE  PbSpec(plans) => []PlanningPromise
<1>1. PbInv /\ [PbNext(plans)]_pbVars => PbInv'
  BY PbStep
<1>2. PbSpec(plans) => []PbInv
  BY PbInitially, <1>1, PTL DEF PbSpec
<1> QED BY <1>2, PlanningHolds, PTL

-----------------------------------------------------------------------------
(* Versions and approvals.                                                 *)

QStatuses == {"NONE", "PENDING", "APPROVED", "REJECTED", "CHANGES_REQUESTED", "EXPIRED",
              "INVALIDATED", "SUPERSEDED"}
QVersionRows == [text : QTexts, parent : Nat, base : Nat]
QAssessmentRows == [version : Nat, blocking : SUBSET QEvents]
QRequestRows ==
  [status : QStatuses, version : Nat, assessment : Nat, stage : QStages, late : BOOLEAN,
   approved : [QStages -> SUBSET QPeople], seen : SUBSET Nat]

CaTypes ==
  /\ qVersions \in Seq(QVersionRows) /\ Current > 0
  /\ qContext \in Nat /\ qBase \in [QEditors -> Nat]
  /\ qAssess \in [QAssessments -> QAssessmentRows] /\ qOverridden \subseteq QEvents
  /\ qReq \in [QRequests -> QRequestRows]
  /\ qDecide \in [QPeople -> QRequests \cup {NoRow}]

\* A transaction that adds a version adds it to the version its author opened.
EditSawCurrent ==
  qEdit.kind = "version" =>
    /\ qEdit.text \in QTexts
    /\ qEdit.by = Worker \/ (qEdit.by \in QEditors /\ qBase[qEdit.by] = Current)

\* The assessment is of this version and nothing in it blocks an approval.
AssessedFor(a, v) ==
  /\ a \in QAssessments /\ v \in Nat \ {0}
  /\ qAssess[a].version = v /\ qAssess[a].blocking \subseteq QSoft \cap qOverridden

QuorumIn(row, s) == Cardinality(row.approved[s]) >= QQuorum[s]

\* An open request has what its past stages need, and an approved one all it needs.
OpenRowOk(row) ==
  row.status \in OpenStatuses =>
    /\ AssessedFor(row.assessment, row.version)
    /\ row.seen \subseteq {qContext}
    /\ \A s \in QStages : s < row.stage => QuorumIn(row, s)
    /\ row.status = "APPROVED" =>
         row.version = Current /\ row.seen = {qContext} /\ \A s \in QStages : QuorumIn(row, s)

OpenRequestsOk == \A r \in QRequests : OpenRowOk(qReq[r])

\* A request being made has its row to itself, and the row it replaces.
AskOk ==
  qAsk # NotAsking =>
    /\ qAsk.request \in QRequests /\ qReq[qAsk.request].status = "NONE"
    /\ AssessedFor(qAsk.assessment, qAsk.version)
    /\ qAsk.old \in QRequests \cup {NoRow} /\ qAsk.old # qAsk.request

\* A row that is being decided is pending and has one decider.
DecideOk ==
  \A p \in QPeople : qDecide[p] # NoRow =>
    /\ qReq[qDecide[p]].status = "PENDING"
    /\ qAsk.old # qDecide[p]
    /\ \A o \in QPeople : qDecide[o] = qDecide[p] => o = p

CaInv ==
  /\ CaTypes /\ SavesSawCurrent /\ EditSawCurrent
  /\ OpenRequestsOk /\ AskOk /\ DecideOk

CaStepKept == CaInv' /\ RefusalIsFinal

LEMMA QRowNames ==
  /\ NoRow \notin QRequests /\ NoRow \notin QAssessments /\ 1 \in QStages
  /\ QStages = 1..Len(QQuorum) /\ Len(QQuorum) \in Nat
BY QNumbers DEF NoRow, QRequests, QAssessments, QStages

LEMMA NoApprovalRow ==
  /\ NoApproval \in QRequestRows /\ NoApproval.status = "NONE" /\ NoApproval.stage = 1
  /\ NoApproval.seen = {}
BY QRowNames DEF NoApproval, QRequestRows, QStatuses, NoVersion, NoRow

LEMMA CaInitially == CaInit => CaInv
<1> SUFFICES ASSUME CaInit PROVE CaInv
  OBVIOUS
<1>1. PICK t \in QTexts : qVersions = <<[text |-> t, parent |-> NoVersion, base |-> NoVersion]>>
  BY DEF CaInit
<1>2. PICK first : first = [text |-> t, parent |-> NoVersion, base |-> NoVersion]
  OBVIOUS
<1>3. first \in QVersionRows /\ first.base = first.parent
  BY <1>2 DEF QVersionRows, NoVersion
<1>4. qVersions = <<first>>
  BY <1>1, <1>2
<1>5. qVersions \in Seq(QVersionRows) /\ Len(qVersions) = 1 /\ DOMAIN qVersions = {1} /\ qVersions[1] = first
  BY <1>3, <1>4
<1>6. SavesSawCurrent
  BY <1>3, <1>5 DEF SavesSawCurrent
<1>7. /\ qReq \in [QRequests -> QRequestRows] /\ \A r \in QRequests : qReq[r].status = "NONE"
      /\ qDecide \in [QPeople -> QRequests \cup {NoRow}] /\ \A p \in QPeople : qDecide[p] = NoRow
  BY NoApprovalRow DEF CaInit
<1>8. NoAssessment \in QAssessmentRows
  BY DEF NoAssessment, QAssessmentRows, NoVersion
<1>9. CaTypes
  BY <1>5, <1>7, <1>8 DEF CaInit, CaTypes, Current, NoVersion
<1>10. EditSawCurrent /\ AskOk
  BY DEF CaInit, EditSawCurrent, AskOk, NotEditing
<1>11. OpenRequestsOk
  BY <1>7 DEF OpenRequestsOk, OpenRowOk, OpenStatuses
<1>12. DecideOk
  BY <1>7 DEF DecideOk
<1> QED BY <1>6, <1>9, <1>10, <1>11, <1>12 DEF CaInv

\* What was assessed stays assessed.
LEMMA AssessedStays ==
  ASSUME NEW a, NEW v, AssessedFor(a, v), qAssess[a] = qAssess'[a], qOverridden \subseteq qOverridden'
  PROVE  AssessedFor(a, v)'
BY DEF AssessedFor

LEMMA AssessmentsStay ==
  ASSUME qAssess' = qAssess, qOverridden' = qOverridden
  PROVE  \A a, v : AssessedFor(a, v)' <=> AssessedFor(a, v)
BY DEF AssessedFor

\* A row that is open, or still not, under what can be said of it now.
LEMMA OpenRowStays ==
  ASSUME NEW row, OpenRowOk(row), qContext' = qContext, Current' = Current,
         AssessedFor(row.assessment, row.version) => AssessedFor(row.assessment, row.version)'
  PROVE  OpenRowOk(row)'
BY DEF OpenRowOk, QuorumIn

\* A step that touches no request row.
LEMMA RequestsStay ==
  ASSUME CaInv, qReq' = qReq, qContext' = qContext, Current' = Current,
         \A a, v : AssessedFor(a, v) => AssessedFor(a, v)'
  PROVE  OpenRequestsOk' /\ RefusalIsFinal
<1>1. ASSUME NEW r \in QRequests PROVE OpenRowOk(qReq[r])'
  <2>1. PICK row : row = qReq[r]
    OBVIOUS
  <2>2. OpenRowOk(row)
    BY <2>1 DEF CaInv, OpenRequestsOk
  <2>3. OpenRowOk(row)'
    BY <2>2, OpenRowStays
  <2> QED BY <2>1, <2>3
<1>2. OpenRequestsOk'
  BY <1>1 DEF OpenRequestsOk
<1>3. RefusalIsFinal
  BY DEF RefusalIsFinal
<1> QED BY <1>2, <1>3

\* A step that leaves the rows and locks of approvals alone.
LEMMA ApprovalsStay ==
  ASSUME CaInv, UNCHANGED qApprovalVars, qContext' = qContext, Current' = Current,
         \A a, v : AssessedFor(a, v) => AssessedFor(a, v)'
  PROVE  OpenRequestsOk' /\ AskOk' /\ DecideOk' /\ RefusalIsFinal
<1>1. qReq' = qReq /\ qAsk' = qAsk /\ qDecide' = qDecide
  BY DEF qApprovalVars
<1>2. OpenRequestsOk' /\ RefusalIsFinal
  BY <1>1, RequestsStay
<1>3. AskOk'
  BY <1>1 DEF CaInv, AskOk
<1>4. DecideOk'
  BY <1>1 DEF CaInv, DecideOk
<1> QED BY <1>2, <1>3, <1>4

LEMMA OpenVersionKept == ASSUME CaInv, NEW e \in QEditors, OpenVersion(e) PROVE CaStepKept
<1>1. /\ qVersions' = qVersions /\ qContext' = qContext /\ qEdit' = qEdit /\ qAssess' = qAssess
      /\ qOverridden' = qOverridden /\ UNCHANGED qApprovalVars /\ Current' = Current
      /\ qBase' = [qBase EXCEPT ![e] = Current]
  BY DEF OpenVersion, qAssessVars, Current
<1>2. OpenRequestsOk' /\ AskOk' /\ DecideOk' /\ RefusalIsFinal
  BY <1>1, AssessmentsStay, ApprovalsStay
<1>3. CaTypes' /\ SavesSawCurrent'
  BY <1>1 DEF CaInv, CaTypes, SavesSawCurrent, Current, qApprovalVars
<1>4. EditSawCurrent'
  BY <1>1 DEF CaInv, CaTypes, EditSawCurrent
<1> QED BY <1>2, <1>3, <1>4 DEF CaStepKept, CaInv

\* The steps that only begin, end or undo a transaction on the content.
LEMMA EditBegins ==
  ASSUME CaInv, UNCHANGED <<qVersions, qContext, qBase, qAssessVars, qApprovalVars>>, EditSawCurrent'
  PROVE  CaStepKept
<1>1. /\ qVersions' = qVersions /\ qContext' = qContext /\ qAssess' = qAssess /\ qBase' = qBase
      /\ qOverridden' = qOverridden /\ UNCHANGED qApprovalVars /\ Current' = Current
  BY DEF qAssessVars, Current
<1>2. OpenRequestsOk' /\ AskOk' /\ DecideOk' /\ RefusalIsFinal
  BY <1>1, AssessmentsStay, ApprovalsStay
<1>3. CaTypes' /\ SavesSawCurrent'
  BY <1>1 DEF CaInv, CaTypes, SavesSawCurrent, Current, qApprovalVars
<1> QED BY <1>2, <1>3 DEF CaStepKept, CaInv

LEMMA EditStartKept ==
  ASSUME CaInv, NEW kind, NEW text, NEW by, EditStart(kind, text, by),
         kind = "version" =>
           text \in QTexts /\ (by = Worker \/ (by \in QEditors /\ AssertCurrentVersion(by)))
  PROVE  CaStepKept
<1>1. /\ qEdit' = [kind |-> kind, text |-> text, by |-> by] /\ qVersions' = qVersions /\ qBase' = qBase
      /\ UNCHANGED <<qVersions, qContext, qBase, qAssessVars, qApprovalVars>>
  BY DEF EditStart
<1>2. qEdit'.kind = kind /\ qEdit'.text = text /\ qEdit'.by = by /\ Current' = Current
  BY <1>1 DEF Current
<1>3. EditSawCurrent'
  BY <1>1, <1>2 DEF EditSawCurrent, AssertCurrentVersion
<1> QED BY <1>1, <1>3, EditBegins

LEMMA BeginningsKept ==
  ASSUME CaInv,
         \/ \E e \in QEditors :
              \/ UpdateContent(e) \/ \E t \in QTexts : CreateVersion(e, t)
              \/ \E v \in 1..QMaxVersions : RestoreVersion(e, v)
         \/ \E t \in QTexts : FinalizeForReview(t)
         \/ SoftDeleteContent \/ EditRolledBack
  PROVE  CaStepKept
<1>1. ASSUME NEW e \in QEditors, UpdateContent(e) PROVE CaStepKept
  BY <1>1, EditStartKept DEF UpdateContent
<1>2. ASSUME NEW e \in QEditors, NEW t \in QTexts, CreateVersion(e, t) PROVE CaStepKept
  BY <1>2, EditStartKept DEF CreateVersion
<1>3. ASSUME NEW e \in QEditors, NEW v, RestoreVersion(e, v) PROVE CaStepKept
  <2>1. AssertCurrentVersion(e) /\ EditStart("version", qVersions[v].text, e) /\ v \in DOMAIN qVersions
    BY <1>3 DEF RestoreVersion
  <2>2. qVersions[v] \in QVersionRows
    BY <2>1 DEF CaInv, CaTypes
  <2>3. qVersions[v].text \in QTexts
    BY <2>2 DEF QVersionRows
  <2> QED BY <2>1, <2>3, EditStartKept
<1>4. ASSUME NEW t \in QTexts, FinalizeForReview(t) PROVE CaStepKept
  BY <1>4, EditStartKept DEF FinalizeForReview
<1>5. CASE SoftDeleteContent
  <2>1. EditSawCurrent'
    BY <1>5 DEF SoftDeleteContent, CaInv, EditSawCurrent, Current
  <2> QED BY <1>5, <2>1, EditBegins DEF SoftDeleteContent
<1>6. CASE EditRolledBack
  <2>1. EditSawCurrent'
    BY <1>6 DEF EditRolledBack, EditSawCurrent, NotEditing
  <2> QED BY <1>6, <2>1, EditBegins DEF EditRolledBack
<1> QED BY <1>1, <1>2, <1>3, <1>4, <1>5, <1>6

\* An edit leaves no request open that it should have closed, and closes none that is
\* being decided or replaced.
LEMMA InvalidationKept ==
  ASSUME CaInv, NEW version, NEW force \in BOOLEAN, qReq' = InvalidatedRequests(version, force),
         ~WaitsForRow, qAssess' = qAssess, qOverridden' = qOverridden, qAsk' = qAsk, qDecide' = qDecide,
         force \/ (qContext' = qContext /\ version # Current)
  PROVE  /\ qReq' \in [QRequests -> QRequestRows] /\ OpenRequestsOk' /\ AskOk' /\ DecideOk'
         /\ RefusalIsFinal
<1>1. PICK new : new = InvalidatedRequests(version, force)
  OBVIOUS
<1>2. ASSUME NEW r \in QRequests, ~(qReq[r].status \in OpenStatuses /\ Invalidates(r, version, force))
      PROVE  new[r] = qReq[r]
  BY <1>1, <1>2 DEF InvalidatedRequests
<1>3. ASSUME NEW r \in QRequests, qReq[r].status \in OpenStatuses, Invalidates(r, version, force)
      PROVE  new[r] = [qReq[r] EXCEPT !.status = "INVALIDATED"]
  BY <1>1, <1>3 DEF InvalidatedRequests
<1>4. ASSUME NEW r \in QRequests
      PROVE  /\ new[r] \in QRequestRows
             /\ new[r] = qReq[r] \/ (qReq[r].status \in OpenStatuses /\ new[r].status = "INVALIDATED")
  <2>1. qReq[r] \in QRequestRows
    BY DEF CaInv, CaTypes
  <2>2. CASE qReq[r].status \in OpenStatuses /\ Invalidates(r, version, force)
    <3>1. new[r] = [qReq[r] EXCEPT !.status = "INVALIDATED"]
      BY <1>3, <2>2
    <3> QED BY <2>1, <2>2, <3>1 DEF QRequestRows, QStatuses
  <2> QED BY <1>2, <2>1, <2>2
<1>5. new \in [QRequests -> QRequestRows] /\ qReq' = new
  <2>1. new = [r \in QRequests |-> new[r]]
    BY <1>1 DEF InvalidatedRequests
  <2> QED BY <1>1, <1>4, <2>1
<1>6. ASSUME NEW r \in QRequests PROVE OpenRowOk(new[r])'
  <2>1. CASE new[r].status \notin OpenStatuses
    BY <2>1 DEF OpenRowOk, OpenStatuses
  <2>2. CASE new[r].status \in OpenStatuses
    <3>1. new[r] = qReq[r] /\ qReq[r].status \in OpenStatuses
      BY <1>4, <2>2 DEF OpenStatuses
    <3>2. ~Invalidates(r, version, force)
      <4>1. ASSUME Invalidates(r, version, force) PROVE FALSE
        <5>1. new[r] = [qReq[r] EXCEPT !.status = "INVALIDATED"] /\ qReq[r] \in QRequestRows
          BY <1>3, <3>1, <4>1 DEF CaInv, CaTypes
        <5> QED BY <2>2, <5>1 DEF QRequestRows, OpenStatuses
      <4> QED BY <4>1
    <3>3. qContext' = qContext /\ qReq[r].version = version /\ version # Current
      BY <3>2 DEF Invalidates
    <3>4. OpenRowOk(qReq[r])
      BY DEF CaInv, OpenRequestsOk
    <3>5. qReq[r].status # "APPROVED"
      BY <3>1, <3>3, <3>4 DEF OpenRowOk
    <3>6. PICK row : row = qReq[r]
      OBVIOUS
    <3>7. OpenRowOk(row)'
      BY <3>1, <3>3, <3>4, <3>5, <3>6, AssessmentsStay DEF OpenRowOk, QuorumIn
    <3> QED BY <3>1, <3>6, <3>7
  <2> QED BY <2>1, <2>2
<1>7. OpenRequestsOk'
  BY <1>5, <1>6 DEF OpenRequestsOk
<1>8. AskOk'
  <2>1. ASSUME qAsk # NotAsking PROVE qReq'[qAsk.request].status = "NONE"
    BY <1>4, <1>5, <2>1 DEF CaInv, AskOk, OpenStatuses
  <2> QED BY <2>1, AssessmentsStay DEF CaInv, AskOk
<1>9. DecideOk'
  <2>1. ASSUME NEW p \in QPeople, qDecide[p] # NoRow PROVE qReq'[qDecide[p]].status = "PENDING"
    <3>1. qDecide[p] \in QRequests /\ qReq[qDecide[p]].status = "PENDING"
      BY <2>1 DEF CaInv, CaTypes, DecideOk
    <3>2. Locked(qDecide[p])
      BY DEF Locked
    <3> QED BY <3>1, <3>2 DEF WaitsForRow, OpenStatuses
  <2> QED BY <2>1 DEF CaInv, DecideOk
<1>10. RefusalIsFinal
  BY <1>4, <1>5 DEF RefusalIsFinal, OpenStatuses
<1> QED BY <1>5, <1>7, <1>8, <1>9, <1>10

LEMMA EditCommitKept == ASSUME CaInv, EditCommit PROVE CaStepKept
<1>1. /\ ~WaitsForRow /\ qEdit' = NotEditing /\ qBase' = qBase /\ qAssess' = qAssess
      /\ qOverridden' = qOverridden /\ qAsk' = qAsk /\ qDecide' = qDecide
  BY DEF EditCommit, qAssessVars
<1>2. EditSawCurrent'
  BY <1>1 DEF EditSawCurrent, NotEditing
<1>3. CASE qEdit.kind = "version"
  <2>1. /\ qVersions' = AppendVersion /\ qContext' = qContext
        /\ qReq' = InvalidatedRequests(Current + 1, FALSE)
    BY <1>3 DEF EditCommit
  <2>2. PICK n : n = Current
    OBVIOUS
  <2>3. n \in Nat \ {0} /\ qVersions \in Seq(QVersionRows) /\ n = Len(qVersions)
    BY <2>2 DEF CaInv, CaTypes, Current
  <2>4. /\ qReq' \in [QRequests -> QRequestRows] /\ OpenRequestsOk' /\ AskOk' /\ DecideOk'
        /\ RefusalIsFinal
    <3>1. PICK next : next = n + 1
      OBVIOUS
    <3>2. qReq' = InvalidatedRequests(next, FALSE) /\ next # Current
      BY <2>1, <2>2, <2>3, <3>1
    <3> QED BY <1>1, <2>1, <3>2, InvalidationKept
  <2>5. PICK row : row = [text |-> qEdit.text, parent |-> n,
                          base |-> IF qEdit.by = Worker THEN n ELSE qBase[qEdit.by]]
    OBVIOUS
  <2>6. row \in QVersionRows /\ row.base = row.parent
    BY <1>3, <2>2, <2>3, <2>5 DEF QVersionRows, CaInv, EditSawCurrent
  <2>7. qVersions' = Append(qVersions, row)
    BY <2>1, <2>2, <2>5 DEF AppendVersion
  <2>8. /\ qVersions' \in Seq(QVersionRows) /\ Len(qVersions') = n + 1 /\ DOMAIN qVersions' = 1..(n + 1)
        /\ qVersions'[n + 1] = row /\ \A v \in 1..n : qVersions'[v] = qVersions[v]
    BY <2>3, <2>6, <2>7
  <2>9. SavesSawCurrent'
    <3>1. \A v \in 1..n : qVersions[v].base = qVersions[v].parent
      BY <2>3 DEF CaInv, SavesSawCurrent
    <3> QED BY <2>3, <2>6, <2>8, <3>1 DEF SavesSawCurrent
  <2>10. CaTypes'
    <3>1. qVersions' \in Seq(QVersionRows) /\ Current' > 0
      BY <2>3, <2>8 DEF Current
    <3>2. /\ qContext \in Nat /\ qBase \in [QEditors -> Nat] /\ qOverridden \subseteq QEvents
          /\ qAssess \in [QAssessments -> QAssessmentRows]
          /\ qDecide \in [QPeople -> QRequests \cup {NoRow}]
      BY DEF CaInv, CaTypes
    <3> QED BY <1>1, <2>1, <2>4, <3>1, <3>2 DEF CaTypes
  <2> QED BY <1>2, <2>4, <2>9, <2>10 DEF CaStepKept, CaInv
<1>4. CASE qEdit.kind # "version"
  <2>1. /\ qVersions' = qVersions /\ qContext' = qContext + 1
        /\ qReq' = InvalidatedRequests(Current, TRUE)
    BY <1>4 DEF EditCommit
  <2>2. PICK n : n = Current
    OBVIOUS
  <2>3. /\ qReq' \in [QRequests -> QRequestRows] /\ OpenRequestsOk' /\ AskOk' /\ DecideOk'
        /\ RefusalIsFinal
    BY <1>1, <2>1, <2>2, InvalidationKept
  <2>4. SavesSawCurrent' /\ Current' = Current
    BY <2>1 DEF CaInv, SavesSawCurrent, Current
  <2>5. CaTypes'
    <3>1. /\ qContext \in Nat /\ qBase \in [QEditors -> Nat] /\ qOverridden \subseteq QEvents
          /\ qAssess \in [QAssessments -> QAssessmentRows]
          /\ qDecide \in [QPeople -> QRequests \cup {NoRow}]
          /\ qVersions \in Seq(QVersionRows) /\ Current > 0
      BY DEF CaInv, CaTypes
    <3>2. qContext' \in Nat
      BY <2>1, <3>1
    <3> QED BY <1>1, <2>1, <2>3, <2>4, <3>1, <3>2 DEF CaTypes
  <2> QED BY <1>2, <2>3, <2>4, <2>5 DEF CaStepKept, CaInv
<1> QED BY <1>3, <1>4

LEMMA AssessmentStep == ASSUME CaInv, AssessmentRequest PROVE CaStepKept
<1>1. /\ UNCHANGED qApprovalVars /\ qContext' = qContext /\ qVersions' = qVersions /\ qBase' = qBase
      /\ qEdit' = qEdit /\ Current' = Current
  BY DEF AssessmentRequest, CreateAssessment, CreatePolicyOverride, qContentVars, Current
<1>2. /\ qAssess' \in [QAssessments -> QAssessmentRows] /\ qOverridden' \subseteq QEvents
      /\ \A a, v : AssessedFor(a, v) => AssessedFor(a, v)'
  <2>1. ASSUME NEW b \in QAssessments, NEW w \in 1..QMaxVersions, NEW found \in SUBSET QEvents,
               CreateAssessment(b, w, found)
        PROVE  /\ qAssess' \in [QAssessments -> QAssessmentRows] /\ qOverridden' \subseteq QEvents
               /\ \A a, v : AssessedFor(a, v) => AssessedFor(a, v)'
    <3>1. PICK row : row = [version |-> w, blocking |-> found \ (qOverridden \cap QSoft)]
      OBVIOUS
    <3>2. w \in Nat
      BY <2>1 DEF CreateAssessment, CaInv, CaTypes
    <3>3. row \in QAssessmentRows
      BY <3>1, <3>2 DEF QAssessmentRows
    <3>4. qAssess' = [qAssess EXCEPT ![b] = row] /\ qOverridden' = qOverridden /\ qAssess[b] = NoAssessment
      BY <2>1, <3>1 DEF CreateAssessment
    <3>5. /\ qAssess' \in [QAssessments -> QAssessmentRows]
          /\ \A a \in QAssessments : a # b => qAssess'[a] = qAssess[a]
      BY <3>3, <3>4 DEF CaInv, CaTypes
    <3>6. ASSUME NEW a, NEW v, AssessedFor(a, v) PROVE AssessedFor(a, v)'
      <4>1. a \in QAssessments /\ a # b
        BY <3>4, <3>6 DEF AssessedFor, NoAssessment, NoVersion
      <4> QED BY <3>4, <3>5, <3>6, <4>1, AssessedStays
    <3> QED BY <3>4, <3>5, <3>6 DEF CaInv, CaTypes
  <2>2. ASSUME NEW e \in QSoft, CreatePolicyOverride(e)
        PROVE  /\ qAssess' \in [QAssessments -> QAssessmentRows] /\ qOverridden' \subseteq QEvents
               /\ \A a, v : AssessedFor(a, v) => AssessedFor(a, v)'
    <3>1. qAssess' = qAssess /\ qOverridden' = qOverridden \cup {e}
      BY <2>2 DEF CreatePolicyOverride
    <3> QED BY <2>2, <3>1, AssessedStays DEF CaInv, CaTypes, QEvents
  <2> QED BY <2>1, <2>2 DEF AssessmentRequest
<1>3. OpenRequestsOk' /\ AskOk' /\ DecideOk' /\ RefusalIsFinal
  BY <1>1, <1>2, ApprovalsStay
<1>4. SavesSawCurrent' /\ EditSawCurrent'
  BY <1>1 DEF CaInv, SavesSawCurrent, EditSawCurrent
<1>5. CaTypes'
  BY <1>1, <1>2 DEF CaInv, CaTypes, qApprovalVars
<1> QED BY <1>3, <1>4, <1>5 DEF CaStepKept, CaInv

\* A step that leaves the content and its assessments alone.
LEMMA ContentStays ==
  ASSUME CaInv, UNCHANGED <<qContentVars, qAssessVars>>, qReq' \in [QRequests -> QRequestRows],
         qDecide' \in [QPeople -> QRequests \cup {NoRow}]
  PROVE  /\ CaTypes' /\ SavesSawCurrent' /\ EditSawCurrent'
         /\ qContext' = qContext /\ Current' = Current
         /\ \A a, v : AssessedFor(a, v)' <=> AssessedFor(a, v)
<1>1. /\ qVersions' = qVersions /\ qContext' = qContext /\ qBase' = qBase /\ qEdit' = qEdit
      /\ qAssess' = qAssess /\ qOverridden' = qOverridden
  BY DEF qContentVars, qAssessVars
<1>2. Current' = Current /\ SavesSawCurrent'
  BY <1>1 DEF CaInv, SavesSawCurrent, Current
<1>3. EditSawCurrent'
  BY <1>1, <1>2 DEF CaInv, EditSawCurrent
<1>4. CaTypes'
  BY <1>1, <1>2 DEF CaInv, CaTypes
<1> QED BY <1>1, <1>2, <1>3, <1>4, AssessmentsStay

\* One request row is written.
LEMMA RequestRowKept ==
  ASSUME CaInv, UNCHANGED <<qContentVars, qAssessVars>>, NEW r \in QRequests, NEW row \in QRequestRows,
         qReq' = [qReq EXCEPT ![r] = row], OpenRowOk(row),
         qReq[r].status \notin {"NONE", "PENDING", "APPROVED"} => row.status \in {qReq[r].status, "SUPERSEDED"}
  PROVE  /\ qReq' \in [QRequests -> QRequestRows] /\ qReq'[r] = row
         /\ \A o \in QRequests : o # r => qReq'[o] = qReq[o]
         /\ OpenRequestsOk' /\ RefusalIsFinal
<1>1. /\ qReq' \in [QRequests -> QRequestRows] /\ qReq'[r] = row
      /\ \A o \in QRequests : o # r => qReq'[o] = qReq[o]
  BY DEF CaInv, CaTypes
<1>2. qContext' = qContext /\ Current' = Current /\ qAssess' = qAssess /\ qOverridden' = qOverridden
  BY DEF qContentVars, qAssessVars, Current
<1>3. ASSUME NEW o \in QRequests PROVE OpenRowOk(qReq[o])'
  <2>1. PICK new : new = qReq'[o]
    OBVIOUS
  <2>2. OpenRowOk(new)
    BY <1>1, <2>1 DEF CaInv, OpenRequestsOk
  <2>3. OpenRowOk(new)'
    BY <1>2, <2>2, AssessmentsStay, OpenRowStays
  <2> QED BY <2>1, <2>3
<1>4. OpenRequestsOk'
  BY <1>3 DEF OpenRequestsOk
<1>5. RefusalIsFinal
  BY <1>1 DEF RefusalIsFinal
<1> QED BY <1>1, <1>4, <1>5

LEMMA RequestCheckedKept ==
  ASSUME CaInv, NEW r \in QRequests, NEW a \in QAssessments, NEW old \in (QRequests \ {r}) \cup {NoRow},
         RequestChecked(r, a, old)
  PROVE  CaStepKept
<1>1. /\ UNCHANGED <<qContentVars, qAssessVars>> /\ qReq' = qReq /\ qDecide' = qDecide
      /\ qReq[r].status = "NONE" /\ qAssess[a].version = Current /\ AssessmentEligible(a)
      /\ qAsk' = [request |-> r, version |-> Current, assessment |-> a, old |-> old]
      /\ old # NoRow => ~Locked(old)
  BY DEF RequestChecked
<1>2. /\ CaTypes' /\ SavesSawCurrent' /\ EditSawCurrent'
      /\ qContext' = qContext /\ Current' = Current
      /\ \A b, v : AssessedFor(b, v)' <=> AssessedFor(b, v)
  BY <1>1, ContentStays DEF CaInv, CaTypes
<1>3. OpenRequestsOk' /\ RefusalIsFinal
  BY <1>1, <1>2, RequestsStay
<1>4. qAsk'.request = r /\ qAsk'.version = Current /\ qAsk'.assessment = a /\ qAsk'.old = old
  BY <1>1
<1>5. AssessedFor(a, Current)
  <2>1. qAssess[a] \in QAssessmentRows /\ Current \in Nat \ {0}
    BY DEF CaInv, CaTypes, Current
  <2> QED BY <1>1, <2>1 DEF AssessedFor, AssessmentEligible, QAssessmentRows, QEvents
<1>6. AskOk'
  BY <1>1, <1>2, <1>4, <1>5, QRowNames DEF AskOk
<1>7. DecideOk'
  <2>1. ASSUME NEW p \in QPeople, qDecide[p] # NoRow PROVE old # qDecide[p]
    BY <1>1, <2>1 DEF Locked
  <2> QED BY <1>1, <1>4, <2>1 DEF CaInv, DecideOk
<1> QED BY <1>2, <1>3, <1>6, <1>7 DEF CaStepKept, CaInv

LEMMA RequestInsertedKept == ASSUME CaInv, RequestInserted PROVE CaStepKept
<1>1. PICK r : r = qAsk.request
  OBVIOUS
<1>2. PICK old : old = qAsk.old
  OBVIOUS
<1>3. PICK row : row = [NoApproval EXCEPT !.status = "PENDING", !.version = qAsk.version,
                                          !.assessment = qAsk.assessment]
  OBVIOUS
<1>4. /\ qAsk # NotAsking /\ qAsk' = NotAsking /\ UNCHANGED <<qContentVars, qAssessVars>>
      /\ qDecide' = qDecide
  BY DEF RequestInserted
<1>5. /\ r \in QRequests /\ qReq[r].status = "NONE" /\ AssessedFor(qAsk.assessment, qAsk.version)
      /\ old \in QRequests \cup {NoRow} /\ old # r
  BY <1>1, <1>2, <1>4 DEF CaInv, AskOk
<1>6. row \in QRequestRows /\ row.status = "PENDING" /\ row.version = qAsk.version
      /\ row.assessment = qAsk.assessment /\ row.stage = 1 /\ row.seen = {}
  <2>1. qAsk.version \in Nat /\ qAsk.assessment \in Nat
    BY <1>5 DEF AssessedFor, QAssessments
  <2> QED BY <1>3, <2>1, NoApprovalRow DEF QRequestRows, QStatuses
<1>7. PICK mid : mid = [s \in QRequests |-> IF s = old THEN [qReq[s] EXCEPT !.status = "SUPERSEDED"]
                                            ELSE qReq[s]]
  OBVIOUS
<1>8. qReq' = [mid EXCEPT ![r] = row]
  BY <1>1, <1>2, <1>3, <1>7 DEF RequestInserted
<1>9. ASSUME NEW s \in QRequests
      PROVE  /\ mid[s] \in QRequestRows
             /\ s # old => mid[s] = qReq[s]
             /\ s = old => mid[s].status = "SUPERSEDED"
  <2>1. qReq[s] \in QRequestRows
    BY DEF CaInv, CaTypes
  <2> QED BY <1>7, <2>1 DEF QRequestRows, QStatuses
<1>10. mid \in [QRequests -> QRequestRows]
  BY <1>7, <1>9
<1>11. /\ qReq' \in [QRequests -> QRequestRows] /\ qReq'[r] = row
       /\ \A s \in QRequests : s # r => qReq'[s] = mid[s]
  BY <1>5, <1>6, <1>8, <1>10
<1>12. /\ CaTypes' /\ SavesSawCurrent' /\ EditSawCurrent'
       /\ qContext' = qContext /\ Current' = Current
       /\ \A b, v : AssessedFor(b, v)' <=> AssessedFor(b, v)
  BY <1>4, <1>11, ContentStays DEF CaInv, CaTypes
<1>13. OpenRowOk(row)
  <2>1. \A s \in QStages : ~(s < 1)
    BY QRowNames
  <2> QED BY <1>5, <1>6, <2>1 DEF OpenRowOk
<1>14. ASSUME NEW s \in QRequests PROVE OpenRowOk(qReq[s])'
  <2>1. PICK new : new = qReq'[s]
    OBVIOUS
  <2>2. OpenRowOk(new)
    <3>1. CASE s = r
      BY <1>11, <1>13, <2>1, <3>1
    <3>2. CASE s # r /\ s # old
      BY <1>9, <1>11, <2>1, <3>2 DEF CaInv, OpenRequestsOk
    <3>3. CASE s # r /\ s = old
      BY <1>9, <1>11, <2>1, <3>3 DEF OpenRowOk, OpenStatuses
    <3> QED BY <3>1, <3>2, <3>3
  <2>3. OpenRowOk(new)'
    BY <1>12, <2>2, OpenRowStays
  <2> QED BY <2>1, <2>3
<1>15. OpenRequestsOk'
  BY <1>14 DEF OpenRequestsOk
<1>16. AskOk'
  BY <1>4 DEF AskOk
<1>17. DecideOk'
  <2>1. ASSUME NEW p \in QPeople, qDecide[p] # NoRow
        PROVE  /\ qReq'[qDecide[p]].status = "PENDING" /\ NotAsking.old # qDecide[p]
               /\ \A o \in QPeople : qDecide[o] = qDecide[p] => o = p
    <3>1. /\ qDecide[p] \in QRequests /\ qReq[qDecide[p]].status = "PENDING" /\ qDecide[p] # old
          /\ \A o \in QPeople : qDecide[o] = qDecide[p] => o = p
      BY <1>2, <2>1 DEF CaInv, CaTypes, DecideOk
    <3>2. qDecide[p] # r
      BY <1>5, <3>1
    <3>3. qReq'[qDecide[p]] = qReq[qDecide[p]]
      BY <1>9, <1>11, <3>1, <3>2
    <3> QED BY <2>1, <3>1, <3>3 DEF NotAsking
  <2> QED BY <1>4, <2>1 DEF DecideOk
<1>18. RefusalIsFinal
  <2>1. ASSUME NEW s \in QRequests, qReq[s].status \notin {"NONE", "PENDING", "APPROVED"}
        PROVE  qReq'[s].status \in {qReq[s].status, "SUPERSEDED"}
    <3>1. s # r
      BY <1>5, <2>1
    <3> QED BY <1>9, <1>11, <3>1
  <2> QED BY <2>1 DEF RefusalIsFinal
<1> QED BY <1>12, <1>15, <1>16, <1>17, <1>18 DEF CaStepKept, CaInv

\* A vote is added to the stage it is for, and the stage is left when it has enough.
LEMMA ApproveKept ==
  ASSUME CaInv, NEW r \in QRequests, NEW p \in QPeople, qReq[r].status = "PENDING", ~IsTooLate(r),
         NEW row, row = Approve(r, p)
  PROVE  row \in QRequestRows /\ OpenRowOk(row)
<1>1. PICK old : old = qReq[r]
  OBVIOUS
<1>2. old \in QRequestRows /\ OpenRowOk(old) /\ old.status = "PENDING" /\ old.version = Current
  BY <1>1 DEF CaInv, CaTypes, OpenRequestsOk, IsTooLate
<1>3. /\ old.version \in Nat /\ old.assessment \in Nat /\ old.stage \in QStages /\ old.late \in BOOLEAN
      /\ old.approved \in [QStages -> SUBSET QPeople] /\ old.seen \in SUBSET Nat
  BY <1>2 DEF QRequestRows
<1>4. PICK votes : votes = [old.approved EXCEPT ![old.stage] = old.approved[old.stage] \cup {p}]
  OBVIOUS
<1>5. /\ votes \in [QStages -> SUBSET QPeople]
      /\ votes[old.stage] = old.approved[old.stage] \cup {p}
      /\ \A s \in QStages : s # old.stage => votes[s] = old.approved[s]
  BY <1>3, <1>4
<1>6. PICK final \in BOOLEAN : final <=> old.stage = Len(QQuorum)
  BY Zenon
<1>7. PICK enough \in BOOLEAN : enough <=> Cardinality(votes[old.stage]) >= QQuorum[old.stage]
  BY Zenon
<1>8. QuorumReached(r, p) <=> enough
  BY <1>1, <1>5, <1>7 DEF QuorumReached
<1>9. row = [old EXCEPT !.approved = votes, !.seen = old.seen \cup {qContext},
                        !.status = IF enough /\ final THEN "APPROVED" ELSE "PENDING",
                        !.stage = IF enough /\ ~final THEN old.stage + 1 ELSE old.stage]
  BY <1>1, <1>2, <1>4, <1>6, <1>8 DEF Approve, QRequestRows
<1>10. /\ row.approved = votes /\ row.seen = old.seen \cup {qContext}
       /\ row.status = (IF enough /\ final THEN "APPROVED" ELSE "PENDING")
       /\ row.stage = (IF enough /\ ~final THEN old.stage + 1 ELSE old.stage)
       /\ row.version = old.version /\ row.assessment = old.assessment /\ row.late = old.late
       /\ row = [status |-> row.status, version |-> row.version, assessment |-> row.assessment,
                 stage |-> row.stage, late |-> row.late, approved |-> row.approved, seen |-> row.seen]
  BY <1>2, <1>9 DEF QRequestRows
<1>11. row.stage \in QStages
  BY <1>3, <1>6, <1>10, QRowNames
<1>12. row \in QRequestRows
  <2>1. qContext \in Nat
    BY DEF CaInv, CaTypes
  <2>2. row.seen \in SUBSET Nat /\ row.status \in QStatuses
    BY <1>3, <1>10, <2>1 DEF QStatuses
  <2> QED BY <1>3, <1>5, <1>10, <1>11, <2>2 DEF QRequestRows
<1>13. AssessedFor(row.assessment, row.version) /\ old.seen \subseteq {qContext}
  BY <1>2, <1>10 DEF OpenRowOk, OpenStatuses
<1>14. \A s \in QStages : s < old.stage => Cardinality(votes[s]) >= QQuorum[s]
  <2>1. \A s \in QStages : s < old.stage => Cardinality(old.approved[s]) >= QQuorum[s]
    BY <1>2 DEF OpenRowOk, OpenStatuses, QuorumIn
  <2> QED BY <1>3, <1>5, <2>1, QRowNames
<1>15. \A s \in QStages : s < row.stage => QuorumIn(row, s)
  <2>1. ASSUME NEW s \in QStages, s < row.stage PROVE Cardinality(votes[s]) >= QQuorum[s]
    <3>1. s < old.stage \/ (s = old.stage /\ enough)
      BY <1>3, <1>10, <2>1, QRowNames
    <3> QED BY <1>7, <1>14, <3>1
  <2> QED BY <1>10, <2>1 DEF QuorumIn
<1>16. ASSUME row.status = "APPROVED" PROVE \A s \in QStages : QuorumIn(row, s)
  <2>1. enough /\ final
    BY <1>10, <1>16
  <2>2. ASSUME NEW s \in QStages PROVE Cardinality(votes[s]) >= QQuorum[s]
    <3>1. s < old.stage \/ s = old.stage
      BY <1>6, <2>1, QRowNames
    <3> QED BY <1>7, <1>14, <2>1, <3>1
  <2> QED BY <1>10, <2>2 DEF QuorumIn
<1>17. row.seen = {qContext}
  BY <1>10, <1>13
<1>18. OpenRowOk(row)
  BY <1>2, <1>10, <1>13, <1>15, <1>16, <1>17 DEF OpenRowOk
<1> QED BY <1>12, <1>18

LEMMA DecideCommitKept == ASSUME CaInv, NEW p \in QPeople, DecideCommit(p) PROVE CaStepKept
<1>1. PICK r : r = qDecide[p]
  OBVIOUS
<1>2. /\ r # NoRow /\ UNCHANGED <<qContentVars, qAssessVars>> /\ qAsk' = qAsk
      /\ qDecide' = [qDecide EXCEPT ![p] = NoRow]
  BY <1>1 DEF DecideCommit
<1>3. /\ r \in QRequests /\ qReq[r].status = "PENDING" /\ qReq[r] \in QRequestRows
      /\ \A o \in QPeople : qDecide[o] = r => o = p
  BY <1>1, <1>2 DEF CaInv, CaTypes, DecideOk
<1>4. PICK row \in QRequestRows : qReq' = [qReq EXCEPT ![r] = row] /\ OpenRowOk(row)
  <2>1. ASSUME NEW status \in {"INVALIDATED", "EXPIRED", "REJECTED", "CHANGES_REQUESTED"}, NEW row,
               row = [qReq[r] EXCEPT !.status = status]
        PROVE  row \in QRequestRows /\ OpenRowOk(row)
    <3>1. row.status = status /\ row \in QRequestRows
      BY <1>3, <2>1 DEF QRequestRows, QStatuses
    <3> QED BY <2>1, <3>1 DEF OpenRowOk, OpenStatuses
  <2>2. CASE IsTooLate(r)
    <3>1. qReq' = [qReq EXCEPT ![r] = DecisionTooLate(p, r)]
      BY <1>1, <2>2 DEF DecideCommit
    <3> QED BY <2>1, <3>1 DEF DecisionTooLate
  <2>3. CASE ~IsTooLate(r) /\ qReq' = [qReq EXCEPT ![r] = Approve(r, p)]
    BY <1>3, <2>3, ApproveKept
  <2>4. ASSUME NEW status \in {"REJECTED", "CHANGES_REQUESTED"}, qReq' = [qReq EXCEPT ![r].status = status]
        PROVE  \E row \in QRequestRows : qReq' = [qReq EXCEPT ![r] = row] /\ OpenRowOk(row)
    <3>1. PICK row : row = [qReq[r] EXCEPT !.status = status]
      OBVIOUS
    <3>2. qReq' = [qReq EXCEPT ![r] = row]
      BY <2>4, <3>1
    <3> QED BY <2>1, <3>1, <3>2
  <2> QED BY <1>1, <2>2, <2>3, <2>4 DEF DecideCommit
<1>5. /\ qReq' \in [QRequests -> QRequestRows] /\ qReq'[r] = row
      /\ \A o \in QRequests : o # r => qReq'[o] = qReq[o]
      /\ OpenRequestsOk' /\ RefusalIsFinal
  BY <1>2, <1>3, <1>4, RequestRowKept
<1>6. /\ qDecide' \in [QPeople -> QRequests \cup {NoRow}] /\ qDecide'[p] = NoRow
      /\ \A o \in QPeople : o # p => qDecide'[o] = qDecide[o]
  BY <1>2 DEF CaInv, CaTypes
<1>7. /\ CaTypes' /\ SavesSawCurrent' /\ EditSawCurrent'
      /\ \A b, v : AssessedFor(b, v)' <=> AssessedFor(b, v)
  BY <1>2, <1>5, <1>6, ContentStays
<1>8. AskOk'
  BY <1>2, <1>3, <1>5, <1>7 DEF CaInv, AskOk
<1>9. DecideOk'
  <2>1. ASSUME NEW q \in QPeople, qDecide'[q] # NoRow
        PROVE  /\ qReq'[qDecide'[q]].status = "PENDING" /\ qAsk'.old # qDecide'[q]
               /\ \A o \in QPeople : qDecide'[o] = qDecide'[q] => o = q
    <3>1. q # p /\ qDecide'[q] = qDecide[q] /\ qDecide[q] # r /\ qDecide[q] \in QRequests
      BY <1>3, <1>6, <2>1 DEF CaInv, CaTypes
    <3>2. qReq[qDecide[q]].status = "PENDING" /\ qAsk.old # qDecide[q]
          /\ \A o \in QPeople : qDecide[o] = qDecide[q] => o = q
      BY <2>1, <3>1 DEF CaInv, DecideOk
    <3> QED BY <1>2, <1>5, <1>6, <2>1, <3>1, <3>2
  <2> QED BY <2>1 DEF DecideOk
<1> QED BY <1>5, <1>7, <1>8, <1>9 DEF CaStepKept, CaInv

LEMMA StageDueKept == ASSUME CaInv, NEW r \in QRequests, StageDue(r) PROVE CaStepKept
<1>1. /\ UNCHANGED <<qContentVars, qAssessVars>> /\ qAsk' = qAsk /\ qDecide' = qDecide
      /\ qReq[r].status = "PENDING" /\ qReq' = [qReq EXCEPT ![r].late = TRUE]
  BY DEF StageDue
<1>2. PICK row : row = [qReq[r] EXCEPT !.late = TRUE]
  OBVIOUS
<1>3. qReq[r] \in QRequestRows /\ OpenRowOk(qReq[r])
  BY DEF CaInv, CaTypes, OpenRequestsOk
<1>4. /\ row \in QRequestRows /\ row.status = qReq[r].status /\ row.version = qReq[r].version
      /\ row.assessment = qReq[r].assessment /\ row.stage = qReq[r].stage
      /\ row.approved = qReq[r].approved /\ row.seen = qReq[r].seen
  BY <1>2, <1>3 DEF QRequestRows
<1>5. OpenRowOk(row)
  BY <1>3, <1>4 DEF OpenRowOk, QuorumIn
<1>6. qReq' = [qReq EXCEPT ![r] = row]
  BY <1>1, <1>2
<1>7. /\ qReq' \in [QRequests -> QRequestRows] /\ qReq'[r] = row
      /\ \A o \in QRequests : o # r => qReq'[o] = qReq[o]
      /\ OpenRequestsOk' /\ RefusalIsFinal
  BY <1>1, <1>4, <1>5, <1>6, RequestRowKept
<1>8. /\ CaTypes' /\ SavesSawCurrent' /\ EditSawCurrent'
      /\ \A b, v : AssessedFor(b, v)' <=> AssessedFor(b, v)
  BY <1>1, <1>7, ContentStays DEF CaInv, CaTypes
<1>9. \A o \in QRequests : qReq'[o].status = qReq[o].status
  BY <1>4, <1>7
<1>10. AskOk'
  BY <1>1, <1>8, <1>9 DEF CaInv, AskOk
<1>11. DecideOk'
  BY <1>1, <1>9 DEF CaInv, CaTypes, DecideOk
<1> QED BY <1>7, <1>8, <1>10, <1>11 DEF CaStepKept, CaInv

\* The steps that only take or give up a lock.
LEMMA LocksKept ==
  ASSUME CaInv,
         \/ RequestRolledBack
         \/ \E p \in QPeople : DecideRolledBack(p) \/ \E r \in QRequests : DecideStart(p, r)
  PROVE  CaStepKept
<1>1. UNCHANGED <<qContentVars, qAssessVars>> /\ qReq' = qReq
  BY DEF RequestRolledBack, DecideRolledBack, DecideStart
<1>2. /\ qDecide' \in [QPeople -> QRequests \cup {NoRow}] /\ AskOk' /\ DecideOk'
  <2>0. \A b, v : AssessedFor(b, v)' <=> AssessedFor(b, v)
    BY <1>1, AssessmentsStay DEF qAssessVars
  <2>1. CASE RequestRolledBack
    <3>1. qAsk' = NotAsking /\ qDecide' = qDecide /\ NotAsking.old = NoRow
      BY <2>1 DEF RequestRolledBack, NotAsking
    <3>2. AskOk'
      BY <3>1 DEF AskOk
    <3>3. DecideOk'
      BY <1>1, <3>1 DEF CaInv, DecideOk
    <3> QED BY <3>1, <3>2, <3>3 DEF CaInv, CaTypes
  <2>2. ASSUME NEW p \in QPeople, DecideRolledBack(p)
        PROVE  /\ qDecide' \in [QPeople -> QRequests \cup {NoRow}] /\ AskOk' /\ DecideOk'
    <3>1. qAsk' = qAsk /\ qDecide' = [qDecide EXCEPT ![p] = NoRow]
      BY <2>2 DEF DecideRolledBack
    <3>2. /\ qDecide' \in [QPeople -> QRequests \cup {NoRow}] /\ qDecide'[p] = NoRow
          /\ \A o \in QPeople : o # p => qDecide'[o] = qDecide[o]
      BY <3>1 DEF CaInv, CaTypes
    <3>3. AskOk'
      BY <1>1, <2>0, <3>1 DEF CaInv, AskOk
    <3>4. DecideOk'
      BY <1>1, <3>1, <3>2 DEF CaInv, DecideOk
    <3> QED BY <3>2, <3>3, <3>4
  <2>3. ASSUME NEW p \in QPeople, NEW r \in QRequests, DecideStart(p, r)
        PROVE  /\ qDecide' \in [QPeople -> QRequests \cup {NoRow}] /\ AskOk' /\ DecideOk'
    <3>1. /\ qAsk' = qAsk /\ qDecide' = [qDecide EXCEPT ![p] = r] /\ qReq[r].status = "PENDING"
          /\ qAsk.old # r /\ \A o \in QPeople : qDecide[o] # r
      BY <2>3 DEF DecideStart, MayDecide, Locked
    <3>2. /\ qDecide' \in [QPeople -> QRequests \cup {NoRow}] /\ qDecide'[p] = r
          /\ \A o \in QPeople : o # p => qDecide'[o] = qDecide[o]
      BY <3>1 DEF CaInv, CaTypes
    <3>3. AskOk'
      BY <1>1, <2>0, <3>1 DEF CaInv, AskOk
    <3>4. DecideOk'
      BY <1>1, <3>1, <3>2 DEF CaInv, DecideOk
    <3> QED BY <3>2, <3>3, <3>4
  <2> QED BY <2>1, <2>2, <2>3
<1>3. /\ CaTypes' /\ SavesSawCurrent' /\ EditSawCurrent'
      /\ qContext' = qContext /\ Current' = Current
      /\ \A b, v : AssessedFor(b, v)' <=> AssessedFor(b, v)
  <2>1. qReq' \in [QRequests -> QRequestRows]
    BY <1>1 DEF CaInv, CaTypes
  <2> QED BY <1>1, <1>2, <2>1, ContentStays
<1>4. OpenRequestsOk' /\ RefusalIsFinal
  BY <1>1, <1>3, RequestsStay
<1> QED BY <1>2, <1>3, <1>4 DEF CaStepKept, CaInv

LEMMA ApprovalStep == ASSUME CaInv, CaNext PROVE CaStepKept
<1>1. CASE ContentRequest
  BY <1>1, OpenVersionKept, BeginningsKept, EditCommitKept DEF ContentRequest
<1>2. CASE ApprovalNext
  BY <1>2, RequestCheckedKept, RequestInsertedKept, LocksKept, StageDueKept, DecideCommitKept DEF ApprovalNext
<1> QED BY <1>1, <1>2, AssessmentStep DEF CaNext

\* The invariant says what approval promises.
LEMMA ApprovalsHold ==
  ASSUME CaInv PROVE SavesSawCurrent /\ ApprovedIsCurrent /\ ApprovedInContext /\ ApprovalIsEarned
<1>1. ASSUME NEW r \in QRequests, qReq[r].status = "APPROVED"
      PROVE  /\ qReq[r].version = Current /\ qReq[r].seen = {qContext}
             /\ \A s \in QStages : Cardinality(qReq[r].approved[s]) >= QQuorum[s]
             /\ AssessedFor(qReq[r].assessment, qReq[r].version)
  BY <1>1 DEF CaInv, OpenRequestsOk, OpenRowOk, OpenStatuses, QuorumIn
<1>2. ApprovedIsCurrent /\ ApprovedInContext
  BY <1>1 DEF ApprovedIsCurrent, ApprovedInContext
<1>3. ApprovalIsEarned
  BY <1>1 DEF ApprovalIsEarned, AssessedFor
<1> QED BY <1>2, <1>3 DEF CaInv

\* QualityService and GenerationService: for any number of editors, approvers, requests
\* and stages, a save replaces the version its author saw, what is approved is the current
\* version in its current context with every stage's quorum and no blocking event, and a
\* refusal is final, however edits, requests and decisions overlap.
THEOREM ApprovalsKeepTheirPromise == CaSpec => ApprovalPromise
<1>1. ASSUME CaInv, UNCHANGED qVars PROVE CaStepKept
  <2>1. UNCHANGED <<qVersions, qContext, qBase, qAssessVars, qApprovalVars>> /\ qEdit' = qEdit
    BY <1>1 DEF qVars, qContentVars
  <2>2. EditSawCurrent'
    BY <1>1, <2>1 DEF CaInv, EditSawCurrent, Current
  <2> QED BY <1>1, <2>1, <2>2, EditBegins
<1>2. ASSUME CaInv, [CaNext]_qVars PROVE CaInv' /\ RefusalIsFinal
  BY <1>1, <1>2, ApprovalStep DEF CaStepKept
<1>3. CaInv' => (SavesSawCurrent /\ ApprovedIsCurrent /\ ApprovedInContext /\ ApprovalIsEarned)'
  BY ApprovalsHold, PTL
<1>4. ASSUME CaInv, [CaNext]_qVars
      PROVE  [ /\ ( /\ SavesSawCurrent
                    /\ ApprovedIsCurrent
                    /\ ApprovedInContext
                    /\ ApprovalIsEarned )'
               /\ RefusalIsFinal ]_qVars
  BY <1>2, <1>3, <1>4
<1>5. ASSUME CaInv, [CaNext]_qVars PROVE CaInv'
  BY <1>2, <1>5
<1> QED BY CaInitially, <1>4, <1>5, PTL DEF CaSpec, ApprovalPromise

-----------------------------------------------------------------------------
(* Keyword research.                                                       *)

KwStates == {"NONE", "QUEUED", "RETRYABLE_FAILED", "PARTIAL", "CANCEL_REQUESTED"} \cup TerminalJobStates
KwJobRows == [state : KwStates, attempt : Nat, kind : KwKinds \cup {"none"}]
KwItemRows ==
  [KwWords -> {"NONE", "EXCLUDED", "PENDING", "RETRYING", "SUCCEEDED", "FAILED", "CANCELLED"}]
KwConnections ==
  [left : Nat, failures : Nat, open : BOOLEAN,
   state : {"ACTIVE", "CREDENTIAL_EXPIRED", "LICENSE_EXPIRED", "unlocked"}]
KwIntents == {"none", "RULE", "USER"}
KwRuns ==
  [at : Nat, items : KwItemRows, loaded : BOOLEAN, seen : KwIntents, conn : KwConnections,
   reset : BOOLEAN, calls : Nat, metrics : SUBSET KwWords, touched : SUBSET KwWords, retry : BOOLEAN]

KwTypes ==
  /\ kwJob \in [KwJobs -> KwJobRows]
  /\ kwItem \in [KwJobs -> KwItemRows]
  /\ kwWord \in [KwWords -> KwIntents]
  /\ kwCluster \in [KwJobs -> SUBSET KwWords]
  /\ kwMsg \in [KwJobs -> Nat]
  /\ kwLost \in [KwJobs -> BOOLEAN]
  /\ kwTx \in [KwJobs -> KwRuns]
  /\ kwConn \in KwConnections
  /\ kwSpent \in Nat

\* What a run counts as called and what it leaves of the quota, from the moment it
\* has the connection; without it a run has called nobody.
RunWithinQuota(tx, spent) ==
  IF tx.conn = NoConnection THEN tx.calls = 0 /\ ~tx.reset
  ELSE /\ tx.conn.state # "unlocked"
       /\ tx.conn.left + tx.calls + (IF tx.reset THEN 0 ELSE spent) <= KwQuota

\* One run at a time has the connection.
KwQuotaInv ==
  /\ QuotaKept /\ kwConn.state # "unlocked"
  /\ \A j \in KwJobs : RunWithinQuota(kwTx[j], kwSpent)
  /\ \A j, k \in KwJobs : kwTx[j].conn # NoConnection /\ kwTx[k].conn # NoConnection => j = k

\* The rows a run has passed need no more work in it.
RowsBehind(at, items) ==
  \A k \in DOMAIN KwOrder : k < at => items[KwOrder[k]] \notin {"PENDING", "RETRYING"}

RunProceeds(tx, state) ==
  \/ tx = NoRun
  \/ /\ tx.at > 0 /\ state \in RunnableStates
     /\ tx.loaded => tx.at \in DOMAIN KwOrder
     /\ RowsBehind(tx.at, tx.items)

\* The state of a job and its rows.
OutcomeOk(state, items) ==
  LET open == RowsIn(items, "PENDING") \cup RowsIn(items, "RETRYING")
      good == RowsIn(items, "SUCCEEDED")
      bad == RowsIn(items, "FAILED")
  IN
  /\ state \in TerminalJobStates \cup {"PARTIAL", "RETRYABLE_FAILED"} => open = {}
  /\ state = "SUCCEEDED" => bad = {}
  /\ state = "PARTIAL" => good # {} /\ bad # {}
  /\ state \in {"RETRYABLE_FAILED", "FINAL_FAILED"} => good = {} /\ bad # {}

JobWaits(state, msg, tx, lost) == state \in RunnableStates => msg > 0 \/ tx # NoRun \/ lost

ClustersOk(state, items, cluster) ==
  (state \in {"SUCCEEDED", "PARTIAL"} /\ Clustered(items) # {}) => cluster = Clustered(items)

KwJobOk(state, items, cluster, msg, lost, tx) ==
  /\ OutcomeOk(state, items) /\ JobWaits(state, msg, tx, lost)
  /\ ClustersOk(state, items, cluster) /\ RunProceeds(tx, state)

JobSettles(old, new) ==
  /\ old.state = "CANCEL_REQUESTED" => new.state \in {"CANCEL_REQUESTED", "CANCELLED"}
  /\ old.state \in TerminalJobStates => new = old

KwJobsOk ==
  \A j \in KwJobs :
    KwJobOk(kwJob[j].state, kwItem[j], kwCluster[j], kwMsg[j], kwLost[j], kwTx[j])

KwInv == KwTypes /\ KwQuotaInv /\ KwJobsOk
KwKept == KwInv' /\ KeywordJobSettles

\* One worker evaluates a rule, while it is due.
KaInv ==
  /\ kaRule \in [due : BOOLEAN, locked : SUBSET KaWorkers]
  /\ kaCount \in [periods : Nat, sent : Nat]
  /\ kaRule.locked # {} => kaRule.due
  /\ \A a, b \in kaRule.locked : a = b
  /\ kaCount.sent + (IF kaRule.due THEN 1 ELSE 0) <= kaCount.periods

LEMMA KeywordsPromised == KwInv /\ KaInv =>
  QuotaKept /\ OutcomeMatchesItems /\ NoKeywordJobForgotten /\ ClustersCoverKeywords /\ OneAlertPerPeriod
<1> SUFFICES ASSUME KwInv, KaInv
             PROVE  QuotaKept /\ OutcomeMatchesItems /\ NoKeywordJobForgotten /\ ClustersCoverKeywords
                    /\ OneAlertPerPeriod
  OBVIOUS
<1>1. QuotaKept
  BY DEF KwInv, KwQuotaInv
<1>2. OutcomeMatchesItems
  BY DEF KwInv, KwJobsOk, KwJobOk, OutcomeOk, OutcomeMatchesItems
<1>3. NoKeywordJobForgotten
  BY DEF KwInv, KwJobsOk, KwJobOk, JobWaits, NoKeywordJobForgotten
<1>4. ClustersCoverKeywords
  <2> SUFFICES ASSUME NEW j \in KwJobs, kwJob[j].state \in {"SUCCEEDED", "PARTIAL"},
                      Cardinality(Named(kwItem[j])) \in 2..KwMaxCandidates
               PROVE  kwCluster[j] = Named(kwItem[j])
    BY DEF ClustersCoverKeywords
  <2>1. /\ OutcomeOk(kwJob[j].state, kwItem[j])
        /\ ClustersOk(kwJob[j].state, kwItem[j], kwCluster[j])
    BY DEF KwInv, KwJobsOk, KwJobOk
  <2>2. Named(kwItem[j]) # {}
    BY FS_EmptySet
  <2>3. RowsIn(kwItem[j], "SUCCEEDED") # {}
    BY <2>1, <2>2 DEF OutcomeOk, Named
  <2>4. Clustered(kwItem[j]) = Named(kwItem[j])
    BY <2>3 DEF Clustered
  <2> QED BY <2>1, <2>2, <2>4 DEF ClustersOk
<1>5. OneAlertPerPeriod
  BY DEF KaInv, OneAlertPerPeriod
<1> QED BY <1>1, <1>2, <1>3, <1>4, <1>5

LEMMA NoRunOk ==
  /\ NoRun \in KwRuns /\ NoRun.at = 0 /\ ~NoRun.loaded
  /\ NoRun.conn = NoConnection /\ NoRun.calls = 0 /\ ~NoRun.reset
  /\ NoRun.items \in KwItemRows
<1>1. NoConnection \in KwConnections
  BY DEF NoConnection, KwConnections
<1>2. NoRun.items \in KwItemRows
  BY DEF NoRun, KwItemRows
<1>3. NoRun.items = [w \in KwWords |-> "NONE"]
  BY DEF NoRun
<1> QED BY <1>1, <1>2, <1>3 DEF NoRun, KwRuns, KwIntents

LEMMA KeywordInitial == KwInit /\ KaInit => KwInv /\ KaInv
<1> SUFFICES ASSUME KwInit, KaInit PROVE KwInv /\ KaInv
  OBVIOUS
<1>1. /\ NewConnection \in KwConnections /\ NewConnection.left = KwQuota
      /\ NewConnection.state = "ACTIVE"
  BY KwNumbers DEF NewConnection, KwConnections
<1>2. NoKeywordJob \in KwJobRows /\ NoKeywordJob.state = "NONE"
  BY DEF NoKeywordJob, KwJobRows, KwStates
<1>3. KwTypes
  BY <1>1, <1>2, NoRunOk DEF KwInit, KwTypes, KwIntents
<1>4. KwQuotaInv
  BY <1>1, NoRunOk, KwNumbers DEF KwInit, KwQuotaInv, QuotaKept, RunWithinQuota
<1>5. KwJobsOk
  BY <1>2 DEF KwInit, KwJobsOk, KwJobOk, OutcomeOk, JobWaits, ClustersOk, RunProceeds, RunnableStates,
     TerminalJobStates
<1>6. KaInv
  BY DEF KaInit, KaInv
<1> QED BY <1>3, <1>4, <1>5, <1>6 DEF KwInv

\* One job moves: its row, items, clusters, message and run, and nothing of another's.
LEMMA OneKeywordJob ==
  ASSUME KwInv, NEW j \in KwJobs, NEW job \in KwJobRows, NEW items \in KwItemRows,
         NEW cluster \in SUBSET KwWords, NEW msg \in Nat, NEW lost \in BOOLEAN, NEW tx \in KwRuns,
         kwJob' = [kwJob EXCEPT ![j] = job], kwItem' = [kwItem EXCEPT ![j] = items],
         kwCluster' = [kwCluster EXCEPT ![j] = cluster], kwMsg' = [kwMsg EXCEPT ![j] = msg],
         kwLost' = [kwLost EXCEPT ![j] = lost], kwTx' = [kwTx EXCEPT ![j] = tx],
         KwJobOk(job.state, items, cluster, msg, lost, tx),
         JobSettles(kwJob[j], job),
         kwWord' \in [KwWords -> KwIntents], kwConn' \in KwConnections, kwSpent' \in Nat,
         KwQuotaInv'
  PROVE  KwKept
<1>1. KwTypes /\ KwJobsOk
  BY DEF KwInv
<1>2. KwTypes'
  BY <1>1 DEF KwTypes
<1>3. /\ kwJob'[j] = job /\ kwItem'[j] = items /\ kwCluster'[j] = cluster /\ kwMsg'[j] = msg
      /\ kwLost'[j] = lost /\ kwTx'[j] = tx
  BY <1>1 DEF KwTypes
<1>4. ASSUME NEW k \in KwJobs, k # j
      PROVE  /\ kwJob'[k] = kwJob[k] /\ kwItem'[k] = kwItem[k] /\ kwCluster'[k] = kwCluster[k]
             /\ kwMsg'[k] = kwMsg[k] /\ kwLost'[k] = kwLost[k] /\ kwTx'[k] = kwTx[k]
  BY <1>1, <1>4 DEF KwTypes
<1>5. KwJobsOk'
  <2> SUFFICES ASSUME NEW k \in KwJobs
               PROVE  KwJobOk(kwJob'[k].state, kwItem'[k], kwCluster'[k], kwMsg'[k], kwLost'[k], kwTx'[k])
    BY DEF KwJobsOk
  <2>1. CASE k = j
    BY <2>1, <1>3
  <2>2. CASE k # j
    BY <2>2, <1>1, <1>4 DEF KwJobsOk
  <2> QED BY <2>1, <2>2
<1>6. KeywordJobSettles
  BY <1>1, <1>3, <1>4 DEF KeywordJobSettles, JobSettles
<1> QED BY <1>2, <1>5, <1>6 DEF KwInv, KwKept

\* A run that keeps what it knows of the connection, or is gone.
LEMMA QuotaUntouched ==
  ASSUME KwInv, NEW j \in KwJobs, NEW tx \in KwRuns, kwTx' = [kwTx EXCEPT ![j] = tx],
         \/ tx.conn = kwTx[j].conn /\ tx.calls = kwTx[j].calls /\ tx.reset = kwTx[j].reset
         \/ tx.conn = NoConnection /\ tx.calls = 0 /\ ~tx.reset,
         UNCHANGED <<kwConn, kwSpent>>
  PROVE  KwQuotaInv'
<1>1. KwTypes /\ KwQuotaInv
  BY DEF KwInv
<1>2. kwTx'[j] = tx /\ \A k \in KwJobs : k # j => kwTx'[k] = kwTx[k]
  BY <1>1 DEF KwTypes
<1>3. \A k \in KwJobs : RunWithinQuota(kwTx'[k], kwSpent')
  BY <1>1, <1>2 DEF KwQuotaInv, RunWithinQuota
<1>4. \A i, k \in KwJobs : kwTx'[i].conn # NoConnection /\ kwTx'[k].conn # NoConnection => i = k
  BY <1>1, <1>2 DEF KwQuotaInv
<1> QED BY <1>1, <1>3, <1>4 DEF KwQuotaInv, QuotaKept

\* A request or delivery that touches one job's row, items, message and run.
LEMMA PlainKeywordStep ==
  ASSUME KwInv, NEW j \in KwJobs, NEW job \in KwJobRows, NEW items \in KwItemRows,
         NEW msg \in Nat, NEW lost \in BOOLEAN, NEW tx \in KwRuns,
         kwJob' = [kwJob EXCEPT ![j] = job], kwItem' = [kwItem EXCEPT ![j] = items],
         kwMsg' = [kwMsg EXCEPT ![j] = msg], kwLost' = [kwLost EXCEPT ![j] = lost],
         kwTx' = [kwTx EXCEPT ![j] = tx],
         OutcomeOk(job.state, items), JobWaits(job.state, msg, tx, lost),
         ClustersOk(job.state, items, kwCluster[j]), RunProceeds(tx, job.state),
         JobSettles(kwJob[j], job),
         tx = kwTx[j] \/ (tx.conn = NoConnection /\ tx.calls = 0 /\ ~tx.reset),
         UNCHANGED <<kwWord, kwConn, kwCluster, kwSpent>>
  PROVE  KwKept
<1>1. KwTypes
  BY DEF KwInv
<1>2. /\ kwCluster[j] \in SUBSET KwWords /\ kwCluster' = [kwCluster EXCEPT ![j] = kwCluster[j]]
      /\ kwWord' \in [KwWords -> KwIntents] /\ kwConn' \in KwConnections /\ kwSpent' \in Nat
  BY <1>1 DEF KwTypes
<1>3. KwQuotaInv'
  BY QuotaUntouched
<1>4. KwJobOk(job.state, items, kwCluster[j], msg, lost, tx)
  BY DEF KwJobOk
<1> QED BY <1>2, <1>3, <1>4, OneKeywordJob

\* The parts of a job's row, by themselves.
LEMMA KeywordJobFacts ==
  ASSUME KwInv, NEW j \in KwJobs
  PROVE  /\ kwJob[j] \in KwJobRows /\ kwItem[j] \in KwItemRows /\ kwMsg[j] \in Nat
         /\ kwLost[j] \in BOOLEAN /\ kwTx[j] \in KwRuns /\ kwCluster[j] \in SUBSET KwWords
         /\ kwJob[j].state \in KwStates
         /\ OutcomeOk(kwJob[j].state, kwItem[j])
         /\ JobWaits(kwJob[j].state, kwMsg[j], kwTx[j], kwLost[j])
         /\ ClustersOk(kwJob[j].state, kwItem[j], kwCluster[j])
         /\ RunProceeds(kwTx[j], kwJob[j].state)
         /\ RunWithinQuota(kwTx[j], kwSpent)
         /\ kwJob = [kwJob EXCEPT ![j] = kwJob[j]] /\ kwItem = [kwItem EXCEPT ![j] = kwItem[j]]
         /\ kwMsg = [kwMsg EXCEPT ![j] = kwMsg[j]] /\ kwLost = [kwLost EXCEPT ![j] = kwLost[j]]
         /\ kwTx = [kwTx EXCEPT ![j] = kwTx[j]] /\ kwCluster = [kwCluster EXCEPT ![j] = kwCluster[j]]
<1>1. KwTypes /\ KwJobOk(kwJob[j].state, kwItem[j], kwCluster[j], kwMsg[j], kwLost[j], kwTx[j])
      /\ RunWithinQuota(kwTx[j], kwSpent)
  BY DEF KwInv, KwJobsOk, KwQuotaInv
<1>2. /\ kwJob[j] \in KwJobRows /\ kwItem[j] \in KwItemRows /\ kwMsg[j] \in Nat
      /\ kwLost[j] \in BOOLEAN /\ kwTx[j] \in KwRuns /\ kwCluster[j] \in SUBSET KwWords
  BY <1>1 DEF KwTypes
<1>3. kwJob[j].state \in KwStates
  BY <1>2 DEF KwJobRows
<1>4. /\ kwJob = [kwJob EXCEPT ![j] = kwJob[j]] /\ kwItem = [kwItem EXCEPT ![j] = kwItem[j]]
      /\ kwMsg = [kwMsg EXCEPT ![j] = kwMsg[j]] /\ kwLost = [kwLost EXCEPT ![j] = kwLost[j]]
      /\ kwTx = [kwTx EXCEPT ![j] = kwTx[j]] /\ kwCluster = [kwCluster EXCEPT ![j] = kwCluster[j]]
  BY <1>1 DEF KwTypes
<1> QED BY <1>1, <1>2, <1>3, <1>4 DEF KwJobOk

\* Enqueue: the job has a message, a run or a lost message.
LEMMA Enqueued ==
  ASSUME KwInv, NEW j \in KwJobs, Enqueue(j), NEW state
  PROVE  \E msg \in Nat, lost \in BOOLEAN :
           /\ kwMsg' = [kwMsg EXCEPT ![j] = msg] /\ kwLost' = [kwLost EXCEPT ![j] = lost]
           /\ JobWaits(state, msg, kwTx[j], lost)
<1>0. kwMsg[j] \in Nat /\ kwLost[j] \in BOOLEAN /\ kwMsg = [kwMsg EXCEPT ![j] = kwMsg[j]]
  BY KeywordJobFacts
<1>1. CASE kwMsg' = [kwMsg EXCEPT ![j] = @ + 1] /\ kwLost' = [kwLost EXCEPT ![j] = FALSE]
  <2>1. PICK msg : msg = kwMsg[j] + 1
    OBVIOUS
  <2>2. msg \in Nat /\ msg > 0 /\ kwMsg' = [kwMsg EXCEPT ![j] = msg]
    BY <1>0, <1>1, <2>1
  <2>3. JobWaits(state, msg, kwTx[j], FALSE)
    BY <2>2 DEF JobWaits
  <2> QED BY <1>1, <2>2, <2>3
<1>2. CASE UNCHANGED kwMsg /\ kwLost' = [kwLost EXCEPT ![j] = @ \/ (kwMsg[j] = 0 /\ JobFree(j))]
  <2>1. PICK lost \in BOOLEAN : lost = (kwLost[j] \/ (kwMsg[j] = 0 /\ JobFree(j)))
    BY <1>0
  <2>2. kwLost' = [kwLost EXCEPT ![j] = lost] /\ kwMsg' = [kwMsg EXCEPT ![j] = kwMsg[j]]
    BY <1>0, <1>2, <2>1
  <2>3. JobWaits(state, kwMsg[j], kwTx[j], lost)
    <3>1. kwMsg[j] > 0 \/ kwMsg[j] = 0
      BY <1>0
    <3>2. kwMsg[j] = 0 /\ kwTx[j] = NoRun => lost
      BY <2>1 DEF JobFree
    <3> QED BY <3>1, <3>2 DEF JobWaits
  <2> QED BY <1>0, <2>2, <2>3
<1> QED BY <1>1, <1>2 DEF Enqueue

LEMMA KeywordRequestKeeps ==
  ASSUME KwInv, KeywordRequest PROVE KwKept
<1> USE DEF RunnableStates, TerminalJobStates
<1>1. ASSUME NEW j \in KwJobs, NEW kind \in KwKinds, NEW refused \in SUBSET KwInput[j],
             CreateResearchJob(j, kind, refused) PROVE KwKept
  <2>1. PICK job, items :
          /\ job = [state |-> "QUEUED", attempt |-> 0, kind |-> kind]
          /\ items = [w \in KwWords |->
               IF w \notin KwInput[j] THEN "NONE" ELSE IF w \in refused THEN "EXCLUDED" ELSE "PENDING"]
    OBVIOUS
  <2>2. /\ kwJob[j].state = "NONE" /\ kwJob' = [kwJob EXCEPT ![j] = job]
        /\ kwItem' = [kwItem EXCEPT ![j] = items] /\ Enqueue(j)
        /\ UNCHANGED <<kwWord, kwConn, kwDue, kwMetrics, kwCluster, kwTx, kwSpent, kwDays>>
    BY <1>1, <2>1 DEF CreateResearchJob
  <2>3. job \in KwJobRows /\ job.state = "QUEUED" /\ items \in KwItemRows
    BY <2>1 DEF KwJobRows, KwStates, KwItemRows
  <2>4. PICK msg \in Nat, lost \in BOOLEAN :
          /\ kwMsg' = [kwMsg EXCEPT ![j] = msg] /\ kwLost' = [kwLost EXCEPT ![j] = lost]
          /\ JobWaits("QUEUED", msg, kwTx[j], lost)
    BY <2>2, Enqueued
  <2>5. kwTx[j] \in KwRuns /\ kwTx' = [kwTx EXCEPT ![j] = kwTx[j]] /\ kwTx[j] = NoRun
    BY <2>2, KeywordJobFacts DEF RunProceeds
  <2>6. OutcomeOk(job.state, items) /\ ClustersOk(job.state, items, kwCluster[j])
        /\ RunProceeds(kwTx[j], job.state) /\ JobWaits(job.state, msg, kwTx[j], lost)
        /\ JobSettles(kwJob[j], job)
    BY <2>2, <2>3, <2>4, <2>5 DEF OutcomeOk, ClustersOk, RunProceeds, JobSettles
  <2> QED BY <2>2, <2>3, <2>4, <2>5, <2>6, PlainKeywordStep
<1>2. ASSUME NEW j \in KwJobs, ReplayResearchJob(j) PROVE KwKept
  <2>1. Enqueue(j) /\ UNCHANGED <<kwJob, kwItem, kwWord, kwConn, kwDue, kwMetrics, kwCluster, kwTx,
                                  kwSpent, kwDays>>
    BY <1>2 DEF ReplayResearchJob
  <2>2. PICK job, items, tx : job = kwJob[j] /\ items = kwItem[j] /\ tx = kwTx[j]
    OBVIOUS
  <2>3. PICK msg \in Nat, lost \in BOOLEAN :
          /\ kwMsg' = [kwMsg EXCEPT ![j] = msg] /\ kwLost' = [kwLost EXCEPT ![j] = lost]
          /\ JobWaits(job.state, msg, tx, lost)
    BY <2>1, <2>2, Enqueued
  <2>4. /\ kwJob' = [kwJob EXCEPT ![j] = job] /\ kwItem' = [kwItem EXCEPT ![j] = items]
        /\ kwTx' = [kwTx EXCEPT ![j] = tx]
        /\ job \in KwJobRows /\ items \in KwItemRows /\ tx \in KwRuns
        /\ OutcomeOk(job.state, items) /\ ClustersOk(job.state, items, kwCluster[j])
        /\ RunProceeds(tx, job.state) /\ JobSettles(kwJob[j], job)
    BY <2>1, <2>2, KeywordJobFacts DEF JobSettles
  <2>5. tx = kwTx[j]
    BY <2>2
  <2>6. UNCHANGED <<kwWord, kwConn, kwCluster, kwSpent>>
    BY <2>1
  <2> QED BY <2>3, <2>4, <2>5, <2>6, PlainKeywordStep
<1>3. ASSUME NEW j \in KwJobs, RequestCancel(j) PROVE KwKept
  <2>1. PICK job, items, msg, lost, tx :
          /\ job = [kwJob[j] EXCEPT !.state = "CANCEL_REQUESTED"]
          /\ items = kwItem[j] /\ msg = kwMsg[j] /\ lost = kwLost[j] /\ tx = kwTx[j]
    OBVIOUS
  <2>2. /\ tx = NoRun /\ kwJob[j].state \notin TerminalJobStates
        /\ kwJob' = [kwJob EXCEPT ![j] = job]
        /\ UNCHANGED <<kwItem, kwWord, kwConn, kwDue, kwMetrics, kwCluster, kwMsg, kwLost, kwTx,
                       kwSpent, kwDays>>
    BY <1>3, <2>1 DEF RequestCancel, JobFree
  <2>3. job \in KwJobRows /\ job.state = "CANCEL_REQUESTED"
    BY <2>1, KeywordJobFacts DEF KwJobRows, KwStates
  <2>4. /\ kwItem' = [kwItem EXCEPT ![j] = items] /\ kwMsg' = [kwMsg EXCEPT ![j] = msg]
        /\ kwLost' = [kwLost EXCEPT ![j] = lost] /\ kwTx' = [kwTx EXCEPT ![j] = tx]
        /\ items \in KwItemRows /\ msg \in Nat /\ lost \in BOOLEAN /\ tx \in KwRuns
    BY <2>1, <2>2, KeywordJobFacts
  <2>5. OutcomeOk(job.state, items) /\ ClustersOk(job.state, items, kwCluster[j])
        /\ RunProceeds(tx, job.state) /\ JobWaits(job.state, msg, tx, lost)
        /\ JobSettles(kwJob[j], job)
    BY <2>2, <2>3 DEF OutcomeOk, ClustersOk, RunProceeds, JobWaits, JobSettles
  <2>6. tx = kwTx[j]
    BY <2>1
  <2> QED BY <2>2, <2>3, <2>4, <2>5, <2>6, PlainKeywordStep
<1>4. ASSUME NEW j \in KwJobs, RequestRetry(j) PROVE KwKept
  <2>1. PICK job, items :
          /\ job = [kwJob[j] EXCEPT !.state = "QUEUED"]
          /\ items = [w \in KwWords |-> IF kwItem[j][w] = "FAILED" THEN "RETRYING" ELSE kwItem[j][w]]
    OBVIOUS
  <2>2. /\ kwTx[j] = NoRun /\ kwJob[j].state \in {"RETRYABLE_FAILED", "PARTIAL"}
        /\ kwJob' = [kwJob EXCEPT ![j] = job] /\ kwItem' = [kwItem EXCEPT ![j] = items] /\ Enqueue(j)
        /\ UNCHANGED <<kwWord, kwConn, kwDue, kwMetrics, kwCluster, kwTx, kwSpent, kwDays>>
    BY <1>4, <2>1 DEF RequestRetry, JobFree
  <2>3. job \in KwJobRows /\ job.state = "QUEUED"
    BY <2>1, KeywordJobFacts DEF KwJobRows, KwStates
  <2>4. items \in KwItemRows
    <3>1. kwItem[j] \in KwItemRows
      BY KeywordJobFacts
    <3> QED BY <3>1, <2>1 DEF KwItemRows
  <2>5. PICK msg \in Nat, lost \in BOOLEAN :
          /\ kwMsg' = [kwMsg EXCEPT ![j] = msg] /\ kwLost' = [kwLost EXCEPT ![j] = lost]
          /\ JobWaits("QUEUED", msg, kwTx[j], lost)
    BY <2>2, Enqueued
  <2>6. kwTx[j] \in KwRuns /\ kwTx' = [kwTx EXCEPT ![j] = kwTx[j]]
    BY <2>2, KeywordJobFacts
  <2>7. OutcomeOk(job.state, items) /\ ClustersOk(job.state, items, kwCluster[j])
        /\ RunProceeds(kwTx[j], job.state) /\ JobWaits(job.state, msg, kwTx[j], lost)
        /\ JobSettles(kwJob[j], job)
    BY <2>2, <2>3, <2>5 DEF OutcomeOk, ClustersOk, RunProceeds, JobSettles
  <2> QED BY <2>2, <2>3, <2>4, <2>5, <2>6, <2>7, PlainKeywordStep
<1>5. ASSUME NEW w \in KwWords, UpdateKeywordIntent(w) PROVE KwKept
  <2>1. /\ kwWord' = [kwWord EXCEPT ![w] = "USER"]
        /\ UNCHANGED <<kwJob, kwItem, kwConn, kwDue, kwMetrics, kwCluster, kwMsg, kwLost, kwTx,
                       kwSpent, kwDays>>
    BY <1>5 DEF UpdateKeywordIntent
  <2>2. KwTypes'
    BY <2>1 DEF KwInv, KwTypes, KwIntents
  <2>3. KwQuotaInv' /\ KwJobsOk' /\ KeywordJobSettles
    BY <2>1 DEF KwInv, KwQuotaInv, QuotaKept, KwJobsOk, KeywordJobSettles
  <2> QED BY <2>2, <2>3 DEF KwInv, KwKept
<1> QED BY <1>1, <1>2, <1>3, <1>4, <1>5 DEF KeywordRequest

-----------------------------------------------------------------------------
(* Runs.                                                                   *)

LEMMA MessageTaken ==
  ASSUME KwInv, NEW j \in KwJobs, kwMsg[j] > 0, Taken(j)
  PROVE  \E msg \in Nat : kwMsg' = [kwMsg EXCEPT ![j] = msg]
<1>1. kwMsg[j] \in Nat /\ kwMsg[j] - 1 \in Nat
  BY KeywordJobFacts
<1> QED BY <1>1 DEF Taken

\* The rows between the one a run is at and the next are not outstanding.
LEMMA NextRowFound ==
  ASSUME NEW j, NEW items, NEW i \in Nat
  PROVE  /\ NextRow(j, items, i) \in Nat /\ NextRow(j, items, i) > 0
         /\ \A k \in DOMAIN KwOrder :
              k > i /\ k < NextRow(j, items, i) => KwOrder[k] \notin Outstanding(j, items)
<1> DEFINE later == {k \in DOMAIN KwOrder : k > i /\ KwOrder[k] \in Outstanding(j, items)}
<1>1. DOMAIN KwOrder = 1..Len(KwOrder) /\ Len(KwOrder) \in Nat
  BY KwRowOrder
<1>2. CASE later = {}
  <2>1. NextRow(j, items, i) = Len(KwOrder) + 1
    BY <1>2 DEF NextRow
  <2> QED BY <2>1, <1>1, <1>2
<1>3. CASE later # {}
  <2>1. later \subseteq Nat /\ \A k \in later : k > 0
    BY <1>1
  <2>2. PICK n \in later : \A m \in later : ~(m < n)
    BY <2>1, <1>3, LeastNatural
  <2>3. \A m \in later : n <= m
    BY <2>1, <2>2
  <2>4. PICK next : next = CHOOSE k \in later : \A m \in later : k <= m
    OBVIOUS
  <2>5. next \in later /\ \A m \in later : next <= m
    BY <2>2, <2>3, <2>4
  <2>6. NextRow(j, items, i) = next
    BY <1>3, <2>4 DEF NextRow
  <2> QED BY <2>1, <2>5, <2>6, <1>1
<1> QED BY <1>2, <1>3

LEMMA StartKeeps ==
  ASSUME KwInv, NEW j \in KwJobs, ResearchStart(j) PROVE KwKept
<1>1. PICK next, tx : /\ next = NextRow(j, kwItem[j], 0)
                      /\ tx = [NoRun EXCEPT !.items = kwItem[j], !.at = next]
  OBVIOUS
<1>2. /\ kwMsg[j] > 0 /\ kwTx[j] = NoRun /\ kwJob[j].state \in RunnableStates /\ Taken(j)
      /\ kwTx' = [kwTx EXCEPT ![j] = tx]
      /\ UNCHANGED <<kwJob, kwItem, kwWord, kwConn, kwDue, kwMetrics, kwCluster, kwLost, kwSpent, kwDays>>
  BY <1>1 DEF ResearchStart, JobFree
<1>3. PICK msg \in Nat : kwMsg' = [kwMsg EXCEPT ![j] = msg]
  BY <1>2, MessageTaken
<1>4. /\ next \in Nat /\ next > 0
      /\ \A k \in DOMAIN KwOrder : k > 0 /\ k < next => KwOrder[k] \notin Outstanding(j, kwItem[j])
  BY <1>1, NextRowFound
<1>5. kwItem[j] \in KwItemRows
  BY KeywordJobFacts
<1>6. tx \in KwRuns
  BY <1>1, <1>4, <1>5, NoRunOk DEF KwRuns
<1>7. /\ tx.at = next /\ tx.items = kwItem[j] /\ tx.conn = NoConnection /\ tx.calls = 0 /\ ~tx.reset
      /\ ~tx.loaded
  BY <1>1, NoRunOk DEF KwRuns
<1>8. tx # NoRun
  BY <1>4, <1>7, NoRunOk
<1>9. \A k \in DOMAIN KwOrder : k > 0 /\ KwOrder[k] \in KwWords
  BY KwRowOrder DEF KwWords
<1>10. RowsBehind(next, kwItem[j])
  BY <1>4, <1>9 DEF RowsBehind, Outstanding
<1>11. RunProceeds(tx, kwJob[j].state)
  BY <1>2, <1>4, <1>7, <1>10 DEF RunProceeds
<1>12. JobWaits(kwJob[j].state, msg, tx, kwLost[j])
  BY <1>8 DEF JobWaits
<1>13. /\ kwJob' = [kwJob EXCEPT ![j] = kwJob[j]] /\ kwItem' = [kwItem EXCEPT ![j] = kwItem[j]]
       /\ kwLost' = [kwLost EXCEPT ![j] = kwLost[j]]
  BY <1>2, KeywordJobFacts
<1>14. /\ kwJob[j] \in KwJobRows /\ kwItem[j] \in KwItemRows /\ kwMsg[j] \in Nat
       /\ kwLost[j] \in BOOLEAN /\ kwTx[j] \in KwRuns
       /\ OutcomeOk(kwJob[j].state, kwItem[j]) /\ ClustersOk(kwJob[j].state, kwItem[j], kwCluster[j])
  BY KeywordJobFacts
<1>15. JobSettles(kwJob[j], kwJob[j])
  BY DEF JobSettles
<1> QED BY <1>2, <1>3, <1>6, <1>7, <1>11, <1>12, <1>13, <1>14, <1>15, PlainKeywordStep

\* A step of a run that is not over.
LEMMA RunMoves ==
  ASSUME KwInv, NEW j \in KwJobs, kwTx[j] # NoRun, NEW tx \in KwRuns,
         kwTx' = [kwTx EXCEPT ![j] = tx], tx.at > 0, tx.loaded => tx.at \in DOMAIN KwOrder,
         RowsBehind(tx.at, tx.items), KwQuotaInv',
         UNCHANGED <<kwJob, kwItem, kwWord, kwConn, kwDue, kwMetrics, kwCluster, kwMsg, kwLost,
                     kwSpent, kwDays>>
  PROVE  KwKept
<1>1. PICK job, items, cluster, msg, lost :
        /\ job = kwJob[j] /\ items = kwItem[j] /\ cluster = kwCluster[j] /\ msg = kwMsg[j]
        /\ lost = kwLost[j]
  OBVIOUS
<1>2. job.state \in RunnableStates
  BY <1>1, KeywordJobFacts DEF RunProceeds
<1>3. RunProceeds(tx, job.state) /\ tx # NoRun
  BY <1>2, NoRunOk DEF RunProceeds
<1>4. KwJobOk(job.state, items, cluster, msg, lost, tx)
  BY <1>1, <1>3, KeywordJobFacts DEF KwJobOk, JobWaits
<1>5. kwWord' \in [KwWords -> KwIntents] /\ kwConn' \in KwConnections /\ kwSpent' \in Nat
  BY DEF KwInv, KwTypes
<1>6. /\ kwJob' = [kwJob EXCEPT ![j] = job] /\ kwItem' = [kwItem EXCEPT ![j] = items]
      /\ kwMsg' = [kwMsg EXCEPT ![j] = msg] /\ kwLost' = [kwLost EXCEPT ![j] = lost]
      /\ kwCluster' = [kwCluster EXCEPT ![j] = cluster]
  BY <1>1, KeywordJobFacts
<1>7. /\ job \in KwJobRows /\ items \in KwItemRows /\ msg \in Nat /\ lost \in BOOLEAN
      /\ cluster \in SUBSET KwWords
  BY <1>1, KeywordJobFacts
<1>8. JobSettles(kwJob[j], job)
  BY <1>1 DEF JobSettles
<1>9. kwTx' = [kwTx EXCEPT ![j] = tx] /\ KwQuotaInv' /\ KwInv
  OBVIOUS
<1>10. tx \in KwRuns
  OBVIOUS
<1> QED BY ONLY <1>4, <1>5, <1>6, <1>7, <1>8, <1>9, <1>10, OneKeywordJob

LEMMA UpsertKeeps ==
  ASSUME KwInv, NEW j \in KwJobs, UpsertKeyword(j) PROVE KwKept
<1>1. PICK w, seen, touched :
        /\ w = Row(j) /\ seen = (IF kwWord[w] = "none" THEN "RULE" ELSE kwWord[w])
        /\ touched = (IF kwWord[w] = "none" THEN kwTx[j].touched \cup {w} ELSE kwTx[j].touched)
  OBVIOUS
<1>2. PICK tx : tx = [kwTx[j] EXCEPT !.loaded = TRUE, !.seen = seen, !.touched = touched]
  OBVIOUS
<1>3. /\ kwTx[j].at \in DOMAIN KwOrder
      /\ kwTx' = [kwTx EXCEPT ![j].loaded = TRUE, ![j].seen = seen, ![j].touched = touched]
      /\ UNCHANGED <<kwJob, kwItem, kwWord, kwConn, kwDue, kwMetrics, kwCluster, kwMsg, kwLost,
                     kwSpent, kwDays>>
  BY <1>1 DEF UpsertKeyword
<1>4. kwTx \in [KwJobs -> KwRuns] /\ kwWord \in [KwWords -> KwIntents] /\ kwTx[j] \in KwRuns
  BY DEF KwInv, KwTypes
<1>5. kwTx' = [kwTx EXCEPT ![j] = tx]
  BY <1>2, <1>3, <1>4
<1>6. w \in KwWords
  BY <1>1, <1>3 DEF Row, KwWords
<1>7. seen \in KwIntents /\ touched \in SUBSET KwWords
  BY <1>1, <1>4, <1>6 DEF KwIntents, KwRuns
<1>8. /\ tx \in KwRuns /\ tx.at = kwTx[j].at /\ tx.items = kwTx[j].items /\ tx.conn = kwTx[j].conn
      /\ tx.calls = kwTx[j].calls /\ tx.reset = kwTx[j].reset
  BY <1>2, <1>4, <1>7 DEF KwRuns
<1>9. 0 \notin DOMAIN KwOrder /\ kwTx[j] # NoRun
  BY <1>3, KwRowOrder, NoRunOk
<1>10. kwTx[j].at > 0 /\ RowsBehind(kwTx[j].at, kwTx[j].items)
  BY <1>9, KeywordJobFacts DEF RunProceeds
<1>11. KwQuotaInv'
  BY <1>3, <1>5, <1>8, QuotaUntouched
<1> QED BY <1>3, <1>5, <1>8, <1>9, <1>10, <1>11, RunMoves

\* The row a run is at gets its outcome, and the run goes on below it.
KwOutcomes == {"SUCCEEDED", "FAILED"}
LEMMA RowIsDone ==
  ASSUME KwInv, NEW j \in KwJobs, kwTx[j].at \in DOMAIN KwOrder,
         NEW tx \in KwRuns, tx.at = kwTx[j].at, NEW items \in KwItemRows, RowsBehind(tx.at, items),
         NEW outcome \in KwOutcomes, NEW next, next = RowDone(j, tx, items, outcome)
  PROVE  /\ next \in KwRuns /\ next.at > 0 /\ ~next.loaded /\ RowsBehind(next.at, next.items)
         /\ next.conn = tx.conn /\ next.calls = tx.calls /\ next.reset = tx.reset
<1>1. PICK row, done, at : /\ row = Row(j) /\ done = [items EXCEPT ![row] = outcome]
                           /\ at = NextRow(j, done, tx.at)
  OBVIOUS
<1>2. row = KwOrder[tx.at] /\ row \in KwWords /\ tx.at \in DOMAIN KwOrder
  BY <1>1 DEF Row, KwWords
<1>3. tx.at \in Nat
  BY DEF KwRuns
<1>4. /\ at \in Nat /\ at > 0
      /\ \A k \in DOMAIN KwOrder : k > tx.at /\ k < at => KwOrder[k] \notin Outstanding(j, done)
  BY <1>1, <1>3, NextRowFound
<1>5. /\ done \in KwItemRows /\ done[row] = outcome
      /\ \A w \in KwWords \ {row} : done[w] = items[w]
  BY <1>1, <1>2 DEF KwItemRows, KwOutcomes
<1>6. next = [tx EXCEPT !.items = done, !.at = at, !.loaded = FALSE, !.seen = "none"]
  BY <1>1 DEF RowDone
<1>7. /\ next \in KwRuns /\ next.at = at /\ ~next.loaded /\ next.items = done
      /\ next.conn = tx.conn /\ next.calls = tx.calls /\ next.reset = tx.reset
  BY <1>4, <1>5, <1>6 DEF KwRuns, KwIntents
<1>8. RowsBehind(at, done)
  <2> SUFFICES ASSUME NEW k \in DOMAIN KwOrder, k < at
               PROVE  done[KwOrder[k]] \notin {"PENDING", "RETRYING"}
    BY DEF RowsBehind
  <2>1. KwOrder[k] \in KwWords /\ k \in Nat
    BY KwRowOrder DEF KwWords
  <2>2. CASE k = tx.at
    BY <2>2, <1>2, <1>5 DEF KwOutcomes
  <2>3. CASE k < tx.at
    <3>1. KwOrder[k] # row
      BY <2>1, <2>3, <1>2, <1>3, KwRowOrder
    <3> QED BY <3>1, <2>1, <2>3, <1>5 DEF RowsBehind
  <2>4. CASE k > tx.at
    BY <2>1, <2>4, <1>4 DEF Outstanding
  <2> QED BY <2>1, <2>2, <2>3, <2>4, <1>3
<1> QED BY <1>4, <1>7, <1>8

\* A run that has a row loaded.
LEMMA LoadedRun ==
  ASSUME KwInv, NEW j \in KwJobs, kwTx[j].loaded
  PROVE  /\ kwTx[j] \in KwRuns /\ kwTx[j] # NoRun /\ kwTx[j].at \in DOMAIN KwOrder
         /\ RowsBehind(kwTx[j].at, kwTx[j].items) /\ kwTx[j].items \in KwItemRows
         /\ Row(j) \in KwWords /\ Row(j) = KwOrder[kwTx[j].at]
<1>1. kwTx[j] \in KwRuns /\ kwTx[j] # NoRun
  BY KeywordJobFacts, NoRunOk
<1>2. kwTx[j].at \in DOMAIN KwOrder /\ RowsBehind(kwTx[j].at, kwTx[j].items)
  BY <1>1, KeywordJobFacts DEF RunProceeds
<1>3. kwTx[j].items \in KwItemRows
  BY <1>1 DEF KwRuns
<1>4. Row(j) \in KwWords /\ Row(j) = KwOrder[kwTx[j].at]
  BY <1>2 DEF Row, KwWords
<1> QED BY <1>1, <1>2, <1>3, <1>4

LEMMA WithoutProviderKeeps ==
  ASSUME KwInv, NEW j \in KwJobs, RowWithoutProvider(j) PROVE KwKept
<1>0. PICK outcome : outcome = (IF kwJob[j].kind = "bare" /\ ~(Row(j) \notin KwInput[j])
                                THEN "FAILED" ELSE "SUCCEEDED")
  OBVIOUS
<1>10. outcome \in KwOutcomes
  BY <1>0 DEF KwOutcomes
<1>1. PICK reclassified \in BOOLEAN :
        kwTx' = [kwTx EXCEPT ![j] = RowDone(j,
          [@ EXCEPT !.touched = Touched(kwTx[j], Row(j), reclassified)], kwTx[j].items, outcome)]
  <2>1. PICK r \in IF Row(j) \notin KwInput[j] \/ kwJob[j].kind = "csv" THEN BOOLEAN ELSE {FALSE} :
          kwTx' = [kwTx EXCEPT ![j] = RowDone(j,
            [@ EXCEPT !.touched = Touched(kwTx[j], Row(j), r)], kwTx[j].items, outcome)]
    BY <1>0 DEF RowWithoutProvider
  <2>2. r \in BOOLEAN
    OBVIOUS
  <2> QED BY <2>1, <2>2
<1>2. PICK tx, items, next : /\ tx = [kwTx[j] EXCEPT !.touched = Touched(kwTx[j], Row(j), reclassified)]
                             /\ items = kwTx[j].items
                             /\ next = RowDone(j, tx, items, outcome)
  OBVIOUS
<1>3. /\ kwTx[j].loaded
      /\ UNCHANGED <<kwJob, kwItem, kwWord, kwConn, kwDue, kwMetrics, kwCluster, kwMsg, kwLost,
                     kwSpent, kwDays>>
  BY DEF RowWithoutProvider
<1>4. kwTx' = [kwTx EXCEPT ![j] = next]
  BY <1>1, <1>2
<1>5. /\ kwTx[j] \in KwRuns /\ kwTx[j] # NoRun /\ kwTx[j].at \in DOMAIN KwOrder
      /\ RowsBehind(kwTx[j].at, kwTx[j].items) /\ kwTx[j].items \in KwItemRows /\ Row(j) \in KwWords
  BY <1>3, LoadedRun
<1>6. Touched(kwTx[j], Row(j), reclassified) \in SUBSET KwWords
  BY <1>5 DEF Touched, KwRuns
<1>7. /\ tx \in KwRuns /\ tx.at = kwTx[j].at /\ tx.conn = kwTx[j].conn /\ tx.calls = kwTx[j].calls
      /\ tx.reset = kwTx[j].reset
  BY <1>2, <1>5, <1>6 DEF KwRuns
<1>8. /\ next \in KwRuns /\ next.at > 0 /\ ~next.loaded /\ RowsBehind(next.at, next.items)
      /\ next.conn = tx.conn /\ next.calls = tx.calls /\ next.reset = tx.reset
  <2>1. items \in KwItemRows /\ RowsBehind(tx.at, items)
    BY <1>2, <1>5, <1>7
  <2>2. next = RowDone(j, tx, items, outcome)
    BY <1>2
  <2> QED BY <2>1, <2>2, <1>5, <1>7, <1>10, RowIsDone
<1>9. KwQuotaInv'
  BY <1>3, <1>4, <1>7, <1>8, QuotaUntouched
<1> QED BY <1>3, <1>4, <1>5, <1>8, <1>9, RunMoves

\* The connection, held by one run within the quota.
HasConnection(tx) ==
  /\ tx.conn.state # "unlocked"
  /\ tx.conn.left + tx.calls + (IF tx.reset THEN 0 ELSE kwSpent) <= KwQuota

LEMMA QuotaHeld ==
  ASSUME KwInv, NEW j \in KwJobs, ConnectionFree(j), NEW tx \in KwRuns,
         kwTx' = [kwTx EXCEPT ![j] = tx], HasConnection(tx), UNCHANGED <<kwConn, kwSpent>>
  PROVE  KwQuotaInv'
<1>1. KwTypes /\ KwQuotaInv
  BY DEF KwInv
<1>2. kwTx'[j] = tx /\ \A k \in KwJobs : k # j => kwTx'[k] = kwTx[k]
  BY <1>1 DEF KwTypes
<1>3. tx.conn # NoConnection
  BY DEF HasConnection, NoConnection
<1>4. \A k \in KwJobs : RunWithinQuota(kwTx'[k], kwSpent')
  BY <1>1, <1>2, <1>3 DEF KwQuotaInv, RunWithinQuota, HasConnection
<1>5. \A i, k \in KwJobs : kwTx'[i].conn # NoConnection /\ kwTx'[k].conn # NoConnection => i = k
  BY <1>1, <1>2 DEF KwQuotaInv, ConnectionFree
<1> QED BY <1>1, <1>4, <1>5 DEF KwQuotaInv, QuotaKept

LEMMA ConnectionTaken ==
  ASSUME KwInv, NEW j \in KwJobs, NEW tx, tx = WithConnection(j)
  PROVE  /\ tx \in KwRuns /\ tx.at = kwTx[j].at /\ tx.items = kwTx[j].items
         /\ tx.loaded = kwTx[j].loaded /\ HasConnection(tx)
<1>1. PICK run, conn, due :
        /\ run = kwTx[j] /\ conn = (IF run.conn = NoConnection THEN kwConn ELSE run.conn)
        /\ due \in BOOLEAN /\ due = (kwDue /\ ~run.reset)
  <2>1. (kwDue /\ ~kwTx[j].reset) \in BOOLEAN
    OBVIOUS
  <2> QED BY <2>1
<1>2. PICK left, calls, given :
        /\ left = (IF due THEN KwQuota ELSE conn.left) /\ calls = (IF due THEN 0 ELSE run.calls)
        /\ given = [conn EXCEPT !.left = left]
  OBVIOUS
<1>3. PICK reset : reset = (run.reset \/ due)
  OBVIOUS
<1>4. tx = [run EXCEPT !.conn = given, !.reset = reset, !.calls = calls]
  BY <1>1, <1>2, <1>3 DEF WithConnection
<1>5. run \in KwRuns /\ RunWithinQuota(run, kwSpent) /\ QuotaKept /\ kwConn \in KwConnections
      /\ kwConn.state # "unlocked" /\ kwSpent \in Nat
  BY <1>1, KeywordJobFacts DEF KwInv, KwTypes, KwQuotaInv
<1>6. run.calls \in Nat /\ run.reset \in BOOLEAN /\ run.conn \in KwConnections
  BY <1>5 DEF KwRuns
<1>7. /\ conn \in KwConnections /\ conn.state # "unlocked" /\ conn.left \in Nat
      /\ conn.left + run.calls + (IF run.reset THEN 0 ELSE kwSpent) <= KwQuota
  <2>1. CASE run.conn = NoConnection
    <3>1. conn = kwConn /\ run.calls = 0 /\ ~run.reset
      BY <2>1, <1>1, <1>5 DEF RunWithinQuota
    <3>2. kwConn.left \in Nat
      BY <1>5 DEF KwConnections
    <3> QED BY <3>1, <3>2, <1>5 DEF QuotaKept
  <2>2. CASE run.conn # NoConnection
    <3>1. conn = run.conn
      BY <2>2, <1>1
    <3>2. run.conn.left \in Nat
      BY <1>6 DEF KwConnections
    <3> QED BY <3>1, <3>2, <2>2, <1>5, <1>6 DEF RunWithinQuota
  <2> QED BY <2>1, <2>2
<1>8. left \in Nat /\ calls \in Nat /\ reset \in BOOLEAN
  BY <1>1, <1>2, <1>3, <1>6, <1>7, KwNumbers
<1>9. given \in KwConnections /\ given.left = left /\ given.state = conn.state
  BY <1>2, <1>7, <1>8 DEF KwConnections
<1>10. /\ tx \in KwRuns /\ tx.at = run.at /\ tx.items = run.items /\ tx.loaded = run.loaded
       /\ tx.conn = given /\ tx.reset = reset /\ tx.calls = calls
  BY <1>4, <1>5, <1>8, <1>9 DEF KwRuns
<1>11. left + calls + (IF reset THEN 0 ELSE kwSpent) <= KwQuota
  <2>1. CASE due
    <3>1. reset = TRUE
      BY <2>1, <1>3
    <3>2. left = KwQuota /\ calls = 0
      BY <2>1, <1>2
    <3> QED BY <3>1, <3>2, KwNumbers
  <2>2. CASE ~due
    BY <2>2, <1>1, <1>2, <1>3, <1>6, <1>7
  <2> QED BY <2>1, <2>2, <1>1
<1> QED BY <1>1, <1>7, <1>9, <1>10, <1>11 DEF HasConnection

\* A call's outcome: the row is done, with what the connection has become.
LEMMA CallRecorded ==
  ASSUME KwInv, NEW j \in KwJobs, kwTx[j].loaded, ConnectionFree(j),
         NEW tx \in KwRuns, tx.at = kwTx[j].at, HasConnection(tx),
         NEW items \in KwItemRows, RowsBehind(tx.at, items), NEW outcome \in KwOutcomes,
         kwTx' = [kwTx EXCEPT ![j] = RowDone(j, tx, items, outcome)],
         UNCHANGED <<kwJob, kwItem, kwWord, kwConn, kwDue, kwMetrics, kwCluster, kwMsg, kwLost,
                     kwSpent, kwDays>>
  PROVE  KwKept
<1>1. PICK next : next = RowDone(j, tx, items, outcome)
  OBVIOUS
<1>2. kwTx[j] # NoRun /\ kwTx[j].at \in DOMAIN KwOrder
  BY LoadedRun
<1>3. /\ next \in KwRuns /\ next.at > 0 /\ ~next.loaded /\ RowsBehind(next.at, next.items)
      /\ next.conn = tx.conn /\ next.calls = tx.calls /\ next.reset = tx.reset
  BY <1>1, <1>2, RowIsDone
<1>4. HasConnection(next) /\ kwTx' = [kwTx EXCEPT ![j] = next]
  BY <1>1, <1>3 DEF HasConnection
<1>5. KwQuotaInv'
  BY <1>3, <1>4, QuotaHeld
<1> QED BY <1>2, <1>3, <1>4, <1>5, RunMoves

LEMMA BlockedKeeps ==
  ASSUME KwInv, NEW j \in KwJobs, kwTx[j].loaded, ConnectionFree(j), Row(j) \in KwInput[j],
         NEW tx \in KwRuns, tx.at = kwTx[j].at, tx.items = kwTx[j].items, HasConnection(tx),
         CallBlocked(j, tx),
         UNCHANGED <<kwJob, kwItem, kwWord, kwConn, kwDue, kwMetrics, kwCluster, kwMsg, kwLost,
                     kwSpent, kwDays>>
  PROVE  KwKept
<1>1. PICK error \in {"config", "licence", "circuit", "quota", "credential"} :
        kwTx' = [kwTx EXCEPT ![j] = RowDone(j,
         [tx EXCEPT !.retry = @ \/ error \in {"circuit", "quota"},
                    !.conn = [tx.conn EXCEPT !.state = CASE error = "credential" -> "CREDENTIAL_EXPIRED"
                                                   [] error = "licence" -> "LICENSE_EXPIRED"
                                                   [] OTHER -> tx.conn.state]],
         tx.items, "FAILED")]
  BY DEF CallBlocked
<1>2. PICK state : state = CASE error = "credential" -> "CREDENTIAL_EXPIRED"
                             [] error = "licence" -> "LICENSE_EXPIRED"
                             [] OTHER -> tx.conn.state
  OBVIOUS
<1>3. PICK retry : retry = (tx.retry \/ error \in {"circuit", "quota"})
  OBVIOUS
<1>4. PICK conn : conn = [tx.conn EXCEPT !.state = state]
  OBVIOUS
<1>5. PICK called : called = [tx EXCEPT !.retry = retry, !.conn = conn]
  OBVIOUS
<1>6. tx.conn \in KwConnections /\ tx.retry \in BOOLEAN /\ tx.conn.state # "unlocked"
  BY DEF KwRuns, HasConnection
<1>7. state \in {"ACTIVE", "CREDENTIAL_EXPIRED", "LICENSE_EXPIRED"}
  BY <1>2, <1>6 DEF KwConnections
<1>8. conn \in KwConnections /\ conn.state # "unlocked" /\ conn.left = tx.conn.left
  BY <1>4, <1>6, <1>7 DEF KwConnections
<1>9. retry \in BOOLEAN
  BY <1>3
<1>10. /\ called \in KwRuns /\ called.at = tx.at /\ called.conn = conn /\ called.calls = tx.calls
       /\ called.reset = tx.reset
  BY <1>5, <1>8, <1>9 DEF KwRuns
<1>11. HasConnection(called)
  BY <1>8, <1>10 DEF HasConnection
<1>12. kwTx' = [kwTx EXCEPT ![j] = RowDone(j, called, tx.items, "FAILED")]
  BY <1>1, <1>2, <1>3, <1>4, <1>5
<1>13. PICK items : items = tx.items
  OBVIOUS
<1>14. items \in KwItemRows /\ RowsBehind(called.at, items) /\ called.at = kwTx[j].at
  BY <1>10, <1>13, LoadedRun
<1>15. kwTx' = [kwTx EXCEPT ![j] = RowDone(j, called, items, "FAILED")]
  BY <1>12, <1>13
<1>16. "FAILED" \in KwOutcomes
  BY DEF KwOutcomes
<1> QED BY <1>10, <1>11, <1>14, <1>15, <1>16, CallRecorded

LEMMA SucceedsKeeps ==
  ASSUME KwInv, NEW j \in KwJobs, kwTx[j].loaded, ConnectionFree(j), Row(j) \in KwInput[j],
         NEW tx \in KwRuns, tx.at = kwTx[j].at, tx.items = kwTx[j].items, HasConnection(tx),
         CallSucceeds(j, tx),
         UNCHANGED <<kwJob, kwItem, kwWord, kwConn, kwDue, kwMetrics, kwCluster, kwMsg, kwLost,
                     kwSpent, kwDays>>
  PROVE  KwKept
<1>1. PICK found \in SUBSET KwRelated, reclassified \in BOOLEAN :
        kwTx' = [kwTx EXCEPT ![j] = RowDone(j,
          [tx EXCEPT !.conn = [tx.conn EXCEPT !.left = @ - 1, !.failures = 0], !.calls = @ + 1,
                     !.metrics = @ \cup {Row(j)},
                     !.touched = Touched(tx, Row(j), reclassified)],
          [w \in KwWords |-> IF w \in found /\ tx.items[w] = "NONE" THEN "PENDING" ELSE tx.items[w]],
          "SUCCEEDED")]
  BY DEF CallSucceeds
<1>2. PICK items :
        items = [w \in KwWords |-> IF w \in found /\ tx.items[w] = "NONE" THEN "PENDING" ELSE tx.items[w]]
  OBVIOUS
<1>3. PICK left, calls : left = tx.conn.left - 1 /\ calls = tx.calls + 1
  OBVIOUS
<1>4. PICK conn : conn = [tx.conn EXCEPT !.left = left, !.failures = 0]
  OBVIOUS
<1>5. PICK metrics, touched : metrics = tx.metrics \cup {Row(j)} /\ touched = Touched(tx, Row(j), reclassified)
  OBVIOUS
<1>6. PICK called : called = [tx EXCEPT !.conn = conn, !.calls = calls, !.metrics = metrics,
                                        !.touched = touched]
  OBVIOUS
<1>7. /\ tx.conn \in KwConnections /\ tx.conn.left \in Nat /\ tx.calls \in Nat /\ tx.reset \in BOOLEAN
      /\ tx.metrics \subseteq KwWords /\ tx.touched \subseteq KwWords /\ tx.conn.left > 0
      /\ tx.conn.state # "unlocked"
  BY DEF KwRuns, KwConnections, HasConnection, CallSucceeds
<1>8. left \in Nat /\ calls \in Nat /\ left + calls = tx.conn.left + tx.calls
  BY <1>3, <1>7
<1>9. conn \in KwConnections /\ conn.state # "unlocked" /\ conn.left = left
  BY <1>4, <1>7, <1>8 DEF KwConnections
<1>10. metrics \subseteq KwWords /\ touched \subseteq KwWords
  BY <1>5, <1>7, LoadedRun DEF Touched
<1>11. /\ called \in KwRuns /\ called.at = tx.at /\ called.conn = conn /\ called.calls = calls
       /\ called.reset = tx.reset
  BY <1>6, <1>8, <1>9, <1>10 DEF KwRuns
<1>12. HasConnection(called)
  <2>1. kwSpent \in Nat
    BY DEF KwInv, KwTypes
  <2> QED BY <2>1, <1>7, <1>8, <1>9, <1>11 DEF HasConnection
<1>13. kwTx' = [kwTx EXCEPT ![j] = RowDone(j, called, items, "SUCCEEDED")]
  BY <1>1, <1>2, <1>3, <1>4, <1>5, <1>6
<1>14. /\ tx.items \in KwItemRows /\ RowsBehind(tx.at, tx.items) /\ tx.at \in DOMAIN KwOrder
       /\ KwOrder[tx.at] \in KwInput[j]
  BY LoadedRun
<1>15. items \in KwItemRows
  BY <1>2, <1>14 DEF KwItemRows
<1>16. RowsBehind(tx.at, items)
  <2> SUFFICES ASSUME NEW k \in DOMAIN KwOrder, k < tx.at
               PROVE  items[KwOrder[k]] \notin {"PENDING", "RETRYING"}
    BY DEF RowsBehind
  <2>1. KwOrder[tx.at] \notin KwRelated
    BY <1>14, KwRowOrder
  <2>2. KwOrder[k] \notin KwRelated
    BY <2>1, <1>14, KwRowOrder
  <2>3. KwOrder[k] \in KwWords /\ KwOrder[k] \notin found
    BY <2>2 DEF KwWords
  <2>4. items[KwOrder[k]] = tx.items[KwOrder[k]]
    BY <2>3, <1>2
  <2> QED BY <2>4, <1>14 DEF RowsBehind
<1>17. "SUCCEEDED" \in KwOutcomes /\ called.at = kwTx[j].at /\ RowsBehind(called.at, items)
  BY <1>11, <1>16 DEF KwOutcomes
<1> QED BY <1>11, <1>12, <1>13, <1>15, <1>17, CallRecorded

LEMMA FailsKeeps ==
  ASSUME KwInv, NEW j \in KwJobs, kwTx[j].loaded, ConnectionFree(j), Row(j) \in KwInput[j],
         NEW tx \in KwRuns, tx.at = kwTx[j].at, tx.items = kwTx[j].items, HasConnection(tx),
         CallFails(j, tx),
         UNCHANGED <<kwJob, kwItem, kwWord, kwConn, kwDue, kwMetrics, kwCluster, kwMsg, kwLost,
                     kwSpent, kwDays>>
  PROVE  KwKept
<1>1. PICK error \in {"retryable", "final", "429"} :
       LET failures == tx.conn.failures + 1
           conn == [tx.conn EXCEPT
             !.failures = IF failures < KwMaxFailures THEN failures ELSE KwMaxFailures,
             !.left = IF error = "429" THEN 0 ELSE @ - 1,
             !.open = @ \/ (error = "retryable" /\ failures >= KwMaxFailures)]
       IN kwTx' = [kwTx EXCEPT ![j] = RowDone(j,
            [tx EXCEPT !.conn = conn, !.calls = @ + 1, !.retry = @ \/ error \in {"retryable", "429"}],
            tx.items, "FAILED")]
  BY DEF CallFails
<1>2. PICK failures : failures = (IF tx.conn.failures + 1 < KwMaxFailures THEN tx.conn.failures + 1
                                  ELSE KwMaxFailures)
  OBVIOUS
<1>3. PICK left, calls : left = (IF error = "429" THEN 0 ELSE tx.conn.left - 1) /\ calls = tx.calls + 1
  OBVIOUS
<1>4. PICK open : open = (tx.conn.open \/ (error = "retryable" /\ tx.conn.failures + 1 >= KwMaxFailures))
  OBVIOUS
<1>5. PICK retry : retry = (tx.retry \/ error \in {"retryable", "429"})
  OBVIOUS
<1>6. PICK conn : conn = [tx.conn EXCEPT !.failures = failures, !.left = left, !.open = open]
  OBVIOUS
<1>7. PICK called : called = [tx EXCEPT !.conn = conn, !.calls = calls, !.retry = retry]
  OBVIOUS
<1>8. kwTx' = [kwTx EXCEPT ![j] = RowDone(j, called, tx.items, "FAILED")]
  BY <1>1, <1>2, <1>3, <1>4, <1>5, <1>6, <1>7
<1>9. /\ tx.conn \in KwConnections /\ tx.conn.left \in Nat /\ tx.calls \in Nat /\ tx.reset \in BOOLEAN
      /\ tx.conn.left > 0 /\ tx.conn.state # "unlocked" /\ tx.conn.failures \in Nat
  BY DEF KwRuns, KwConnections, HasConnection, CallFails
<1>10. /\ left \in Nat /\ calls \in Nat /\ left + calls <= tx.conn.left + tx.calls
       /\ failures \in Nat
  BY <1>2, <1>3, <1>9, KwNumbers
<1>11. open \in BOOLEAN /\ retry \in BOOLEAN
  BY <1>4, <1>5
<1>12. conn \in KwConnections /\ conn.state # "unlocked" /\ conn.left = left
  BY <1>6, <1>9, <1>10, <1>11 DEF KwConnections
<1>13. /\ called \in KwRuns /\ called.at = tx.at /\ called.conn = conn /\ called.calls = calls
       /\ called.reset = tx.reset
  BY <1>7, <1>10, <1>11, <1>12 DEF KwRuns
<1>14. HasConnection(called)
  <2>1. kwSpent \in Nat
    BY DEF KwInv, KwTypes
  <2> QED BY <2>1, <1>9, <1>10, <1>12, <1>13, KwNumbers DEF HasConnection
<1>15. PICK items : items = tx.items
  OBVIOUS
<1>16. items \in KwItemRows /\ RowsBehind(called.at, items) /\ called.at = kwTx[j].at
  BY <1>13, <1>15, LoadedRun
<1>17. kwTx' = [kwTx EXCEPT ![j] = RowDone(j, called, items, "FAILED")]
  BY <1>8, <1>15
<1>18. "FAILED" \in KwOutcomes
  BY DEF KwOutcomes
<1> QED BY <1>13, <1>14, <1>16, <1>17, <1>18, CallRecorded

LEMMA CollectKeeps ==
  ASSUME KwInv, NEW j \in KwJobs, CollectProvider(j) PROVE KwKept
<1>1. PICK tx : tx = WithConnection(j)
  OBVIOUS
<1>2. /\ kwTx[j].loaded /\ Row(j) \in KwInput[j] /\ ConnectionFree(j)
      /\ CacheHit(j, tx) \/ CallBlocked(j, tx) \/ CallSucceeds(j, tx) \/ CallFails(j, tx)
      /\ UNCHANGED <<kwJob, kwItem, kwWord, kwConn, kwDue, kwMetrics, kwCluster, kwMsg, kwLost,
                     kwSpent, kwDays>>
  BY <1>1 DEF CollectProvider
<1>3. /\ tx \in KwRuns /\ tx.at = kwTx[j].at /\ tx.items = kwTx[j].items /\ HasConnection(tx)
  BY <1>1, ConnectionTaken
<1>4. CASE CacheHit(j, tx)
  <2>1. PICK items : items = tx.items
    OBVIOUS
  <2>2. kwTx' = [kwTx EXCEPT ![j] = RowDone(j, tx, items, "SUCCEEDED")]
    BY <2>1, <1>4 DEF CacheHit
  <2>3. items \in KwItemRows /\ RowsBehind(tx.at, items)
    BY <2>1, <1>2, <1>3, LoadedRun
  <2>4. "SUCCEEDED" \in KwOutcomes
    BY DEF KwOutcomes
  <2> QED BY <2>2, <2>3, <2>4, <1>2, <1>3, CallRecorded
<1>5. CASE CallBlocked(j, tx)
  BY <1>2, <1>3, <1>5, BlockedKeeps
<1>6. CASE CallSucceeds(j, tx)
  BY <1>2, <1>3, <1>6, SucceedsKeeps
<1>7. CASE CallFails(j, tx)
  BY <1>2, <1>3, <1>7, FailsKeeps
<1> QED BY <1>2, <1>4, <1>5, <1>6, <1>7

\* What a finished run makes of its rows.
LEMMA OutcomeFits ==
  ASSUME NEW items \in KwItemRows, NEW retry, NEW attempt, NEW state,
         state = OutcomeState(items, retry, attempt), RowsBehind(Len(KwOrder) + 1, items)
  PROVE  /\ OutcomeOk(state, items)
         /\ state \in {"SUCCEEDED", "PARTIAL", "RETRYABLE_FAILED", "FINAL_FAILED"}
<1>1. RowsIn(items, "PENDING") \cup RowsIn(items, "RETRYING") = {}
  <2> SUFFICES ASSUME NEW w \in KwWords PROVE items[w] \notin {"PENDING", "RETRYING"}
    BY DEF RowsIn
  <2>1. PICK k \in DOMAIN KwOrder : w = KwOrder[k]
    BY DEF KwWords
  <2>2. k < Len(KwOrder) + 1
    BY KwRowOrder
  <2> QED BY <2>1, <2>2 DEF RowsBehind
<1>2. PICK good, bad : good = RowsIn(items, "SUCCEEDED") /\ bad = RowsIn(items, "FAILED")
  OBVIOUS
<1>3. \/ state = "SUCCEEDED" /\ bad = {}
      \/ state = "PARTIAL" /\ bad # {} /\ good # {}
      \/ state \in {"RETRYABLE_FAILED", "FINAL_FAILED"} /\ bad # {} /\ good = {}
  BY <1>2 DEF OutcomeState
<1> QED BY <1>1, <1>2, <1>3 DEF OutcomeOk

LEMMA RetryQueuedOk ==
  ASSUME KwInv, NEW j \in KwJobs, NEW state, RetryQueued(j, state)
  PROVE  \E msg \in Nat, lost \in BOOLEAN :
           /\ kwMsg' = [kwMsg EXCEPT ![j] = msg] /\ kwLost' = [kwLost EXCEPT ![j] = lost]
           /\ state = "RETRYABLE_FAILED" => msg > 0 \/ lost
<1>1. PICK old, was : old = kwMsg[j] /\ was = kwLost[j]
  OBVIOUS
<1>2. /\ old \in Nat /\ was \in BOOLEAN /\ kwMsg = [kwMsg EXCEPT ![j] = old]
      /\ kwLost = [kwLost EXCEPT ![j] = was]
  BY <1>1, KeywordJobFacts
<1>3. CASE kwMsg' = [kwMsg EXCEPT ![j] = @ + TaskRetry(state)] /\ UNCHANGED kwLost
  <2>1. PICK msg : msg = old + TaskRetry(state)
    OBVIOUS
  <2>2. msg \in Nat /\ (state = "RETRYABLE_FAILED" => msg > 0)
    BY <1>2, <2>1 DEF TaskRetry
  <2>3. kwMsg' = [kwMsg EXCEPT ![j] = msg] /\ kwLost' = [kwLost EXCEPT ![j] = was]
    BY <1>1, <1>2, <1>3, <2>1
  <2> QED BY <1>2, <2>2, <2>3
<1>4. CASE UNCHANGED kwMsg /\ kwLost' = [kwLost EXCEPT ![j] = @ \/ kwMsg[j] = 0]
  <2>1. PICK lost : lost \in BOOLEAN /\ lost = (was \/ old = 0)
    OBVIOUS
  <2>2. kwLost' = [kwLost EXCEPT ![j] = lost] /\ kwMsg' = [kwMsg EXCEPT ![j] = old]
    BY <1>1, <1>2, <1>4, <2>1
  <2>3. CASE old = 0
    <3>1. lost
      BY <2>1, <2>3
    <3> QED BY <1>2, <2>1, <2>2, <3>1
  <2>4. CASE old # 0
    <3>1. old > 0
      BY <1>2, <2>4
    <3> QED BY <1>2, <2>1, <2>2, <3>1
  <2> QED BY <2>3, <2>4
<1> QED BY <1>3, <1>4 DEF RetryQueued

LEMMA CommitRunKeeps ==
  ASSUME KwInv, NEW j \in KwJobs, ResearchCommit(j) PROVE KwKept
<1>1. PICK tx, items : tx = kwTx[j] /\ items = tx.items
  OBVIOUS
<1>2. PICK state : state = OutcomeState(items, tx.retry, kwJob[j].attempt + 1)
  OBVIOUS
<1>3. PICK ids : ids = Clustered(items)
  OBVIOUS
<1>4. PICK cluster : cluster = IF kwCluster[j] = {} THEN ids ELSE kwCluster[j]
  OBVIOUS
<1>5. PICK job : job = [kwJob[j] EXCEPT !.state = state, !.attempt = @ + 1]
  OBVIOUS
<1>6. PICK msg \in Nat, lost \in BOOLEAN :
        /\ kwMsg' = [kwMsg EXCEPT ![j] = msg] /\ kwLost' = [kwLost EXCEPT ![j] = lost]
        /\ state = "RETRYABLE_FAILED" => msg > 0 \/ lost
  BY <1>1, <1>2, RetryQueuedOk DEF ResearchCommit
<1>7. /\ tx.at = Len(KwOrder) + 1 /\ (ids = {} \/ ClustersAgree(j, ids))
      /\ kwJob' = [kwJob EXCEPT ![j] = job] /\ kwItem' = [kwItem EXCEPT ![j] = items]
      /\ kwWord' = [w \in KwWords |-> IF w \in tx.touched THEN "RULE" ELSE kwWord[w]]
      /\ kwConn' = IF tx.conn = NoConnection THEN kwConn ELSE tx.conn
      /\ kwCluster' = [kwCluster EXCEPT ![j] = cluster]
      /\ kwMsg' = [kwMsg EXCEPT ![j] = msg]
      /\ kwSpent' = IF tx.reset THEN tx.calls ELSE kwSpent + tx.calls
      /\ kwTx' = [kwTx EXCEPT ![j] = NoRun]
  <2>1. /\ tx.at = Len(KwOrder) + 1
        /\ ids = {} \/ ClustersAgree(j, ids)
        /\ kwItem' = [kwItem EXCEPT ![j] = items]
        /\ kwConn' = IF tx.conn = NoConnection THEN kwConn ELSE tx.conn
        /\ kwSpent' = IF tx.reset THEN tx.calls ELSE kwSpent + tx.calls
        /\ kwTx' = [kwTx EXCEPT ![j] = NoRun]
    BY <1>1, <1>3 DEF ResearchCommit
  <2>2. kwWord' = [w \in KwWords |-> IF w \in tx.touched THEN "RULE" ELSE kwWord[w]]
    BY <1>1 DEF ResearchCommit
  <2>3. kwJob' = [kwJob EXCEPT ![j] = job]
    BY <1>1, <1>2, <1>5 DEF ResearchCommit
  <2>4. kwCluster' = [kwCluster EXCEPT ![j] = cluster]
    BY <1>1, <1>3, <1>4 DEF ResearchCommit
  <2> QED BY <2>1, <2>2, <2>3, <2>4, <1>6
<1>8. /\ kwJob[j] \in KwJobRows /\ tx \in KwRuns
      /\ kwCluster[j] \in SUBSET KwWords /\ RunProceeds(tx, kwJob[j].state)
      /\ RunWithinQuota(tx, kwSpent)
  BY <1>1, KeywordJobFacts
<1>9. /\ items \in KwItemRows /\ tx.conn \in KwConnections /\ tx.calls \in Nat /\ tx.reset \in BOOLEAN
      /\ tx.conn.left \in Nat /\ kwJob[j].attempt \in Nat /\ tx.touched \in SUBSET KwWords
  BY <1>1, <1>8 DEF KwRuns, KwConnections, KwJobRows
<1>10. tx # NoRun /\ RowsBehind(Len(KwOrder) + 1, items) /\ kwJob[j].state \in RunnableStates
  <2>1. tx # NoRun
    BY <1>7, KwRowOrder, NoRunOk
  <2> QED BY <2>1, <1>1, <1>7, <1>8 DEF RunProceeds
<1>11. OutcomeOk(state, items) /\ state \in {"SUCCEEDED", "PARTIAL", "RETRYABLE_FAILED", "FINAL_FAILED"}
  BY <1>2, <1>9, <1>10, OutcomeFits
<1>12. job \in KwJobRows /\ job.state = state
  <2>1. state \in KwStates
    BY <1>11 DEF KwStates, TerminalJobStates
  <2>2. kwJob[j].kind \in KwKinds \cup {"none"}
    BY <1>8 DEF KwJobRows
  <2>3. job = [state |-> state, attempt |-> kwJob[j].attempt + 1, kind |-> kwJob[j].kind]
    BY <1>5, <1>8 DEF KwJobRows
  <2> QED BY <2>1, <2>2, <2>3, <1>9 DEF KwJobRows
<1>13. ids \in SUBSET KwWords /\ cluster \in SUBSET KwWords
  BY <1>3, <1>4, <1>8 DEF Clustered, Named, RowsIn
<1>14. ClustersOk(state, items, cluster)
  BY <1>3, <1>4, <1>7 DEF ClustersOk, ClustersAgree
<1>15. state = "RETRYABLE_FAILED" => msg > 0 \/ lost
  BY <1>6
<1>16. JobWaits(job.state, msg, NoRun, lost)
  BY <1>11, <1>12, <1>15 DEF JobWaits, RunnableStates
<1>17. KwJobOk(job.state, items, cluster, msg, lost, NoRun)
  BY <1>11, <1>12, <1>14, <1>16 DEF KwJobOk, RunProceeds
<1>18. JobSettles(kwJob[j], job)
  BY <1>10 DEF JobSettles, RunnableStates, TerminalJobStates
<1>19. kwWord' \in [KwWords -> KwIntents]
  BY <1>7 DEF KwInv, KwTypes, KwIntents
<1>20. kwConn' \in KwConnections /\ kwSpent' \in Nat
  BY <1>7, <1>9 DEF KwInv, KwTypes
<1>21. KwQuotaInv'
  <2>1. KwTypes /\ KwQuotaInv
    BY DEF KwInv
  <2>2. kwTx'[j] = NoRun /\ \A k \in KwJobs : k # j => kwTx'[k] = kwTx[k]
    BY <2>1, <1>7 DEF KwTypes
  <2>3. CASE tx.conn = NoConnection
    <3>1. tx.calls = 0 /\ ~tx.reset
      BY <2>3, <1>8 DEF RunWithinQuota
    <3>2. kwConn' = kwConn /\ kwSpent' = kwSpent
      BY <2>1, <2>3, <3>1, <1>7 DEF KwTypes
    <3> QED BY <3>2, <1>7, NoRunOk, QuotaUntouched
  <2>4. CASE tx.conn # NoConnection
    <3>1. kwConn' = tx.conn /\ tx.conn.state # "unlocked"
      BY <2>4, <1>7, <1>8 DEF RunWithinQuota
    <3>2. kwSpent' + tx.conn.left <= KwQuota
      BY <2>1, <2>4, <1>7, <1>8, <1>9, KwNumbers DEF RunWithinQuota, KwTypes
    <3>3. \A k \in KwJobs : kwTx'[k].conn = NoConnection
      BY <2>1, <2>2, <2>4, <1>1, NoRunOk DEF KwQuotaInv
    <3>4. \A k \in KwJobs : kwTx'[k].calls = 0 /\ ~kwTx'[k].reset
      BY <2>1, <2>2, <3>3, NoRunOk DEF KwQuotaInv, RunWithinQuota
    <3> QED BY <3>1, <3>2, <3>3, <3>4 DEF KwQuotaInv, QuotaKept, RunWithinQuota
  <2> QED BY <2>3, <2>4
<1>22. NoRun \in KwRuns
  BY NoRunOk
<1> QED BY <1>6, <1>7, <1>8, <1>9, <1>12, <1>13, <1>17, <1>18, <1>19, <1>20, <1>21, <1>22,
           OneKeywordJob

LEMMA ResearchFailsKeeps ==
  ASSUME KwInv, NEW j \in KwJobs, ResearchFails(j) PROVE KwKept
<1>1. PICK job, items : job = kwJob[j] /\ items = kwItem[j]
  OBVIOUS
<1>2. /\ kwTx' = [kwTx EXCEPT ![j] = NoRun]
      /\ UNCHANGED <<kwJob, kwItem, kwWord, kwConn, kwDue, kwMetrics, kwCluster, kwSpent, kwDays>>
      /\ \/ kwMsg' = [kwMsg EXCEPT ![j] = IF @ = 0 THEN 1 ELSE @] /\ UNCHANGED kwLost
         \/ kwLost' = [kwLost EXCEPT ![j] = TRUE] /\ UNCHANGED kwMsg
  BY DEF ResearchFails
<1>3. \E msg \in Nat, lost \in BOOLEAN :
        /\ kwMsg' = [kwMsg EXCEPT ![j] = msg] /\ kwLost' = [kwLost EXCEPT ![j] = lost]
        /\ JobWaits(job.state, msg, NoRun, lost)
  <2>1. PICK old, was : old = kwMsg[j] /\ was = kwLost[j]
    OBVIOUS
  <2>2. /\ old \in Nat /\ was \in BOOLEAN /\ kwMsg = [kwMsg EXCEPT ![j] = old]
        /\ kwLost = [kwLost EXCEPT ![j] = was]
    BY <2>1, KeywordJobFacts
  <2>3. CASE kwMsg' = [kwMsg EXCEPT ![j] = IF @ = 0 THEN 1 ELSE @] /\ UNCHANGED kwLost
    <3>1. PICK msg : msg = IF old = 0 THEN 1 ELSE old
      OBVIOUS
    <3>2. msg \in Nat /\ msg > 0 /\ kwMsg' = [kwMsg EXCEPT ![j] = msg]
      BY <2>1, <2>2, <2>3, <3>1
    <3>3. kwLost' = [kwLost EXCEPT ![j] = was] /\ JobWaits(job.state, msg, NoRun, was)
      BY <2>2, <2>3, <3>2 DEF JobWaits
    <3> QED BY <2>2, <3>2, <3>3
  <2>4. CASE kwLost' = [kwLost EXCEPT ![j] = TRUE] /\ UNCHANGED kwMsg
    <3>1. kwMsg' = [kwMsg EXCEPT ![j] = old] /\ JobWaits(job.state, old, NoRun, TRUE)
      BY <2>2, <2>4 DEF JobWaits
    <3> QED BY <2>2, <2>4, <3>1
  <2> QED BY <1>2, <2>3, <2>4
<1>4. PICK msg \in Nat, lost \in BOOLEAN :
        /\ kwMsg' = [kwMsg EXCEPT ![j] = msg] /\ kwLost' = [kwLost EXCEPT ![j] = lost]
        /\ JobWaits(job.state, msg, NoRun, lost)
  BY <1>3
<1>5. /\ job \in KwJobRows /\ items \in KwItemRows
      /\ kwJob' = [kwJob EXCEPT ![j] = job] /\ kwItem' = [kwItem EXCEPT ![j] = items]
      /\ OutcomeOk(job.state, items) /\ ClustersOk(job.state, items, kwCluster[j])
  BY <1>1, <1>2, KeywordJobFacts
<1>6. RunProceeds(NoRun, job.state) /\ JobSettles(kwJob[j], job)
  BY <1>1 DEF RunProceeds, JobSettles
<1>7. UNCHANGED <<kwWord, kwConn, kwCluster, kwSpent>>
  BY <1>2
<1> QED BY <1>2, <1>4, <1>5, <1>6, <1>7, NoRunOk, PlainKeywordStep

LEMMA IgnoredKeeps ==
  ASSUME KwInv, NEW j \in KwJobs, DeliveryIgnored(j) PROVE KwKept
<1>1. PICK job, items, msg, lost, tx :
        /\ job = kwJob[j] /\ items = kwItem[j] /\ msg = kwMsg[j] - 1 /\ lost = kwLost[j] /\ tx = kwTx[j]
  OBVIOUS
<1>2. /\ kwMsg[j] > 0 /\ tx = NoRun /\ job.state \notin RunnableStates
      /\ kwMsg' = [kwMsg EXCEPT ![j] = msg]
      /\ UNCHANGED <<kwJob, kwItem, kwWord, kwConn, kwDue, kwMetrics, kwCluster, kwLost, kwTx, kwSpent,
                     kwDays>>
  BY <1>1 DEF DeliveryIgnored, JobFree
<1>3. /\ job \in KwJobRows /\ items \in KwItemRows /\ lost \in BOOLEAN /\ tx \in KwRuns
      /\ kwJob' = [kwJob EXCEPT ![j] = job] /\ kwItem' = [kwItem EXCEPT ![j] = items]
      /\ kwLost' = [kwLost EXCEPT ![j] = lost] /\ kwTx' = [kwTx EXCEPT ![j] = tx]
      /\ OutcomeOk(job.state, items) /\ ClustersOk(job.state, items, kwCluster[j])
      /\ RunProceeds(tx, job.state)
  BY <1>1, <1>2, KeywordJobFacts
<1>4. msg \in Nat
  BY <1>1, <1>2, KeywordJobFacts
<1>5. JobWaits(job.state, msg, tx, lost) /\ JobSettles(kwJob[j], job) /\ tx = kwTx[j]
  BY <1>1, <1>2 DEF JobWaits, JobSettles
<1>6. UNCHANGED <<kwWord, kwConn, kwCluster, kwSpent>>
  BY <1>2
<1>7. kwMsg' = [kwMsg EXCEPT ![j] = msg]
  BY <1>2
<1> QED BY <1>3, <1>4, <1>5, <1>6, <1>7, PlainKeywordStep

LEMMA CancelKeeps ==
  ASSUME KwInv, NEW j \in KwJobs, CancelDelivered(j) PROVE KwKept
<1> USE DEF RunnableStates, TerminalJobStates
<1>1. PICK job, items, lost, tx :
        /\ job = [kwJob[j] EXCEPT !.state = "CANCELLED"]
        /\ items = [w \in KwWords |->
             IF kwItem[j][w] \in {"PENDING", "RETRYING"} THEN "CANCELLED" ELSE kwItem[j][w]]
        /\ lost = kwLost[j] /\ tx = kwTx[j]
  OBVIOUS
<1>2. /\ kwMsg[j] > 0 /\ tx = NoRun /\ kwJob[j].state = "CANCEL_REQUESTED" /\ Taken(j)
      /\ kwJob' = [kwJob EXCEPT ![j] = job] /\ kwItem' = [kwItem EXCEPT ![j] = items]
      /\ UNCHANGED <<kwWord, kwConn, kwDue, kwMetrics, kwCluster, kwLost, kwTx, kwSpent, kwDays>>
  BY <1>1 DEF CancelDelivered, JobFree
<1>3. PICK msg \in Nat : kwMsg' = [kwMsg EXCEPT ![j] = msg]
  BY <1>2, MessageTaken
<1>4. job \in KwJobRows /\ job.state = "CANCELLED"
  BY <1>1, KeywordJobFacts DEF KwJobRows, KwStates
<1>5. items \in KwItemRows
  <2>1. kwItem[j] \in KwItemRows
    BY KeywordJobFacts
  <2> QED BY <2>1, <1>1 DEF KwItemRows
<1>6. /\ lost \in BOOLEAN /\ tx \in KwRuns /\ tx = kwTx[j]
      /\ kwLost' = [kwLost EXCEPT ![j] = lost] /\ kwTx' = [kwTx EXCEPT ![j] = tx]
  BY <1>1, <1>2, KeywordJobFacts
<1>7. \A w \in KwWords : items[w] \notin {"PENDING", "RETRYING"}
  BY <1>1
<1>8. OutcomeOk(job.state, items)
  BY <1>4, <1>7 DEF OutcomeOk, RowsIn
<1>9. /\ ClustersOk(job.state, items, kwCluster[j]) /\ JobWaits(job.state, msg, tx, lost)
      /\ RunProceeds(tx, job.state) /\ JobSettles(kwJob[j], job)
  BY <1>2, <1>4 DEF ClustersOk, JobWaits, RunProceeds, JobSettles
<1>10. UNCHANGED <<kwWord, kwConn, kwCluster, kwSpent>>
  BY <1>2
<1>11. kwJob' = [kwJob EXCEPT ![j] = job] /\ kwItem' = [kwItem EXCEPT ![j] = items]
  BY <1>2
<1> QED BY <1>3, <1>4, <1>5, <1>6, <1>8, <1>9, <1>10, <1>11, PlainKeywordStep

\* Steps of the calendar, or none.
LEMMA KeywordsStay ==
  ASSUME KwInv, UNCHANGED <<kwJob, kwItem, kwWord, kwConn, kwCluster, kwMsg, kwLost, kwTx, kwSpent>>
  PROVE  KwKept
<1>1. KwTypes'
  BY DEF KwInv, KwTypes
<1>2. KwQuotaInv' /\ KwJobsOk' /\ KeywordJobSettles
  BY DEF KwInv, KwQuotaInv, QuotaKept, KwJobsOk, KeywordJobSettles
<1> QED BY <1>1, <1>2 DEF KwInv, KwKept

LEMMA ResearchRunKeeps ==
  ASSUME KwInv, ResearchRun PROVE KwKept
<1>1. CASE Midnight
  BY <1>1, KeywordsStay DEF Midnight
<1>2. ASSUME NEW j \in KwJobs,
             \/ DeliveryIgnored(j) \/ CancelDelivered(j) \/ ResearchStart(j) \/ UpsertKeyword(j)
             \/ RowWithoutProvider(j) \/ CollectProvider(j) \/ ResearchCommit(j) \/ ResearchFails(j)
      PROVE  KwKept
  BY <1>2, IgnoredKeeps, CancelKeeps, StartKeeps, UpsertKeeps, WithoutProviderKeeps, CollectKeeps,
     CommitRunKeeps, ResearchFailsKeeps
<1> QED BY <1>1, <1>2 DEF ResearchRun

\* Alerts.
LEMMA AlertKeeps ==
  ASSUME KaInv, AlertNext PROVE KaInv'
<1> DEFINE Rules == [due : BOOLEAN, locked : SUBSET KaWorkers]
           Counts == [periods : Nat, sent : Nat]
<1>0. /\ kaRule \in Rules /\ kaCount \in Counts /\ kaRule.locked \subseteq KaWorkers
      /\ kaCount.periods \in Nat /\ kaCount.sent \in Nat
      /\ kaRule.locked # {} => kaRule.due
      /\ \A a, b \in kaRule.locked : a = b
      /\ kaCount.sent + (IF kaRule.due THEN 1 ELSE 0) <= kaCount.periods
  BY DEF KaInv
<1>1. CASE AlertDue
  <2>1. /\ ~kaRule.due /\ kaRule' = [kaRule EXCEPT !.due = TRUE]
        /\ kaCount' = [kaCount EXCEPT !.periods = @ + 1]
    BY <1>1 DEF AlertDue
  <2>2. kaRule' \in Rules /\ kaRule'.due = TRUE /\ kaRule'.locked = kaRule.locked
    BY <2>1, <1>0
  <2>3. kaCount' \in Counts /\ kaCount'.periods = kaCount.periods + 1 /\ kaCount'.sent = kaCount.sent
    BY <2>1, <1>0
  <2>4. kaCount'.sent + 1 <= kaCount'.periods
    BY <2>1, <2>3, <1>0
  <2> QED BY <2>2, <2>3, <2>4, <1>0 DEF KaInv
<1>2. ASSUME NEW worker \in KaWorkers, AlertStart(worker) PROVE KaInv'
  <2>1. /\ kaRule.due /\ kaRule.locked = {} /\ kaRule' = [kaRule EXCEPT !.locked = @ \cup {worker}]
        /\ kaCount' = kaCount
    BY <1>2 DEF AlertStart, DueUnlocked
  <2>2. kaRule' \in Rules /\ kaRule'.due = kaRule.due /\ kaRule'.locked = {worker}
    BY <2>1, <1>0
  <2> QED BY <2>1, <2>2, <1>0 DEF KaInv
<1>3. ASSUME NEW worker \in KaWorkers, AlertCommit(worker) PROVE KaInv'
  <2>1. PICK sent \in {0, 1} : kaCount' = [kaCount EXCEPT !.sent = @ + sent]
    BY <1>3 DEF AlertCommit
  <2>2. worker \in kaRule.locked /\ kaRule' = [due |-> FALSE, locked |-> kaRule.locked \ {worker}]
    BY <1>3 DEF AlertCommit
  <2>3. kaRule' \in Rules /\ kaRule'.due = FALSE /\ kaRule'.locked = {}
    BY <2>2, <1>0
  <2>4. kaCount' \in Counts /\ kaCount'.periods = kaCount.periods /\ kaCount'.sent = kaCount.sent + sent
    BY <2>1, <1>0
  <2>5. kaRule.due
    BY <2>2, <1>0
  <2>6. kaCount'.sent <= kaCount'.periods
    BY <2>1, <2>4, <2>5, <1>0
  <2>7. kaCount'.sent + 0 <= kaCount'.periods
    BY <2>4, <2>6
  <2> QED BY <2>3, <2>4, <2>7 DEF KaInv
<1>4. ASSUME NEW worker \in KaWorkers, AlertFails(worker) PROVE KaInv'
  <2>1. worker \in kaRule.locked /\ kaRule' = [kaRule EXCEPT !.locked = @ \ {worker}] /\ kaCount' = kaCount
    BY <1>4 DEF AlertFails
  <2>2. kaRule' \in Rules /\ kaRule'.due = kaRule.due /\ kaRule'.locked = {}
    BY <2>1, <1>0
  <2> QED BY <2>1, <2>2, <1>0 DEF KaInv
<1> QED BY <1>1, <1>2, <1>3, <1>4 DEF AlertNext

KeywordStep ==
  \/ (KeywordRequest \/ ResearchRun) /\ UNCHANGED kaVars
  \/ AlertNext /\ UNCHANGED kwVars

LEMMA KeywordStepKept ==
  KwInv /\ KaInv /\ [KeywordStep]_<<kwVars, kaVars>> => KwInv' /\ KaInv' /\ KeywordJobSettles
<1> SUFFICES ASSUME KwInv, KaInv, [KeywordStep]_<<kwVars, kaVars>>
             PROVE  KwInv' /\ KaInv' /\ KeywordJobSettles
  OBVIOUS
<1>1. ASSUME UNCHANGED kwVars PROVE KwKept
  BY <1>1, KeywordsStay DEF kwVars
<1>2. ASSUME UNCHANGED kaVars PROVE KaInv'
  BY <1>2 DEF kaVars, KaInv
<1> QED BY <1>1, <1>2, KeywordRequestKeeps, ResearchRunKeeps, AlertKeeps DEF KeywordStep, KwKept

LEMMA KeywordPromiseKept ==
  (KwInv /\ KaInv)' =>
    ( /\ QuotaKept /\ OutcomeMatchesItems /\ NoKeywordJobForgotten /\ ClustersCoverKeywords
      /\ OneAlertPerPeriod )'
BY KeywordsPromised, PTL

\* The daily quota is kept by runs of several jobs, a job ends as its rows did and
\* stays so, the clusters of a job that has at least two keywords and no more than the
\* limit are of exactly those (above it they are deferred), a waiting job has a message
\* unless that was lost, and an alert is sent once, for any jobs, keywords, answers,
\* quota, limit, attempts and workers (domain/keywords).
THEOREM KeywordsKeepTheirPromise == KwSpec => KeywordPromise
BY KeywordInitial, KeywordStepKept, KeywordPromiseKept, PTL DEF KwSpec, KeywordPromise, KeywordStep
=============================================================================
