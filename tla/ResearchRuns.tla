---------------------------- MODULE ResearchRuns ----------------------------
(***************************************************************************)
(* A research run, its artifacts and the approval of its source set        *)
(* (domain/research).  An artifact is added in a transaction that reads    *)
(* the run without a lock; an approval locks the run.  What the executor   *)
(* of a run does is external: the repository installs none.                *)
(***************************************************************************)
EXTENDS Naturals, FiniteSets, JobState

CONSTANTS
  RsClients,            \* requests that add artifacts
  RsArtifacts,          \* artifacts, by artifact_hash
  RsMaxApprovals,       \* bound: approvals of the run
  RsMaxCrashes          \* bound: workers that crash

VARIABLES
  rsRun,                \* ResearchRun: state, approved source set, or {}
  rsArtifacts,          \* ResearchArtifact rows: artifact, selected, and as history the approvals
                        \* before its request and whether one came between its read and its insert
  rsTx,                 \* client -> artifact being added
  rsMsg,                \* messages of the run
  rsExecutor,           \* an executor is configured
  rsApprovals,          \* history: approvals given
  rsResults,            \* history: executions that were committed
  rsCrashes             \* history: workers that crashed

rsVars == <<rsRun, rsArtifacts, rsTx, rsMsg, rsExecutor, rsApprovals, rsResults, rsCrashes>>

NoAdd == [name |-> "none", selected |-> FALSE, approved |-> FALSE, after |-> 0]
RsInit ==
  /\ rsRun = [state |-> "CREATED", approved |-> {}]
  /\ rsArtifacts = {} /\ rsTx = [c \in RsClients |-> NoAdd]
  /\ rsMsg = 0 /\ rsExecutor \in BOOLEAN /\ rsApprovals = 0 /\ rsResults = 0 /\ rsCrashes = 0

\* create_run for a new key; a repeated request is answered with the run and enqueues
\* nothing.
CreateRun ==
  /\ rsRun.state = "CREATED"
  /\ rsRun' = [rsRun EXCEPT !.state = "QUEUED"] /\ rsMsg' = 1
  /\ UNCHANGED <<rsArtifacts, rsTx, rsExecutor, rsApprovals, rsResults, rsCrashes>>

\* add_artifact up to its insert.
AddArtifactStart(c, a, selected) ==
  /\ rsRun.state # "CREATED" /\ rsTx[c] = NoAdd /\ \A r \in rsArtifacts : r.name # a
  /\ rsTx' = [rsTx EXCEPT ![c] = [name |-> a, selected |-> selected,
                                  approved |-> rsRun.approved # {}, after |-> rsApprovals]]
  /\ UNCHANGED <<rsRun, rsArtifacts, rsMsg, rsExecutor, rsApprovals, rsResults, rsCrashes>>

\* Deviation: an artifact that is not selected leaves the approval alone.
ApprovalAfterSelected(tx) == IF tx.approved /\ tx.selected THEN {} ELSE rsRun.approved

\* The approval that was seen is withdrawn.
ApprovalAfterAdd(tx) == IF tx.approved THEN {} ELSE rsRun.approved

\* research_artifact_hash: the same artifact is added once.
AddArtifactCommit(c) ==
  LET tx == rsTx[c] IN
  /\ tx # NoAdd
  /\ rsTx' = [rsTx EXCEPT ![c] = NoAdd]
  /\ IF \E r \in rsArtifacts : r.name = tx.name
     THEN UNCHANGED <<rsRun, rsArtifacts>>
     ELSE /\ rsArtifacts' = rsArtifacts \cup
               {[name |-> tx.name, selected |-> tx.selected, after |-> tx.after,
                 raced |-> ~tx.approved /\ rsRun.approved # {}]}
          /\ rsRun' = [rsRun EXCEPT !.approved = ApprovalAfterAdd(tx)]
  /\ UNCHANGED <<rsMsg, rsExecutor, rsApprovals, rsResults, rsCrashes>>

Selected == {r.name : r \in {x \in rsArtifacts : x.selected}}

ApproveSourceSet ==
  /\ Selected # {} /\ rsApprovals < RsMaxApprovals
  /\ rsRun' = [rsRun EXCEPT !.approved = Selected]
  /\ rsApprovals' = rsApprovals + 1
  /\ UNCHANGED <<rsArtifacts, rsTx, rsMsg, rsExecutor, rsResults, rsCrashes>>

\* mark_researching: the two transitions are checked against the job table.
MayResearch(current) ==
  \/ current = "QUEUED" /\ EnsureJobTransition("QUEUED", "VALIDATING")
                        /\ EnsureJobTransition("VALIDATING", "RESEARCHING")
  \/ EnsureJobTransition(current, "RESEARCHING")

\* _run_research with an executor, which may fail the run (fail_run).
RunExecuted ==
  /\ rsExecutor /\ rsMsg > 0 /\ MayResearch(rsRun.state)
  /\ \E state \in {"RESEARCHING", "RETRYABLE_FAILED", "FINAL_FAILED"} :
       rsRun' = [rsRun EXCEPT !.state = state]
  /\ rsResults' = rsResults + 1
  /\ \E n \in {rsMsg, rsMsg - 1} : rsMsg' = n
  /\ UNCHANGED <<rsArtifacts, rsTx, rsExecutor, rsApprovals, rsCrashes>>

\* _run_research without one: fail_run(retryable=False).
RunUnavailable ==
  /\ ~rsExecutor /\ rsMsg > 0 /\ rsRun.state = "QUEUED"
  /\ EnsureJobTransition("QUEUED", "VALIDATING") /\ EnsureJobTransition("VALIDATING", "FINAL_FAILED")
  /\ rsRun' = [rsRun EXCEPT !.state = "FINAL_FAILED"]
  /\ \E n \in {rsMsg, rsMsg - 1} : rsMsg' = n
  /\ UNCHANGED <<rsArtifacts, rsTx, rsExecutor, rsApprovals, rsResults, rsCrashes>>

\* A delivery that the table refuses.
RunRefused ==
  /\ rsMsg > 0 /\ rsRun.state # "QUEUED" /\ ~MayResearch(rsRun.state)
  /\ rsMsg' = rsMsg - 1
  /\ UNCHANGED <<rsRun, rsArtifacts, rsTx, rsExecutor, rsApprovals, rsResults, rsCrashes>>

\* The worker dies, and its transaction with it; the message comes again.
WorkerCrash ==
  /\ rsMsg > 0 /\ rsRun.state = "QUEUED" /\ rsCrashes < RsMaxCrashes
  /\ rsCrashes' = rsCrashes + 1
  /\ UNCHANGED <<rsRun, rsArtifacts, rsTx, rsMsg, rsExecutor, rsApprovals, rsResults>>

ResearchNext ==
  \/ CreateRun \/ ApproveSourceSet \/ RunExecuted \/ RunUnavailable \/ RunRefused \/ WorkerCrash
  \/ \E c \in RsClients : AddArtifactCommit(c)
  \/ \E c \in RsClients, a \in RsArtifacts, selected \in BOOLEAN : AddArtifactStart(c, a, selected)

RsSpec == RsInit /\ [][ResearchNext]_rsVars

\* add_artifact: while an approval stands, every artifact was asked for before it (one
\* that came later has withdrawn it), and every selected one is in the approved set.  The
\* exception is an artifact whose request had read the run before the approval and was
\* inserted after it: the run is read without a lock, so the approval stands without it.
ApprovalIsWithdrawn ==
  rsRun.approved # {} => \A r \in rsArtifacts :
    /\ r.after < rsApprovals
    /\ r.selected => r.name \in rsRun.approved \/ r.raced

\* mark_researching: what an executor found is committed once, however often the run
\* is delivered.
OneResearchResult == rsResults <= 1

\* What a research run promises: an approval covers the sources of the run except those
\* whose requests it met halfway, a later one withdraws it, and the result of the run is
\* one (domain/research).
ResearchPromise ==
  /\ ApprovalIsWithdrawn
  /\ OneResearchResult

=============================================================================
