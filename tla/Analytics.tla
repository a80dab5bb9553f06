------------------------------ MODULE Analytics ------------------------------
(***************************************************************************)
(* Analytics (domain/analytics): synchronisation runs that store the facts *)
(* a provider reports, report runs that store one artifact per format, and *)
(* the evidence clients submit under identifiers of their own.  A worker   *)
(* holds the row of its run for the whole of its one transaction, and an   *)
(* error is recorded in that transaction: what was written before the      *)
(* error stays.  Only an error of the store takes everything back.         *)
(***************************************************************************)
EXTENDS Naturals, FiniteSets, JobState

CONSTANTS
  AnSyncs, AnReports,   \* synchronisation runs and report runs
  AnFacts,              \* facts of the provider, by external_fact_id
  AnFormats,            \* formats of the report definition
  AnHashes,             \* hashes a rendered artifact may have
  AnClients,            \* clients submitting evidence
  AnCompared, AnOthers, \* what a submission says that every kind compares, and the rest
  AnMaxMessages,        \* bound: messages of a run at a time
  AnMaxAttempts         \* bound: retries of a run

VARIABLES
  anJobs,               \* AnalyticsSyncRun, AnalyticsReportRun: state, attempt
  anCalls,              \* runs with an AnalyticsProviderCall
  anStored,             \* fact |-> the run whose call reported it
  anResults,            \* run |-> the facts of its recorded result
  anArtifacts,          \* report |-> format |-> hash of its artifact
  anMail,               \* messages of a run
  anDropped,            \* runs whose message was never sent, or is gone while they still wait
  evKind,               \* the kind of evidence one external identifier is about
  evRows,               \* rows stored under that identifier
  evClients             \* what a client asks for, and how far its request is

anVars == <<anJobs, anCalls, anStored, anResults, anArtifacts, anMail, anDropped,
            evKind, evRows, evClients>>
syncVars == <<anCalls, anStored, anResults>>
evVars == <<evKind, evRows, evClients>>

AnJobs == AnSyncs \cup AnReports
NoOne == "no one"
NoHash == "no hash"
EvContents == [compared : AnCompared, other : AnOthers]
EvIdle == [state |-> "idle", content |-> NoHash]

ASSUME AnNames ==
  /\ NoOne \notin AnSyncs /\ NoHash \notin AnHashes
  /\ AnSyncs \cap AnReports = {} /\ AnFormats # {}

AnInit ==
  /\ anJobs = [j \in AnJobs |-> [state |-> "NONE", attempt |-> 0]]
  /\ anCalls = {} /\ anStored = [f \in AnFacts |-> NoOne]
  /\ anResults = [j \in AnSyncs |-> {}]
  /\ anArtifacts = [j \in AnReports |-> [f \in AnFormats |-> NoHash]]
  /\ anMail = [j \in AnJobs |-> 0] /\ anDropped = {}
  /\ evKind \in {"batch", "click", "conversion"} /\ evRows = {}
  /\ evClients = [c \in AnClients |-> EvIdle]

-----------------------------------------------------------------------------
(* Requests.  The message is sent after the commit and may be lost.        *)

AnEnqueue(j) ==
  \/ anMail[j] < AnMaxMessages /\ anMail' = [anMail EXCEPT ![j] = @ + 1] /\ UNCHANGED anDropped
  \/ anDropped' = anDropped \cup {j} /\ UNCHANGED anMail

CreateRun(j) ==
  /\ anJobs[j].state = "NONE"
  /\ anJobs' = [anJobs EXCEPT ![j].state = "QUEUED"]
  /\ AnEnqueue(j) /\ UNCHANGED <<syncVars, anArtifacts, evVars>>

CreateSync(j) == j \in AnSyncs /\ CreateRun(j)
CreateReportRun(j) == j \in AnReports /\ CreateRun(j)

\* ensure_job_transition
CommandAllowed(j, target) ==
  /\ anJobs[j].state # "NONE" /\ EnsureJobTransition(anJobs[j].state, target)

Commanded(j, target) ==
  [state |-> target,
   attempt |-> IF target = "QUEUED" THEN anJobs[j].attempt + 1 ELSE anJobs[j].attempt]

CommandRun(j, target) ==
  /\ CommandAllowed(j, target)
  /\ target = "QUEUED" => anJobs[j].attempt < AnMaxAttempts
  /\ anJobs' = [anJobs EXCEPT ![j] = Commanded(j, target)]
  /\ AnEnqueue(j) /\ UNCHANGED <<syncVars, anArtifacts, evVars>>

CommandSync(j) == j \in AnSyncs /\ \E t \in {"CANCEL_REQUESTED", "QUEUED"} : CommandRun(j, t)
CommandReport(j) == j \in AnReports /\ \E t \in {"CANCEL_REQUESTED", "QUEUED"} : CommandRun(j, t)

\* A command repeated under its key: nothing changes, but a message is sent again.
RepeatCommand(j) ==
  /\ anJobs[j].state \in {"CANCEL_REQUESTED", "QUEUED"} /\ anMail[j] = 0
  /\ anJobs[j].state = "QUEUED" => anJobs[j].attempt > 0
  /\ AnEnqueue(j) /\ UNCHANGED <<anJobs, syncVars, anArtifacts, evVars>>

-----------------------------------------------------------------------------
(* The workers.                                                            *)

\* The message is acknowledged after the commit, unless the worker is lost first.
AnAcknowledges(j) == anMail' \in {anMail, [anMail EXCEPT ![j] = @ - 1]}

COMPLETED_ATTEMPT_STATES == {"SUCCEEDED", "RETRYABLE_FAILED", "FINAL_FAILED", "CANCELLED"}

AnDelivered(j) == anMail[j] > 0

\* Deviation: a cancellation that was asked for is not looked at.
FinalizesNothing(j) == FALSE

\* finalize_sync_cancellation, finalize_report_cancellation
FinalizesCancellation(j) == anJobs[j].state = "CANCEL_REQUESTED"

Finalize(j) ==
  /\ AnDelivered(j) /\ FinalizesCancellation(j)
  /\ anJobs' = [anJobs EXCEPT ![j].state = "CANCELLED"]
  /\ AnAcknowledges(j) /\ UNCHANGED <<syncVars, anArtifacts, anDropped, evVars>>

AnReturns(j) ==
  /\ AnDelivered(j) /\ anJobs[j].state \in COMPLETED_ATTEMPT_STATES
  /\ anMail' = [anMail EXCEPT ![j] = @ - 1]
  /\ UNCHANGED <<anJobs, syncVars, anArtifacts, anDropped, evVars>>

AnRuns(j) ==
  AnDelivered(j) /\ ~FinalizesCancellation(j) /\ anJobs[j].state \notin COMPLETED_ATTEMPT_STATES

Failures == {"RETRYABLE_FAILED", "FINAL_FAILED"}

\* fail_sync_runtime, fail_report_runtime, before anything was written.
FailRuntime(j) ==
  /\ AnRuns(j)
  /\ \E s \in Failures : anJobs' = [anJobs EXCEPT ![j].state = s]
  /\ AnAcknowledges(j) /\ UNCHANGED <<syncVars, anArtifacts, anDropped, evVars>>

\* One call per run and request (analytics_call_request), one row per fact of
\* the provider (analytics_*_fact_source).
StoreRefuses(j, facts) == j \in anCalls \/ \E f \in facts : anStored[f] # NoOne

\* Every fact names a metric of the snapshot and its subject.
EveryFactDeclared(j, read, all) == read = all

\* record_provider_result: the call, its facts and the state of the run.  A fact
\* that was not asked for, or that lacks a dimension, ends the run with an error,
\* but not what was added before it.
RecordProviderResult(j, read, all) ==
  /\ AnRuns(j) /\ ~StoreRefuses(j, read)
  /\ anCalls' = anCalls \cup {j}
  /\ anStored' = [f \in AnFacts |-> IF f \in read THEN j ELSE anStored[f]]
  /\ IF EveryFactDeclared(j, read, all)
     THEN /\ anJobs' = [anJobs EXCEPT ![j].state = "SUCCEEDED"]
          /\ anResults' = [anResults EXCEPT ![j] = all]
     ELSE /\ \E s \in Failures : anJobs' = [anJobs EXCEPT ![j].state = s]
          /\ UNCHANGED anResults
  /\ AnAcknowledges(j) /\ UNCHANGED <<anArtifacts, anDropped, evVars>>

\* The store refuses the call or a fact: the session can no longer record an
\* error either, the transaction is rolled back and the message is gone.
StoreError(j, read) ==
  /\ AnRuns(j) /\ StoreRefuses(j, read)
  /\ anMail' = [anMail EXCEPT ![j] = @ - 1] /\ anDropped' = anDropped \cup {j}
  /\ UNCHANGED <<anJobs, syncVars, anArtifacts, evVars>>

RunSync(j) ==
  \/ Finalize(j) \/ AnReturns(j) \/ FailRuntime(j)
  \/ \E all \in SUBSET AnFacts : \E read \in SUBSET all : RecordProviderResult(j, read, all)
  \/ \E read \in SUBSET AnFacts : StoreError(j, read)

\* record_report_artifact ends the run with its last artifact, and
\* fail_report_runtime leaves a run that is over alone.
ReportState(j, artifacts, error) ==
  IF \A f \in AnFormats : artifacts[f] # NoHash THEN "SUCCEEDED" ELSE error

\* The executor (external) renders formats in some order until it is done or
\* fails; an artifact there already must have the same hash.
RenderReport(j) ==
  /\ AnRuns(j)
  /\ \E rendered \in SUBSET AnFormats : \E hash \in AnHashes : \E error \in Failures :
       LET clash == \E f \in rendered : anArtifacts[j][f] \notin {NoHash, hash}
           done == {f \in rendered : anArtifacts[j][f] = NoHash}
       IN \E written \in IF clash THEN SUBSET done ELSE {done} :
            /\ anArtifacts' = [anArtifacts EXCEPT ![j] =
                 [f \in AnFormats |-> IF f \in written THEN hash ELSE @[f]]]
            /\ anJobs' = [anJobs EXCEPT ![j].state =
                 ReportState(j, anArtifacts'[j], IF clash THEN "FINAL_FAILED" ELSE error)]
  /\ AnAcknowledges(j) /\ UNCHANGED <<syncVars, anDropped, evVars>>

\* Or it returns before it is done, and without an error: the run stays as it was,
\* and its message is acknowledged.
StopsEarly(j) ==
  /\ AnRuns(j)
  /\ \E written \in SUBSET AnFormats, hash \in AnHashes :
       /\ \A f \in written : anArtifacts[j][f] = NoHash
       /\ \E f \in AnFormats \ written : anArtifacts[j][f] = NoHash
       /\ anArtifacts' = [anArtifacts EXCEPT ![j] =
            [f \in AnFormats |-> IF f \in written THEN hash ELSE @[f]]]
  /\ AnAcknowledges(j)
  /\ anDropped' = IF anMail' = anMail THEN anDropped ELSE anDropped \cup {j}
  /\ UNCHANGED <<anJobs, syncVars, evVars>>

RunReport(j) == Finalize(j) \/ AnReturns(j) \/ FailRuntime(j) \/ RenderReport(j) \/ StopsEarly(j)

-----------------------------------------------------------------------------
(* Evidence: batches, clicks and conversions, each under the identifier    *)
(* its client gave it.  The row is looked up before it is inserted.        *)

\* A batch compares its object_hash but not its mapping, a click everything but its
\* referrer, a conversion the hash of the whole request.
Agrees(stored, sent) ==
  stored.compared = sent.compared /\ (evKind = "conversion" => stored = sent)

\* The stored row is returned, when it agrees.
LookUpEvidence(c, content) ==
  /\ evClients[c].state = "idle"
  /\ evClients' = [evClients EXCEPT ![c] =
       [state |-> IF evRows = {} THEN "inserting"
                  ELSE IF \E row \in evRows : Agrees(row, content) THEN "accepted" ELSE "refused",
        content |-> content]]
  /\ UNCHANGED <<evKind, evRows>>

\* analytics_evidence_source, analytics_click_event, analytics_conversion_source
EvidenceIsNew(content) == evRows = {}

InsertEvidence(c) ==
  /\ evClients[c].state = "inserting"
  /\ IF EvidenceIsNew(evClients[c].content)
     THEN /\ evRows' = evRows \cup {evClients[c].content}
          /\ evClients' = [evClients EXCEPT ![c].state = "accepted"]
     ELSE /\ evClients' = [evClients EXCEPT ![c].state = "refused"] /\ UNCHANGED evRows
  /\ UNCHANGED evKind

\* A client that was refused, or whose answer was lost, tries again.
AskAgain(c) ==
  /\ evClients[c].state \in {"refused", "accepted"}
  /\ evClients' = [evClients EXCEPT ![c] = EvIdle] /\ UNCHANGED <<evKind, evRows>>

EvidenceNext ==
  /\ \E c \in AnClients :
       (\E content \in EvContents : LookUpEvidence(c, content)) \/ InsertEvidence(c) \/ AskAgain(c)
  /\ UNCHANGED <<anJobs, syncVars, anArtifacts, anMail, anDropped>>

SyncNext == \E j \in AnSyncs : CreateSync(j) \/ CommandSync(j) \/ RepeatCommand(j) \/ RunSync(j)

ReportNext ==
  \E j \in AnReports : CreateReportRun(j) \/ CommandReport(j) \/ RepeatCommand(j) \/ RunReport(j)

AnNext == EvidenceNext \/ SyncNext \/ ReportNext
AnSpec == AnInit /\ [][AnNext]_anVars

-----------------------------------------------------------------------------
(* Properties.                                                             *)

\* A synchronisation that succeeded stored every fact of its result under its
\* own call, and no later run has taken one of them over: record_provider_result
\* never marks a run as done with some of the facts it reports missing.
ResultIsStored ==
  \A j \in AnSyncs : anJobs[j].state = "SUCCEEDED" =>
    j \in anCalls /\ \A f \in anResults[j] : anStored[f] = j

\* A run that was cancelled, or asked to be, never records a result afterwards,
\* and a run that is over stays as it is: commands, repeated commands and
\* redelivered messages included.
AnalyticsEndIsFinal ==
  \A j \in AnJobs :
    /\ anJobs[j].state \in TERMINAL_JOB_STATES => anJobs'[j] = anJobs[j]
    /\ anJobs[j].state = "CANCEL_REQUESTED" =>
         /\ anJobs'[j].state \in {"CANCEL_REQUESTED", "CANCELLED"}
         /\ (j \in anCalls') = (j \in anCalls)

\* A run that waits for a worker has a message, unless its message was never sent,
\* was lost to an error of the store, or went with a report executor that returned
\* before it was done: no worker that is lost, and no command, leaves a run waiting
\* for nothing.
NoAnalyticsRunForgotten ==
  \A j \in AnJobs :
    anJobs[j].state \in {"QUEUED", "CANCEL_REQUESTED"} /\ j \notin anDropped => anMail[j] > 0

\* A report succeeded exactly when every format of its definition has its
\* artifact, whatever the executor did after the last one and however many
\* attempts it took.
ReportIsComplete ==
  \A j \in AnReports :
    (anJobs[j].state = "SUCCEEDED") = (\A f \in AnFormats : anArtifacts[j][f] # NoHash)

\* A client told that its evidence was accepted finds a row that agrees with it in
\* what its kind compares, and nothing else under that identifier: also when several
\* looked it up before any of them inserted it.  The rest is the first submission's.
AcceptedEvidenceIsStored ==
  /\ Cardinality(evRows) <= 1
  /\ \A c \in AnClients :
       evClients[c].state = "accepted" => \E row \in evRows : Agrees(row, evClients[c].content)

\* What was stored first stays: no later submission, accepted or refused, changes it.
FirstEvidenceStays == evRows # {} => evRows' = evRows

\* What analytics promise: a success has stored all of its result, ends stay, and what
\* waits has a message (domain/analytics).
AnalyticsPromise ==
  [][ /\ ( /\ ResultIsStored
           /\ NoAnalyticsRunForgotten
           /\ ReportIsComplete
           /\ AcceptedEvidenceIsStored )'
      /\ AnalyticsEndIsFinal
      /\ FirstEvidenceStays ]_anVars

=============================================================================
