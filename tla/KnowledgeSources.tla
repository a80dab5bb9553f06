-------------------------- MODULE KnowledgeSources --------------------------
(***************************************************************************)
(* A knowledge source and its jobs (domain/knowledge).  A job's run locks  *)
(* the job and the source until it commits; what it does to the object     *)
(* store is done at once and is not undone by a rollback.  Several jobs of *)
(* one source may be queued, and are delivered in any order.               *)
(***************************************************************************)
EXTENDS Naturals, Sequences, FiniteSets

CONSTANTS
  KsContents,           \* what a page, or an uploaded file, may contain
  KsMaxAttempts,        \* attempts of a job
  KsMaxJobs             \* bound: KnowledgeJob rows

ASSUME KsBounds == KsMaxJobs \in Nat

VARIABLES
  ksSource,             \* KnowledgeSource: type, state, deleted_at, current version, object_key, hash
  ksVersions,           \* SourceVersion rows with their documents and chunks, by content_hash
  ksUpload,             \* the uploaded object, or "none"
  ksSnapshots,          \* stored copies of fetched pages
  ksJobs,               \* KnowledgeJob rows, oldest first
  ksMsg,                \* job -> a message is in the queue
  ksLost,               \* job -> an exception used its message up
  ksRun,                \* the run that has the source locked
  ksDeclared            \* history: content hashes given when an upload was completed

ksVars == <<ksSource, ksVersions, ksUpload, ksSnapshots, ksJobs, ksMsg, ksLost, ksRun, ksDeclared>>

Nothing == "none"
NoSource == [type |-> Nothing, state |-> "NONE", deleted |-> FALSE, current |-> Nothing,
             key |-> FALSE, hash |-> Nothing]
NoKsRun == [job |-> 0, source |-> NoSource, versions |-> {}, state |-> "none"]
KsJobIds == 1..KsMaxJobs

KsInit ==
  /\ ksSource = NoSource /\ ksVersions = {} /\ ksUpload = Nothing /\ ksSnapshots = {}
  /\ ksJobs = <<>> /\ ksMsg = [j \in KsJobIds |-> FALSE] /\ ksLost = [j \in KsJobIds |-> FALSE]
  /\ ksRun = NoKsRun /\ ksDeclared = {}

-----------------------------------------------------------------------------
(* Requests.                                                               *)

SourceFree == ksRun = NoKsRun

\* get_source(for_update=True)
LiveSource == ksSource # NoSource /\ ~ksSource.deleted /\ SourceFree

\* _queue_job, and the message after the commit
QueueJob(type) ==
  LET j == Len(ksJobs) + 1 IN
  /\ j <= KsMaxJobs
  /\ ksJobs' = Append(ksJobs, [type |-> type, state |-> "QUEUED", attempt |-> 0])
  /\ ksMsg' = [ksMsg EXCEPT ![j] = TRUE]
  /\ UNCHANGED ksLost

\* create_source with a uri and no content
CreateUrlSource ==
  /\ ksSource = NoSource /\ QueueJob("FETCH")
  /\ ksSource' = [NoSource EXCEPT !.type = "URL", !.state = "QUEUED"]
  /\ UNCHANGED <<ksVersions, ksUpload, ksSnapshots, ksRun, ksDeclared>>

\* create_source with content, for a URL too: its version is made at once, nothing is
\* stored and nothing is fetched.
CreateInlineSource(type, c) ==
  /\ ksSource = NoSource
  /\ ksSource' = [NoSource EXCEPT !.type = type, !.state = "READY", !.current = c]
  /\ ksVersions' = {c}
  /\ UNCHANGED <<ksUpload, ksSnapshots, ksJobs, ksMsg, ksLost, ksRun, ksDeclared>>

InitiateFileUpload ==
  /\ ksSource = NoSource
  /\ ksSource' = [NoSource EXCEPT !.type = "FILE", !.state = "UPLOADING", !.key = TRUE]
  /\ UNCHANGED <<ksVersions, ksUpload, ksSnapshots, ksJobs, ksMsg, ksLost, ksRun, ksDeclared>>

\* The client writes to the URL it was granted, at any time while that is valid.
ClientUploads(c) ==
  /\ ksSource.type = "FILE" /\ ksUpload # c /\ ksUpload' = c
  /\ UNCHANGED <<ksSource, ksVersions, ksSnapshots, ksJobs, ksMsg, ksLost, ksRun, ksDeclared>>

\* The object's size is looked at, not its content; the state is not looked at.
CompleteFileUpload(c) ==
  /\ LiveSource /\ ksSource.type = "FILE" /\ ksUpload # Nothing /\ QueueJob("PARSE")
  /\ ksSource' = [ksSource EXCEPT !.state = "SCANNING", !.hash = c]
  /\ ksDeclared' = ksDeclared \cup {c}
  /\ UNCHANGED <<ksVersions, ksUpload, ksSnapshots, ksRun>>

RequestSync ==
  /\ LiveSource /\ ksSource.type # "TEXT" /\ ksSource.state \notin {"QUEUED", "FETCHING", "PARSING"}
  /\ QueueJob("FETCH")
  /\ ksSource' = [ksSource EXCEPT !.state = "QUEUED"]
  /\ UNCHANGED <<ksVersions, ksUpload, ksSnapshots, ksRun, ksDeclared>>

RequestDelete ==
  /\ LiveSource /\ QueueJob("DELETE")
  /\ ksSource' = [ksSource EXCEPT !.state = "DELETING", !.deleted = TRUE]
  /\ UNCHANGED <<ksVersions, ksUpload, ksSnapshots, ksRun, ksDeclared>>

KnowledgeRequest ==
  \/ CreateUrlSource \/ InitiateFileUpload \/ RequestSync \/ RequestDelete
  \/ \E c \in KsContents :
       \/ ClientUploads(c) \/ CompleteFileUpload(c)
       \/ \E type \in {"TEXT", "URL"} : CreateInlineSource(type, c)

-----------------------------------------------------------------------------
(* process_knowledge_job                                                   *)

KsRunnable == {"QUEUED", "RETRYABLE_FAILED"}
KsJob(j) == ksJobs[j]

\* A delivery takes its message; the run ends with EndRun.
Delivered(j) == /\ j \in DOMAIN ksJobs /\ ksMsg[j] /\ SourceFree

KsDeliveryIgnored(j) ==
  /\ Delivered(j) /\ KsJob(j).state \notin KsRunnable
  /\ ksMsg' = [ksMsg EXCEPT ![j] = FALSE]
  /\ UNCHANGED <<ksSource, ksVersions, ksUpload, ksSnapshots, ksJobs, ksLost, ksRun, ksDeclared>>

\* What the run will commit.
Ends(j, source, versions, state) ==
  /\ Delivered(j) /\ KsJob(j).state \in KsRunnable
  /\ ksMsg' = [ksMsg EXCEPT ![j] = FALSE]
  /\ ksRun' = [job |-> j, source |-> source, versions |-> versions, state |-> state]
  /\ UNCHANGED <<ksSource, ksVersions, ksJobs, ksLost, ksDeclared>>

\* Deviation: the source is queued again whether or not the job will be.
AlwaysQueued(retryable) == "QUEUED"

SourceAfterFailure(retryable) == IF retryable THEN "QUEUED" ELSE "FAILED"

\* An AppError: status 500 and above is tried again while attempts are left.
EndsInError(j, temporary) ==
  LET retryable == temporary /\ KsJob(j).attempt + 1 < KsMaxAttempts IN
  Ends(j, [ksSource EXCEPT !.state = SourceAfterFailure(retryable)], ksVersions,
       IF retryable THEN "RETRYABLE_FAILED" ELSE "FINAL_FAILED")

\* _store_parsed_version: a version with this content is taken as it is, and then the
\* source is READY whatever the quality of the text.
StoreParsedVersion(j, c, poor) ==
  LET state == IF poor /\ c \notin ksVersions THEN "NEEDS_REVIEW" ELSE "READY" IN
  Ends(j, [ksSource EXCEPT !.state = state, !.current = c], ksVersions \cup {c},
       IF state = "READY" THEN "SUCCEEDED" ELSE "NEEDS_REVIEW")

\* _process_network_source: no uri, a failed fetch or scan, a page that does not parse;
\* or a page, which is stored before the version is.
FetchFails(j) ==
  /\ Delivered(j) /\ KsJob(j).type = "FETCH"
  /\ \E temporary \in BOOLEAN : (temporary => ksSource.type = "URL") /\ EndsInError(j, temporary)
  /\ UNCHANGED <<ksUpload, ksSnapshots>>

FetchStores(j) ==
  /\ Delivered(j) /\ KsJob(j).type = "FETCH" /\ ksSource.type = "URL"
  /\ \E c \in KsContents, poor \in BOOLEAN :
       /\ StoreParsedVersion(j, c, poor)
       /\ ksSnapshots' = ksSnapshots \cup {c}
  /\ UNCHANGED ksUpload

\* _process_file: no metadata, no object, no scanner, or a text that does not parse.
ParseFails(j) ==
  /\ Delivered(j) /\ KsJob(j).type = "PARSE"
  /\ \E temporary \in BOOLEAN : (temporary => ksSource.key) /\ EndsInError(j, temporary)
  /\ UNCHANGED <<ksUpload, ksSnapshots>>

DigestMatches == ksUpload = ksSource.hash

\* Malware, or another digest: the object is deleted before the error is recorded.
ParseRejects(j) ==
  /\ Delivered(j) /\ KsJob(j).type = "PARSE" /\ ksSource.key /\ ksUpload # Nothing
  /\ EndsInError(j, FALSE)
  /\ ksUpload' = Nothing /\ UNCHANGED ksSnapshots

\* No text in the file.
ParseEmpty(j) ==
  /\ Delivered(j) /\ KsJob(j).type = "PARSE" /\ ksSource.key /\ ksUpload # Nothing /\ DigestMatches
  /\ Ends(j, [ksSource EXCEPT !.state = "NEEDS_REVIEW"], ksVersions, "NEEDS_REVIEW")
  /\ UNCHANGED <<ksUpload, ksSnapshots>>

ParseStores(j) ==
  /\ Delivered(j) /\ KsJob(j).type = "PARSE" /\ ksSource.key /\ ksUpload # Nothing /\ DigestMatches
  /\ \E poor \in BOOLEAN : StoreParsedVersion(j, ksUpload, poor)
  /\ UNCHANGED <<ksUpload, ksSnapshots>>

\* _delete_source_data: the objects one by one, then the rows.  The source still names
\* its current version when the versions are deleted, and that foreign key is RESTRICT,
\* which PostgreSQL does not defer: with a version the run ends in an exception.
DeleteSourceData(j) ==
  /\ Delivered(j) /\ KsJob(j).type = "DELETE"
  /\ IF ksSource.current = Nothing
     THEN Ends(j, [ksSource EXCEPT !.state = "DELETED", !.key = FALSE, !.hash = Nothing], {}, "SUCCEEDED")
     ELSE Ends(j, ksSource, ksVersions, "EXCEPTION")
  /\ ksSnapshots' = ksSnapshots \ ksVersions
  /\ ksUpload' = IF ksSource.key THEN Nothing ELSE ksUpload

DeleteFails(j) ==
  /\ Delivered(j) /\ KsJob(j).type = "DELETE"
  /\ \E temporary \in BOOLEAN : EndsInError(j, temporary)
  /\ \E gone \in SUBSET (ksSnapshots \cap ksVersions) : ksSnapshots' = ksSnapshots \ gone
  /\ UNCHANGED ksUpload

KsCommit ==
  LET j == ksRun.job IN
  /\ ksRun # NoKsRun /\ ksRun.state # "EXCEPTION"
  /\ ksSource' = ksRun.source /\ ksVersions' = ksRun.versions
  /\ ksJobs' = [ksJobs EXCEPT ![j] = [type |-> @.type, state |-> ksRun.state, attempt |-> @.attempt + 1]]
  /\ ksMsg' = [ksMsg EXCEPT ![j] = ksRun.state = "RETRYABLE_FAILED"]
  /\ ksRun' = NoKsRun
  /\ UNCHANGED <<ksUpload, ksSnapshots, ksLost, ksDeclared>>

\* A crashed worker's message is delivered again; an exception that is not an AppError
\* uses it up (another one: the page redirects to the URL of another source).
Redelivered(j) ==
  \/ ksRun.state # "EXCEPTION" /\ ksMsg' = [ksMsg EXCEPT ![j] = TRUE] /\ UNCHANGED ksLost
  \/ ksLost' = [ksLost EXCEPT ![j] = TRUE] /\ UNCHANGED ksMsg

KsRolledBack ==
  /\ ksRun # NoKsRun /\ Redelivered(ksRun.job)
  /\ ksRun' = NoKsRun
  /\ UNCHANGED <<ksSource, ksVersions, ksUpload, ksSnapshots, ksJobs, ksDeclared>>

KnowledgeRun ==
  \/ \E j \in KsJobIds :
       \/ KsDeliveryIgnored(j) \/ FetchFails(j) \/ FetchStores(j) \/ ParseFails(j) \/ ParseRejects(j)
       \/ ParseEmpty(j) \/ ParseStores(j) \/ DeleteSourceData(j) \/ DeleteFails(j)
  \/ KsCommit \/ KsRolledBack

KsNext == KnowledgeRequest \/ KnowledgeRun

KsSpec == KsInit /\ [][KsNext]_ksVars

-----------------------------------------------------------------------------
(* Properties.                                                             *)

\* request_sync refuses a source that is QUEUED: such a source has a job that will
\* run, whichever of its jobs failed or finished last.
BusySourceHasJob ==
  ksSource.state \in {"QUEUED", "SCANNING"} =>
    \E j \in DOMAIN ksJobs : KsJob(j).state \in KsRunnable

\* process_knowledge_job_task: a job that is to run has a message or a run, unless an
\* exception used its message up.
NoKnowledgeJobForgotten ==
  \A j \in DOMAIN ksJobs : KsJob(j).state \in KsRunnable =>
    ksMsg[j] \/ ksRun.job = j \/ ksLost[j]

\* _process_file: every version of a file is one whose hash the uploader gave, also
\* when the object was written again after that.
VersionsWereDeclared == ksSource.type = "FILE" => ksVersions \subseteq ksDeclared

\* _delete_source_data: once the deletion of a source has succeeded nothing of it is
\* left.  A fetch that was queued before stores it again.
DeletedDataIsGone ==
  (\E j \in DOMAIN ksJobs : KsJob(j).type = "DELETE" /\ KsJob(j).state = "SUCCEEDED")
    => ksVersions = {}

\* What knowledge sources promise: a busy source has a job and the job a message, and
\* files are what was declared (domain/knowledge).
KnowledgePromise ==
  /\ BusySourceHasJob
  /\ NoKnowledgeJobForgotten
  /\ VersionsWereDeclared

=============================================================================
