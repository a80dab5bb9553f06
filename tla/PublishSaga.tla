----------------------------- MODULE PublishSaga -----------------------------
(***************************************************************************)
(* The publishing saga (domain/publishing): durable publish jobs that a    *)
(* Celery worker executes against a remote CMS.                            *)
(*                                                                         *)
(* A worker run is one database transaction that holds the job row and the *)
(* connection row (SELECT ... FOR UPDATE) from its first statement to its  *)
(* commit, so at most one run is under way on the connection modelled      *)
(* here.  What the run changes in the database is kept in `run' and only   *)
(* reaches the tables when it commits; what it changes on the CMS is there *)
(* at once and survives a crash.  Between two calls of a run people edit   *)
(* the remote post, the CMS publishes what is due, and the API accepts     *)
(* requests for the rows the run has not locked.                           *)
(*                                                                         *)
(* One connection, one channel, one site-local day and one media item are  *)
(* modelled.  PublishedPost rows are named by the CREATE job that made     *)
(* them (created_by_job_id).  PublishSagaStep, PublishAttempt,             *)
(* notification, audit and outbox rows never guard a step and are left     *)
(* out.                                                                    *)
(***************************************************************************)
EXTENDS Integers, FiniteSets, JobState

CONSTANTS
  Jobs,               \* publish jobs
  NoJob,              \* "no job" / "no post" (a null foreign key)
  NoRun,              \* no worker run is under way
  Creators,           \* the jobs that publish new posts; the others change
  Operations,         \* published posts, with these operations
  Visibilities,       \* the visibilities requested in this instance
  ConditionalWrites,  \* the CMS refuses a write that is based on a stale read
                      \* (Ghost, Blogger) or accepts it (WordPress)
  SearchedStates,     \* the states of the posts a search for the marker returns:
                      \* all (Ghost), or only published ones, which is what a
                      \* WordPress list holds when no status is asked for
  LossyEnqueue,       \* the API process may die between commit and enqueue
  MaxAttempts,        \* PublishJob.max_attempts
  MaxRetries,         \* max_retries of the Celery task
  QuotaLimit,         \* the policy's daily quota
  MaxCrashes,         \* bound: workers lost
  MaxFaults,          \* bound: runs ended by an unexpected exception
  MaxEdits            \* bound: edits and deletions made by people on the CMS

ASSUME PublishAssumption ==
  /\ NoJob \notin Jobs /\ Creators \subseteq Jobs
  /\ MaxAttempts \in Nat \ {0} /\ QuotaLimit \in Nat
  /\ MaxRetries \in Nat /\ MaxCrashes \in Nat /\ MaxFaults \in Nat /\ MaxEdits \in Nat
  /\ ConditionalWrites \in BOOLEAN /\ LossyEnqueue \in BOOLEAN
  /\ Operations \subseteq {"UPDATE", "DELETE", "RECONCILE", "ROLLBACK"}
  /\ Visibilities \subseteq {"DRAFT", "PUBLISH", "SCHEDULED"}
  /\ SearchedStates \subseteq {"draft", "scheduled", "published"}

VARIABLES
  jobs,      \* PublishJob rows
  posts,     \* PublishedPost rows
  bound,     \* the PublishedMediaBinding of the media item exists
  quota,     \* the day's PublishQuotaUsage row
  remote,    \* the posts on the CMS
  uploads,   \* copies of the media item the CMS has stored (2: or more)
  msgs,      \* deliveries of publishing.process in the broker: how many per job
             \* and number of retries made
  run,       \* the worker run under way, or NoRun
  crashes, faults, edits

vars == <<jobs, posts, bound, quota, remote, uploads, msgs, run, crashes, faults, edits>>

NoRow ==
  [ op |-> "NONE", state |-> "NONE", attempt |-> 0, started |-> FALSE,
    cancel |-> FALSE, target |-> NoJob, expected |-> 0, action |-> "ABORT",
    vis |-> "DRAFT", completed |-> FALSE, released |-> FALSE ]

NoPost == [ state |-> "NONE", id |-> 0, hash |-> 0, body |-> 0, snapped |-> FALSE ]

\* id counts the posts ever created for the marker, copies those that exist;
\* editor is the job that last changed the text, NoJob a person.
NoRemote ==
  [ state |-> "gone", id |-> 0, hash |-> 0, body |-> 0, copies |-> 0,
    editor |-> NoJob ]

Init ==
  /\ jobs = [j \in Jobs |-> NoRow]
  /\ posts = [j \in Jobs |-> NoPost]
  /\ bound = FALSE
  /\ quota = [reserved |-> 0, completed |-> 0]
  /\ remote = [j \in Jobs |-> NoRemote]
  /\ uploads = 0
  /\ msgs = [j \in Jobs |-> [r \in 0..MaxRetries |-> 0]]
  /\ run = NoRun
  /\ crashes = 0 /\ faults = 0 /\ edits = 0

Locked(j) == run # NoRun /\ run.job = j

-----------------------------------------------------------------------------
(* API requests.                                                           *)

\* The response's background task hands the job to the broker after commit.
Enqueue(j) ==
  \/ msgs' = [msgs EXCEPT ![j][0] = @ + 1]
  \/ LossyEnqueue /\ UNCHANGED msgs

Metered == {"CREATE", "UPDATE"}

ReserveQuota(op) ==
  IF op \in Metered
  THEN /\ quota.reserved < QuotaLimit
       /\ quota' = [quota EXCEPT !.reserved = @ + 1]
  ELSE UNCHANGED quota

CreateJob(j, op, post, hash, vis, action) ==
  /\ jobs[j] = NoRow
  /\ IF j \in Creators THEN op = "CREATE" ELSE op \in Operations
  /\ ReserveQuota(op)
  /\ jobs' = [jobs EXCEPT ![j] =
                [NoRow EXCEPT !.op = op, !.state = "SCHEDULED",
                              !.target = post, !.expected = hash,
                              !.vis = vis, !.action = action]]
  /\ Enqueue(j)
  /\ UNCHANGED <<posts, bound, remote, uploads, run, crashes, faults, edits>>

CreatePublishJob(j) ==
  \E vis \in Visibilities : CreateJob(j, "CREATE", NoJob, 0, vis, "ABORT")

\* The status a rollback restores is that of the snapshot the user picked.
ChangePublishedPost(j, op) ==
  \E p \in Jobs, vis \in (IF op = "DELETE" THEN {"DRAFT"} ELSE Visibilities),
     action \in (IF op = "UPDATE" THEN {"ABORT", "OVERWRITE", "IMPORT_REMOTE"}
                                  ELSE {"ABORT"}) :
    /\ posts[p].state # "NONE"
    /\ CreateJob(j, op, p, posts[p].hash, vis, action)

\* OVERWRITE needs a job that published the post, and reuses its visibility
\* unless its schedule has passed.
ReconcilePublishedPost(j) ==
  \E p \in Jobs, action \in {"ABORT", "OVERWRITE", "IMPORT_REMOTE"} :
    /\ posts[p].state # "NONE"
    /\ IF action # "OVERWRITE"
       THEN CreateJob(j, "RECONCILE", p, posts[p].hash, "DRAFT", action)
       ELSE \E s \in Jobs :
              /\ jobs[s].op \in Metered /\ jobs[s].target = p
              /\ jobs[s].state \in {"SUCCEEDED", "PARTIAL"}
              /\ \E vis \in {jobs[s].vis} \cup
                     (IF jobs[s].vis = "SCHEDULED" THEN {"PUBLISH"} ELSE {}) :
                   CreateJob(j, "RECONCILE", p, posts[p].hash, vis, action)

\* The periodic sweep skips posts whose row a run has locked.
ScheduleReconciliation(j) ==
  \E p \in Jobs :
    /\ posts[p].state \notin {"NONE", "DELETED", "TRASHED"}
    /\ ~(run # NoRun /\ run.subject = p)
    /\ \A k \in Jobs : ~ /\ jobs[k].op = "RECONCILE" /\ jobs[k].target = p
                         /\ jobs[k].state \in {"SCHEDULED", "PUBLISHING",
                                               "RETRYABLE_FAILED"}
    /\ CreateJob(j, "RECONCILE", p, posts[p].hash, "DRAFT", "ABORT")

Cancellable(row) ==
  \/ row.state = "SCHEDULED" /\ ~row.started
  \/ /\ row.state \in {"RETRYABLE_FAILED", "SUCCEEDED"}
     /\ row.target # NoJob
     /\ posts[row.target].state = "SCHEDULED"

CancelPublishJob(j) ==
  /\ ~Locked(j)
  /\ Cancellable(jobs[j])
  /\ jobs' = [jobs EXCEPT ![j].state = "CANCEL_REQUESTED", ![j].cancel = TRUE]
  /\ Enqueue(j)
  /\ UNCHANGED <<posts, bound, quota, remote, uploads, run, crashes, faults, edits>>

\* A PARTIAL job needs a recorded media failure of a retryable class; the
\* upload loop re-raises those, so a PARTIAL job has none and is refused.
RetryPublishJob(j) ==
  /\ ~Locked(j)
  /\ jobs[j].state = "RETRYABLE_FAILED"
  /\ jobs[j].attempt < MaxAttempts
  /\ jobs' = [jobs EXCEPT ![j].state = "SCHEDULED"]
  /\ Enqueue(j)
  /\ UNCHANGED <<posts, bound, quota, remote, uploads, run, crashes, faults, edits>>

-----------------------------------------------------------------------------
(* What a run does to the rows it holds.                                   *)

\* task.retry: the delivery is put back with one retry less, and dropped
\* (MaxRetriesExceededError) when it has none left.
Retried(j, r) ==
  IF r < MaxRetries THEN [msgs[j] EXCEPT ![r] = @ - 1, ![r + 1] = @ + 1]
                    ELSE [msgs[j] EXCEPT ![r] = @ - 1]

\* Deviation: a retryable failure is acknowledged and not put back.
AcknowledgeEverything(j, r, state) ==
  msgs' = [msgs EXCEPT ![j][r] = @ - 1] /\ UNCHANGED <<crashes, faults>>

\* process_publish_job_task after the commit.  acks_late: a worker lost before
\* the acknowledgement sees the delivery again, one lost after putting the
\* retry into the broker leaves both.
Acknowledge(j, r, state) ==
  LET again == state = "RETRYABLE_FAILED"
  IN  /\ \/ /\ msgs' = [msgs EXCEPT ![j] = IF again THEN Retried(j, r)
                                          ELSE [msgs[j] EXCEPT ![r] = @ - 1]]
            /\ UNCHANGED crashes
         \/ /\ crashes < MaxCrashes /\ crashes' = crashes + 1
            /\ \/ UNCHANGED msgs
               \/ again /\ r < MaxRetries /\ msgs' = [msgs EXCEPT ![j][r + 1] = @ + 1]
      /\ UNCHANGED faults

\* _release_quota: a completed publication is only given back when its
\* schedule was released; a reservation is given back once.
Reverses(row, reverse) ==
  row.op \in Metered /\ ~row.released /\ reverse /\ row.completed

Returns(row) ==
  /\ row.op \in Metered /\ ~row.released /\ ~row.completed
  /\ quota.reserved > quota.completed

ReleasedRow(row, reverse) ==
  [row EXCEPT !.released = @ \/ Reverses(row, reverse) \/ Returns(row)]

AtLeastZero(n) == IF n < 0 THEN 0 ELSE n

ReleasedQuota(row, reverse) ==
  CASE Reverses(row, reverse) -> [reserved  |-> AtLeastZero(quota.reserved - 1),
                                  completed |-> AtLeastZero(quota.completed - 1)]
    [] Returns(row) -> [quota EXCEPT !.reserved = @ - 1]
    [] OTHER -> quota

CompletedQuota(row) ==
  IF row.op \in Metered /\ ~row.completed
  THEN [quota EXCEPT !.completed = @ + 1] ELSE quota

\* The transaction commits: working copies reach the tables.
Commit(row, post, binding, newQuota) ==
  /\ jobs' = [jobs EXCEPT ![run.job] = row]
  /\ posts' = [posts EXCEPT ![run.subject] = post]
  /\ bound' = binding
  /\ quota' = newQuota
  /\ run' = NoRun
  /\ Acknowledge(run.job, run.retries, row.state)

\* _complete_job; only CREATE and UPDATE reach it through _complete_quota.
Complete(post, counted) ==
  LET row == [run.row EXCEPT
                !.state = IF run.partial THEN "PARTIAL" ELSE "SUCCEEDED",
                !.completed = @ \/ (counted /\ run.row.op \in Metered)]
  IN  Commit(row, post, run.bound,
             IF counted THEN CompletedQuota(run.row) ELSE quota)

\* Deviation: a final failure keeps the reservation.
FailFinallyKeepingQuota(row, post) ==
  Commit([row EXCEPT !.state = "FINAL_FAILED"], post, run.bound, quota)

\* _final_failure, and the exhausted branch of a provider failure.
FailFinally(row, post) ==
  Commit([ReleasedRow(row, FALSE) EXCEPT !.state = "FINAL_FAILED"],
         post, run.bound, ReleasedQuota(row, FALSE))

\* A ProviderFailure ends the run but commits what the run did before it.
ProviderFailure(retryable, post) ==
  IF retryable /\ run.row.attempt < MaxAttempts
  THEN Commit([run.row EXCEPT !.state = "RETRYABLE_FAILED"], post, run.bound, quota)
  ELSE FailFinally(run.row, post)

\* The same for a run that cancels: no quota is given back.
CancelFailure(retryable) ==
  LET state == IF retryable /\ run.row.attempt < MaxAttempts
               THEN "RETRYABLE_FAILED" ELSE "FINAL_FAILED"
  IN  Commit([run.row EXCEPT !.state = state], run.post, run.bound, quota)

PostState(remoteState, partial) ==
  CASE partial -> "PARTIAL"
    [] ~partial /\ remoteState = "published" -> "PUBLISHED"
    [] ~partial /\ remoteState = "scheduled" -> "SCHEDULED"
    [] OTHER -> "DRAFT"

ApplyRemote(r, partial, snapped) ==
  [ state |-> PostState(r.state, partial), id |-> r.id, hash |-> r.hash,
    body |-> r.body, snapped |-> snapped ]

-----------------------------------------------------------------------------
(* Taking a delivery.                                                      *)

Delivered(j, r) == run = NoRun /\ msgs[j][r] > 0

\* Deviation: a redelivery of a cancelled job is executed.
FinishedUnlessCancelled(row) ==
  \/ row.state \in {"PARTIAL", "FINAL_FAILED"}
  \/ row.state = "SUCCEEDED" /\ ~row.cancel

\* A job that is over, or already done and not being cancelled.
Finished(row) ==
  \/ row.state \in {"PARTIAL", "FINAL_FAILED", "CANCELLED"}
  \/ row.state = "SUCCEEDED" /\ ~row.cancel

Ignore(j, r) ==
  /\ Delivered(j, r) /\ Finished(jobs[j])
  /\ Acknowledge(j, r, jobs[j].state)
  /\ UNCHANGED <<jobs, posts, bound, quota, remote, uploads, run, edits>>

NeverStarted(row) == row.cancel /\ row.state = "CANCEL_REQUESTED" /\ ~row.started

CancelLocalJob(j, r) ==
  /\ Delivered(j, r) /\ ~Finished(jobs[j]) /\ NeverStarted(jobs[j])
  /\ jobs' = [jobs EXCEPT ![j] = [ReleasedRow(jobs[j], FALSE) EXCEPT
                                    !.state = "CANCELLED", !.attempt = @ + 1]]
  /\ quota' = ReleasedQuota(jobs[j], FALSE)
  /\ Acknowledge(j, r, "CANCELLED")
  /\ UNCHANGED <<posts, bound, remote, uploads, run, edits>>

\* The adapter or its secret cannot be resolved: an AppError before any call.
RefuseProvider(j, r) ==
  /\ Delivered(j, r) /\ ~Finished(jobs[j]) /\ ~NeverStarted(jobs[j])
  /\ jobs' = [jobs EXCEPT ![j] = [ReleasedRow(jobs[j], FALSE) EXCEPT
                                    !.state = "FINAL_FAILED"]]
  /\ quota' = ReleasedQuota(jobs[j], FALSE)
  /\ Acknowledge(j, r, "FINAL_FAILED")
  /\ UNCHANGED <<posts, bound, remote, uploads, run, edits>>

Cancelling(row) ==
  row.cancel /\ row.state \in {"CANCEL_REQUESTED", "RETRYABLE_FAILED"}

FirstCall(op) == IF op = "CREATE" THEN "upload" ELSE "fetch"

Start(j, r) ==
  LET row == jobs[j]
      subject == IF row.op = "CREATE" THEN j ELSE row.target
  IN  /\ Delivered(j, r) /\ ~Finished(row) /\ ~NeverStarted(row)
      /\ run' = [ job |-> j, retries |-> r, subject |-> subject, post |-> posts[subject],
                  bound |-> bound, partial |-> FALSE, seen |-> 0,
                  pc |-> IF Cancelling(row) THEN "cancel" ELSE FirstCall(row.op),
                  row |-> IF Cancelling(row)
                          THEN [row EXCEPT !.attempt = @ + 1]
                          ELSE [row EXCEPT !.attempt = @ + 1, !.started = TRUE,
                                           !.state = "PUBLISHING"] ]
      /\ UNCHANGED <<jobs, posts, bound, quota, remote, uploads, msgs, crashes, faults,
                     edits>>

-----------------------------------------------------------------------------
(* The calls of a run.  A call fails with a class of its own choosing; one *)
(* that changes the CMS may have taken effect although its answer is lost. *)

At(pc) == run # NoRun /\ run.pc = pc

Current == remote[run.subject]

\* No call is made when the row is stale, the media item is bound or the post to
\* cancel is not scheduled; a final failure of an upload does not end the run
\* (see UploadMedia).
CallFails ==
  /\ run # NoRun
  /\ run.pc = "cancel" => run.post.state = "SCHEDULED"
  /\ run.pc = "fetch" => run.post.hash = run.row.expected
  /\ run.pc = "upload" => ~run.bound
  /\ \E retryable \in (IF run.pc = "upload" THEN {TRUE} ELSE BOOLEAN) :
       IF run.pc \in {"cancel", "revert"} THEN CancelFailure(retryable)
       ELSE ProviderFailure(retryable, run.post)
  /\ UNCHANGED <<remote, uploads, edits>>

\* _resolve_ready (approval or licence withdrawn) or _document (unsupported
\* block) raise an AppError before the write.
ContentRefused ==
  /\ run # NoRun
  /\ \/ run.pc = "fetch" /\ run.row.op = "UPDATE"
     \/ run.pc \in {"upload", "write"} /\ run.row.op \in {"CREATE", "UPDATE", "RECONCILE"}
  /\ FailFinally(run.row, run.post)
  /\ UNCHANGED <<remote, uploads, edits>>

Continue(changed) ==
  /\ run' = changed
  /\ UNCHANGED <<jobs, posts, bound, quota, msgs, crashes, faults, edits>>

\* _upload_media: a binding makes the call unnecessary; a final failure is
\* recorded and the post goes out without the item.
ReuseBinding ==
  /\ At("upload") /\ run.bound
  /\ Continue([run EXCEPT !.pc = "write"])
  /\ UNCHANGED <<remote, uploads>>

\* Only none, one and more than one are told apart.
OneMore(n) == IF n < 2 THEN n + 1 ELSE n

UploadMedia ==
  /\ At("upload") /\ ~run.bound
  /\ \/ uploads' = OneMore(uploads) /\ Continue([run EXCEPT !.pc = "write", !.bound = TRUE])
     \/ UNCHANGED uploads /\ Continue([run EXCEPT !.pc = "write", !.partial = TRUE])
  /\ UNCHANGED remote

UploadAnswerLost ==
  /\ At("upload") /\ ~run.bound
  /\ uploads' = OneMore(uploads)
  /\ ProviderFailure(TRUE, run.post)
  /\ UNCHANGED <<remote, edits>>

\* _target_post: the row moved on since the job was requested.
FetchStale ==
  /\ At("fetch") /\ run.post.hash # run.row.expected
  /\ FailFinally(run.row, run.post)
  /\ UNCHANGED <<remote, uploads, edits>>

Fetched == At("fetch") /\ run.post.hash = run.row.expected

Missing == Current.state = "gone"

\* get_post answers 404.
FetchMissing ==
  /\ Fetched /\ Missing
  /\ CASE run.row.op = "DELETE" -> Complete([run.post EXCEPT !.state = "DELETED"], FALSE)
       [] run.row.op = "RECONCILE" ->
            Complete([run.post EXCEPT !.state = "REMOTE_MISSING"], FALSE)
       [] OTHER -> FailFinally(run.row, run.post)
  /\ UNCHANGED <<remote, uploads, edits>>

RemoteConflict == Current.hash # run.row.expected

NextCall(op) == IF op \in {"DELETE", "ROLLBACK"} THEN "write" ELSE "upload"

ProceedWith(post) ==
  /\ Continue([run EXCEPT !.pc = NextCall(run.row.op), !.seen = Current.hash, !.post = post])
  /\ UNCHANGED <<remote, uploads>>

FetchUnchanged ==
  /\ Fetched /\ ~Missing /\ ~RemoteConflict
  /\ IF run.row.op = "RECONCILE"
     THEN Complete(run.post, FALSE) /\ UNCHANGED <<remote, uploads, edits>>
     ELSE ProceedWith([run.post EXCEPT !.snapped = TRUE])

\* The CMS published the scheduled post and changed nothing else.
ExpectedScheduledTransition ==
  /\ run.row.op = "RECONCILE"
  /\ run.post.state = "SCHEDULED" /\ Current.state = "published"
  /\ run.post.snapped /\ run.post.body = Current.body

FetchTransition ==
  /\ Fetched /\ ~Missing /\ RemoteConflict /\ ExpectedScheduledTransition
  /\ Complete(ApplyRemote(Current, FALSE, TRUE), FALSE)
  /\ UNCHANGED <<remote, uploads, edits>>

Conflict == Fetched /\ ~Missing /\ RemoteConflict /\ ~ExpectedScheduledTransition

ConflictAbort ==
  /\ Conflict /\ run.row.action = "ABORT"
  /\ FailFinally(run.row, IF run.row.op = "RECONCILE"
                          THEN [run.post EXCEPT !.state = "CONFLICT"] ELSE run.post)
  /\ UNCHANGED <<remote, uploads, edits>>

ConflictImport ==
  /\ Conflict /\ run.row.action = "IMPORT_REMOTE"
  /\ Complete([ApplyRemote(Current, FALSE, TRUE) EXCEPT !.state = "CONFLICT"], FALSE)
  /\ UNCHANGED <<remote, uploads, edits>>

ConflictOverwrite ==
  /\ Conflict /\ run.row.action = "OVERWRITE"
  /\ ProceedWith(run.post)

RemoteState(vis) ==
  CASE vis = "PUBLISH" -> "published" [] vis = "SCHEDULED" -> "scheduled" [] OTHER -> "draft"

\* The CMS after the worker wrote the post (update_post, restore_snapshot).
Written(r) ==
  [r EXCEPT !.state = RemoteState(run.row.vis), !.hash = @ + 1, !.body = @ + 1,
            !.editor = run.job]

\* Deviation: the local row decides between create_post and update_post.
FoundLocally == run.post.state # "NONE"

\* find_by_marker decides between create_post and update_post.  Only this job
\* writes its marker, so the two calls are one step: what a person does between
\* them makes the second fail (CallFails) or is overwritten like what he did before.
FoundByMarker == Current.copies > 0 /\ Current.state \in SearchedStates

Upserted ==
  IF FoundByMarker THEN Written(Current)
  ELSE [Written(Current) EXCEPT !.id = @ + 1, !.copies = @ + 1]

\* Deviation: the row is only added after the verification.
CreatedPostLater(r) == run.post

\* The PublishedPost row of a CREATE job after its write.
CreatedPost(r) == ApplyRemote(r, run.partial, FALSE)

WriteNewPost ==
  /\ At("write") /\ run.row.op = "CREATE"
  /\ remote' = [remote EXCEPT ![run.subject] = Upserted]
  /\ IF run.post.state # "NONE" /\ run.post.id # Upserted.id
     THEN FailFinally(run.row, run.post) /\ UNCHANGED edits
     ELSE Continue([run EXCEPT !.pc = "verify", !.post = CreatedPost(Upserted),
                               !.row.target = run.job])
  /\ UNCHANGED uploads

\* Deviation: the version that was read is not sent with the write.
AcceptedAlways == TRUE

Accepted == ConditionalWrites => Current.hash = run.seen

WriteKnownPost ==
  /\ At("write") /\ run.row.op \in {"UPDATE", "RECONCILE", "ROLLBACK"}
  /\ IF Missing \/ ~Accepted
     THEN /\ FailFinally(run.row, run.post)
          /\ UNCHANGED <<remote, edits>>
     ELSE /\ remote' = [remote EXCEPT ![run.subject] = Written(Current)]
          /\ Continue([run EXCEPT !.pc = "verify"])
  /\ UNCHANGED uploads

\* force_delete (and CMSs without a trash) removes the post for good.
Deleted(r, force) ==
  [r EXCEPT !.state = IF force THEN "gone" ELSE "trash", !.hash = @ + 1,
            !.copies = 0]

DeletePost ==
  /\ At("write") /\ run.row.op = "DELETE"
  /\ IF Missing
     THEN FailFinally(run.row, run.post) /\ UNCHANGED remote
     ELSE \E force \in BOOLEAN :
            /\ remote' = [remote EXCEPT ![run.subject] = Deleted(Current, force)]
            /\ Complete([run.post EXCEPT
                           !.state = IF force THEN "DELETED" ELSE "TRASHED"], FALSE)
  /\ UNCHANGED <<uploads, edits>>

WriteAnswerLost ==
  /\ At("write")
  /\ \/ run.row.op = "CREATE" /\ remote' = [remote EXCEPT ![run.subject] = Upserted]
     \/ /\ run.row.op \in {"UPDATE", "RECONCILE", "ROLLBACK"} /\ ~Missing /\ Accepted
        /\ remote' = [remote EXCEPT ![run.subject] = Written(Current)]
     \/ /\ run.row.op = "DELETE" /\ ~Missing
        /\ \E force \in BOOLEAN :
             remote' = [remote EXCEPT ![run.subject] = Deleted(Current, force)]
  /\ ProviderFailure(TRUE, run.post)
  /\ UNCHANGED <<uploads, edits>>

\* _verify_remote, _apply_remote, _snapshot_remote, _complete_quota.
VerifyRemote ==
  /\ At("verify")
  /\ IF Missing THEN FailFinally(run.row, run.post)
     ELSE Complete(ApplyRemote(Current, run.partial, TRUE), TRUE)
  /\ UNCHANGED <<remote, uploads, edits>>

-----------------------------------------------------------------------------
(* _cancel_job.                                                            *)

Cancelled(post, released) ==
  Commit([ReleasedRow(run.row, released) EXCEPT !.state = "CANCELLED"],
         post, run.bound, ReleasedQuota(run.row, released))

CancelWithoutCall ==
  /\ At("cancel") /\ run.post.state # "SCHEDULED"
  /\ Cancelled(run.post, FALSE)
  /\ UNCHANGED <<remote, uploads, edits>>

CancelFetched == At("cancel") /\ run.post.state = "SCHEDULED"

\* Deviation: a scheduled post is taken for one whose schedule is gone.
CancelDraftOrScheduled ==
  /\ CancelFetched /\ Current.state \in {"draft", "scheduled"}
  /\ Cancelled(ApplyRemote(Current, FALSE, FALSE), TRUE)
  /\ UNCHANGED <<remote, uploads, edits>>

CancelDraft ==
  /\ CancelFetched /\ Current.state = "draft"
  /\ Cancelled(ApplyRemote(Current, FALSE, FALSE), TRUE)
  /\ UNCHANGED <<remote, uploads, edits>>

CancelScheduled ==
  /\ CancelFetched /\ Current.state = "scheduled"
  /\ Continue([run EXCEPT !.pc = "revert", !.seen = Current.hash])
  /\ UNCHANGED <<remote, uploads>>

\* Published in the meantime, trashed or removed.
CancelTooLate ==
  /\ CancelFetched /\ Current.state \notin {"draft", "scheduled"}
  /\ CancelFailure(FALSE)
  /\ UNCHANGED <<remote, uploads, edits>>

Reverted(r) == [r EXCEPT !.state = "draft", !.hash = @ + 1]

RevertSchedule ==
  /\ At("revert")
  /\ IF Missing \/ ~Accepted
     THEN CancelFailure(FALSE) /\ UNCHANGED remote
     ELSE /\ remote' = [remote EXCEPT ![run.subject] = Reverted(Current)]
          /\ Cancelled(ApplyRemote(Reverted(Current), FALSE, FALSE), TRUE)
  /\ UNCHANGED <<uploads, edits>>

RevertAnswerLost ==
  /\ At("revert") /\ ~Missing /\ Accepted
  /\ remote' = [remote EXCEPT ![run.subject] = Reverted(Current)]
  /\ CancelFailure(TRUE)
  /\ UNCHANGED <<uploads, edits>>

-----------------------------------------------------------------------------
(* The environment.                                                        *)

\* The worker is lost: the transaction rolls back, the CMS keeps what it has
\* and the unacknowledged delivery comes again.
WorkerLost ==
  /\ run # NoRun
  /\ crashes < MaxCrashes
  /\ crashes' = crashes + 1
  /\ run' = NoRun
  /\ UNCHANGED <<jobs, posts, bound, quota, remote, uploads, msgs, faults, edits>>

\* Any other exception (the database, a bug) ends the run: the transaction rolls
\* back and autoretry_for puts the delivery back.
UnexpectedError ==
  /\ run # NoRun
  /\ faults < MaxFaults
  /\ faults' = faults + 1
  /\ run' = NoRun
  /\ msgs' = [msgs EXCEPT ![run.job] = Retried(run.job, run.retries)]
  /\ UNCHANGED <<jobs, posts, bound, quota, remote, uploads, crashes, edits>>

\* The scheduled time has come.
GoLive(p) ==
  /\ remote[p].state = "scheduled"
  /\ remote' = [remote EXCEPT ![p].state = "published", ![p].hash = @ + 1]
  /\ UNCHANGED <<jobs, posts, bound, quota, uploads, msgs, run, crashes, faults, edits>>

\* Somebody edits or removes the post in the CMS.
EditRemote(p) ==
  /\ remote[p].copies > 0 /\ edits < MaxEdits
  /\ edits' = edits + 1
  /\ \/ remote' = [remote EXCEPT ![p].hash = @ + 1, ![p].body = @ + 1,
                                 ![p].editor = NoJob]
     \/ \E force \in BOOLEAN :
          remote' = [remote EXCEPT ![p] = Deleted(remote[p], force)]
  /\ UNCHANGED <<jobs, posts, bound, quota, uploads, msgs, run, crashes, faults>>

-----------------------------------------------------------------------------
Take(j) ==
  \E r \in 0..MaxRetries :
    Ignore(j, r) \/ CancelLocalJob(j, r) \/ Start(j, r) \/ RefuseProvider(j, r)

Call ==
  \/ ContentRefused
  \/ ReuseBinding \/ UploadMedia
  \/ FetchStale \/ FetchMissing \/ FetchUnchanged \/ FetchTransition
  \/ ConflictAbort \/ ConflictImport \/ ConflictOverwrite
  \/ WriteNewPost \/ WriteKnownPost \/ DeletePost \/ VerifyRemote
  \/ CancelWithoutCall \/ CancelDraft \/ CancelScheduled \/ CancelTooLate
  \/ RevertSchedule
  \/ CallFails \/ UploadAnswerLost \/ WriteAnswerLost \/ RevertAnswerLost

Request(j) ==
  \/ CreatePublishJob(j)
  \/ \E op \in {"UPDATE", "DELETE", "ROLLBACK"} : ChangePublishedPost(j, op)
  \/ ReconcilePublishedPost(j)
  \/ ScheduleReconciliation(j)
  \/ CancelPublishJob(j)
  \/ RetryPublishJob(j)

Next ==
  \/ \E j \in Jobs : Request(j) \/ Take(j)
  \/ Call
  \/ WorkerLost
  \/ UnexpectedError
  \/ \E p \in Jobs : GoLive(p) \/ EditRemote(p)

Spec == Init /\ [][Next]_vars

\* The broker redelivers what was not acknowledged, workers take deliveries,
\* and every call of a run returns or times out.
FairSpec == Spec /\ \A j \in Jobs : WF_vars(Take(j)) /\ WF_vars(Call)

-----------------------------------------------------------------------------
(* Properties.                                                             *)

PostStates == {"NONE", "DRAFT", "SCHEDULED", "PUBLISHED", "PARTIAL", "CONFLICT",
               "TRASHED", "DELETED", "REMOTE_MISSING"}

RemoteStates == {"gone", "draft", "scheduled", "published", "trash"}

Rows ==
  [ op : {"NONE", "CREATE", "UPDATE", "DELETE", "RECONCILE", "ROLLBACK"},
    state : JobStates \cup {"NONE"}, attempt : Nat, started : BOOLEAN,
    cancel : BOOLEAN, target : Jobs \cup {NoJob}, expected : Nat,
    action : {"ABORT", "OVERWRITE", "IMPORT_REMOTE"},
    vis : {"DRAFT", "PUBLISH", "SCHEDULED"}, completed : BOOLEAN,
    released : BOOLEAN ]

PostRows ==
  [ state : PostStates, id : Nat, hash : Nat, body : Nat, snapped : BOOLEAN ]

RemotePosts ==
  [ state : RemoteStates, id : Nat, hash : Nat, body : Nat, copies : Nat,
    editor : Jobs \cup {NoJob} ]

Runs ==
  [ job : Jobs, retries : 0..MaxRetries, subject : Jobs, post : PostRows, bound : BOOLEAN,
    partial : BOOLEAN, seen : Nat, row : Rows,
    pc : {"upload", "fetch", "write", "verify", "cancel", "revert"} ]

\* Every row has its columns' types and the day's counters stay between zero
\* and the limit (PublishJob, PublishedPost, PublishQuotaUsage).
TypeOK ==
  /\ jobs \in [Jobs -> Rows]
  /\ posts \in [Jobs -> PostRows]
  /\ bound \in BOOLEAN
  /\ quota \in [reserved : 0..QuotaLimit, completed : 0..QuotaLimit]
  /\ remote \in [Jobs -> RemotePosts]
  /\ uploads \in 0..2
  /\ msgs \in [Jobs -> [0..MaxRetries -> Nat]]
  /\ run = NoRun \/ run \in Runs
  /\ crashes \in 0..MaxCrashes /\ faults \in 0..MaxFaults
  /\ edits \in 0..MaxEdits

\* Whatever is lost, redelivered, retried or cancelled, the CMS never holds
\* two posts with the marker of one job, provided that the search for the marker
\* sees drafts and scheduled posts as well (find_by_marker in _create_remote).
OneRemotePost == \A p \in Jobs : remote[p].copies <= 1

Reserving(j) == jobs[j].op \in Metered /\ ~jobs[j].released

\* The day's counters are exactly the jobs that hold a reservation and those
\* whose publication stands: no path counts a job twice or returns it twice
\* (_reserve_quota, _complete_quota, _release_quota).
QuotaMatchesJobs ==
  /\ quota.reserved = Cardinality({j \in Jobs : Reserving(j)})
  /\ quota.completed = Cardinality({j \in Jobs : Reserving(j) /\ jobs[j].completed})

\* A job that failed or was cancelled for good has given its reservation back,
\* unless it had published or its cancellation failed with a post on the CMS.
QuotaSettled ==
  \A j \in Jobs :
    (Reserving(j) /\ jobs[j].state \in {"FINAL_FAILED", "CANCELLED"})
      => jobs[j].completed \/ (jobs[j].cancel /\ jobs[j].target # NoJob)

\* A job names only posts that were recorded, a recorded post was created on
\* the CMS, and a publication that succeeded is recorded, although the CMS is
\* written long before the transaction commits (_create_remote).
RecordedPostExists ==
  /\ \A j \in Jobs : jobs[j].target # NoJob => posts[jobs[j].target].state # "NONE"
  /\ \A p \in Jobs : posts[p].state # "NONE" =>
       posts[p].id \in 1..remote[p].id /\ posts[p].hash \in 1..remote[p].hash
  /\ \A j \in Jobs : (jobs[j].op = "CREATE" /\ jobs[j].state \in {"SUCCEEDED", "PARTIAL"})
       => jobs[j].target = j

Waiting(j) == \E r \in 0..MaxRetries : msgs[j][r] > 0

\* As long as a job is waiting for a worker a delivery for it exists: neither a
\* lost worker, nor a failure to be retried, nor a cancellation drops it
\* (acks_late, task.retry, the enqueue of every API request).  Max_retries leaves
\* room for MaxRetries - MaxAttempts + 1 unexpected errors, not for one more.
NoJobForgotten ==
  \A j \in Jobs : jobs[j].state \in {"SCHEDULED", "RETRYABLE_FAILED", "CANCEL_REQUESTED"}
                   => Waiting(j)

\* Redelivered messages, late workers and API calls never change a job that is
\* partial, failed for good or cancelled (the early return of
\* process_publish_job, cancel_publish_job and retry_publish_job).
FinalStaysFinal ==
  [][\A j \in Jobs : jobs[j].state \in {"PARTIAL", "FINAL_FAILED", "CANCELLED"}
                      => jobs'[j].state = jobs[j].state]_vars

BecomesCancelled(j) ==
  jobs[j].state # "CANCELLED" /\ jobs'[j].state = "CANCELLED"

\* A started job whose post was recorded as scheduled is only reported as
\* cancelled when the CMS no longer has the post scheduled (_cancel_job).
CancelReachesRemote ==
  [][\A j \in Jobs :
       (/\ BecomesCancelled(j) /\ jobs[j].started
        /\ posts[jobs[j].target].state = "SCHEDULED")
       => remote'[jobs[j].target].state = "draft"]_vars

\* On a CMS with conditional writes a job on a published post replaces the text
\* somebody wrote there only if the user asked to overwrite it or had it before
\* him when requesting the job (_remote_conflict, the etag of update_post).
EditsAreSeen ==
  [][\A p \in Jobs :
       (/\ run # NoRun /\ run.row.op # "CREATE" /\ run.subject = p
        /\ remote[p].editor = NoJob
        /\ remote'[p].body # remote[p].body /\ remote'[p].editor = run.job)
       => run.row.action = "OVERWRITE" \/ remote[p].hash = run.row.expected]_vars

\* Every job that is waiting for a worker comes to an end, also when workers are
\* lost on the way and calls keep failing (max_attempts).
JobsSettle ==
  \A j \in Jobs :
    jobs[j].state \in {"SCHEDULED", "RETRYABLE_FAILED", "CANCEL_REQUESTED"}
      ~> jobs[j].state \in {"SUCCEEDED", "PARTIAL", "FINAL_FAILED", "CANCELLED"}

\* Jobs are accounted for: the day's counters are exact while jobs are under way
\* and when they are over, through every failure, retry and cancellation, and a
\* job that waits has a delivery (_reserve_quota, _release_quota,
\* process_publish_job_task).
JobsAccountedFor ==
  /\ QuotaMatchesJobs
  /\ QuotaSettled
  /\ NoJobForgotten

\* The rows agree with each other and with the CMS: quota counters with jobs, and
\* recorded posts with posts that exist (_create_remote, _release_quota).
RowsAgree ==
  /\ TypeOK
  /\ QuotaMatchesJobs
  /\ RecordedPostExists

=============================================================================
