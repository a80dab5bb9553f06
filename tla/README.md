# TLA+ verification of BlogOps

BlogOps (`src/`) is a multi-tenant service that generates, reviews, publishes
and measures blog posts.  This directory holds TLA+ models of its components,
first those where money and remote side effects are at stake, the TLC
configurations that check them, and TLAPS proofs of the results that hold for
every instance.

Model-check with `tlc -workers 2 -config X.cfg M`, check the proofs with
`tlapm M.tla` for `FiniteSums` and each module whose name ends in `Proofs` (from a
minute to a quarter of an hour each).  `PROJECT.json` lists components, runs,
mutants, the map from definitions to source lines, findings, hazards and
theorems.

## 1. The system

A FastAPI process accepts requests.  Work that takes long is a row (a *job*) in
PostgreSQL and a Celery message that names it.  Every domain has the same
skeleton:

    API request --- one transaction: job row, quota or credit hold, audit, outbox
        |
        +-- after the commit, a background task of the response enqueues the job
                |
            broker --(late acknowledgement, redelivery)--> worker task
                                                             |
                    one transaction: lock the job, call the provider or the CMS,
                    record the result, settle the budget

Four facts about this skeleton decide how the models look.

* **One transaction per request and per task** (`db/session.py`), isolation READ
  COMMITTED, `autoflush=False`, `expire_on_commit=False`.  A `SELECT ... FOR
  UPDATE` returns the object the session already knows *without refreshing it*,
  so a decision taken after the lock may rest on a row read before it.
* **External calls are not transactional.**  What a worker changed on the CMS
  stays when its transaction rolls back.
* **Delivery is at least once** (`worker.py`: `task_acks_late`), so a finished
  job comes again, and `autoretry_for` and `task.retry` share one retry counter.
* **The enqueue is not part of the transaction.**  No relay reads the outbox.

### Inventory

| Component | State it keeps | Operations | What is hard | What makes it correct |
|---|---|---|---|---|
| Credit ledger (`domain/billing/service.py`, `rules.py`) | account, dated grants, holds and allocations, append-only ledger, usage | grant, reserve, finalize, release, reverse | five tables kept equal by hand; expiry between steps; rounding | no credit made or lost; ledger and balances agree; a hold is settled once |
| Settlement transactions (`billing/adapters.py`) | the same rows under concurrency | the same calls from workers and API | stale reads, lock order, redelivery | exactly one settlement; no lost update; no deadlock |
| Payments (`billing/service.py`, `tasks.py`) | payment commands, provider events and their archive | checkout, failure, event | redelivery, concurrent deliveries of one event | one checkout per command; answers agree with the store |
| Publishing saga (`publishing/saga.py`, `service.py`, `tasks.py`) | jobs, posts, media bindings, daily quota | create, update, delete, reconcile, roll back, cancel, retry, sweep | remote effects before the commit, lost answers, edits by people, scheduled publication | one remote post; counters exact; nobody's text lost; every job ends |
| CMS adapters (`publishing/adapters.py`) | none of its own | create, update, delete, fetch, search, upload | what a search sees, conditional writes | idempotent upsert |
| Connections, Naver packages (`publishing`) | connection health, secret; packages, checklists, confirmations | diagnose, refresh, sync, disconnect, monitor; package, confirm | jobs queued before a disconnection; two people confirming | a disconnected site is never active again; one manual post per package |
| Job state table (`domain/jobs/state.py`) | none | `ensure_job_transition` | domains that bypass it | all job states follow it |
| Media operations (`domain/media/tasks.py`) | operation jobs, provider quota, circuit breaker | request, run, fail, cancel, retry | failure recorded in a second transaction | quota restored once; hold settled with the terminal state |
| Media library (`domain/media/service.py`) | uploads, assets, licences, uses, objects in storage | upload, scan, review, license, use, delete | objects written before the commit; checks without locks | what is used was cleared, exists and is licensed |
| Generation (`domain/generation`) | jobs, planned steps, attempts, settlement evidence | request, step, cancel, retry | redelivery in the middle of a plan, resume after settlement | drafts are charged, once |
| Bulk (`domain/bulk`) | jobs, rows, commitment, kill switch | confirm, materialise, execute, pause, cancel, retry rows | two transactions per delivery | rows executed once and charged; budget respected |
| Repurpose (`domain/repurpose`) | jobs, items, variants, approvals, deliveries | request, run, review, export, deliver | partial runs; lost answers of the network | complete sets charged; approved text only; one post per key |
| Webhooks, API keys (`domain/developer`) | deliveries, attempts, endpoints, keys | enqueue, deliver, replay, dead-letter, rotate | replay during a delivery, shared failure counter | every event delivered or dead; one active key |
| Agency (`domain/b2b`) | relationships, grants, invitations, provisioning | invite, accept, revoke, provision | second invitation, lost worker | grants within the relationship; one workspace per request |
| Administration (`domain/admin`) | elevated access, commands, notifications | request, approve, execute, notify, sweep | approvals in any order; redelivery | four-eye effects, once |
| Accounts (`domain/identity`) | users, credentials, sessions, factors | verify, login, refresh, second factor, reset, delete | reuse of tokens and codes; refusals that must commit | used secrets open nothing |
| Workspaces (`domain/identity`) | members, roles, invitations | invite, accept, change role, remove, transfer | races on the last owner | one owner |
| Privacy and retention (`domain/security`) | requests, steps, legal holds, policies, sweeps | submit, plan, run, hold, sweep, download | a hold placed between two steps | nothing under hold is erased; certificates are true |
| Compliance (`domain/security`, `operations`) | copyright cases, consents, incident timelines | decide, consent, withdraw, notify | lost answers, late messages | records tell what happened |
| Operations (`domain/operations`) | backups, recovery exercises, gates | request, run, retry | failure recorded in a second transaction | evidence is final |
| Analytics (`domain/analytics`) | sync runs, reports, evidence batches | request, run, cancel, submit | partial results | results are complete or absent |
| Content and approval (`domain/quality`, `generation`) | versions, assessments, requests, decisions | edit, restore, assess, request, decide | an edit during a decision | only the approved version is published |
| Planning (`domain/planning`) | briefs, calendar, monthly plans, campaigns, topics | decide, place, move, plan, spend, merge | calendars and trees read without locks | approvals earned; budget and tree kept |
| Keywords (`domain/keywords`) | jobs, items, provider quota, clusters, alerts | request, run, cancel, sweep | quota shared by jobs, long runs | quota kept; outcome and clusters are those of the items |
| Knowledge, research (`domain/knowledge`, `research`) | sources, versions, jobs; runs, artifacts, approvals | upload, sync, delete; approve, run | late jobs, artifacts added after the approval | approval stands for what was approved, but for an artifact whose request is under way |
| Brand, catalogues, idempotency records, outbox, frontend, migrations | documents or append-only rows | one row, one transaction | — | not modelled, section 6 |

Components meet in four places: a job's worker calls billing inside its own
transaction, so a job's terminal state and the settlement of its hold commit
together (the job modules carry the hold with its promise of `HoldLifecycle`);
publishing re-checks approval at each run; every job goes through the same
broker; and the tables' unique indexes and row locks are what two requests share.

## 2. Modules

| Module | Models | Kind |
|---|---|---|
| `CreditLedger` | the billing operations, one atomic action per call | component |
| `HoldLifecycle` | the promise made of a hold: settled once, within its maximum | abstract specification |
| `HoldSettlement` | the settlement calls, statement by statement, interleaved | component, implements `HoldLifecycle` |
| `JobState` | the shared transition table | operators |
| `PublishSaga` | API, broker, worker and CMS of publishing | composition |
| `Connections` | connection jobs and monitor; Naver packages | component |
| `MediaJobs`, `MediaLibrary` | media operation jobs; assets and their rights | components |
| `GenerationJobs`, `BulkJobs`, `RepurposeJobs` | the three kinds of text job | components |
| `Webhooks`, `Payments`, `Agency`, `AdminOps` | outgoing webhooks and keys; payments; agency portal; operator console | components |
| `Identity`, `Workspaces` | one account and its sessions; one workspace and its members | components |
| `Privacy`, `Compliance`, `Operations`, `Analytics` | data rights, records of compliance, operations tasks, analytics runs | components |
| `ContentApproval`, `PlanningBriefs`, `PlanningTopics` | versions and approval; briefs and calendar; budgets and topic tree | components |
| `KeywordResearch`, `KnowledgeSources`, `ResearchRuns` | the three research pipelines | components |
| `HoldSettlementProofs`, `CreditLedgerProofs`, `PublishProofs`, `CommerceProofs`, `JobProofs`, `ContentProofs`, `PlatformProofs` | the theorems about the components | proofs |
| `FiniteSums` | sums over finite sets: what they are when a row is added or changes | lemmas |
| `MCCreditLedger`, `MCHoldSettlement`, `MCMedia`, `MCJobs`, `MCCommerce`, `MCPlatform`, `MCContent` | model values, symmetry, choice of the component a behaviour is about | model checking |

Definitions whose comment begins with "Deviation" are plausible errors used by
the mutants of `PROJECT.json`; no action uses them.

### CreditLedger

`account`, `grants`, `holds` (with their allocation rows), `ledger` and `usage`
are the tables; `now` is the clock.  `GrantCredits`, `CreateHold` (through
`Reserve`, the job adapter), `FinalizeByApi`, `FinalizeJob`, `ReleaseHold` and
`ReverseCreditDebit` are the service calls.  Here each is atomic, because each
holds the account row to its commit; how far that is true is the question
`HoldSettlement` asks.  Decimals with a fixed scale become integers in units of
that scale, and `PriceCreditAmount` rounds up as `price_credit_amount` does.  The
loops over grants are one function, `TakeInOrder`: a grant gives the smaller of
what it has and what the grants before it left missing.  Calls that are replays
(the same key or event on a finished row) change nothing and are stuttering
steps; calls that are refused raise before they write.

### HoldSettlement

One credit account whose holds have been taken.  Each worker is a transaction
with a program counter: `Begin` (the adapter's `get_hold`, which fills the
session's identity map), `RecordUsage`, `LockHold`, `Decide`, `LockAccount`,
`Flush`, `Commit`.  `seen` is the hold as the session knows it; `LockHold`
refreshes it only for an API request, which had not read the row before.  The
UPDATE is sent with the version the session read (`version_id_col`), which is
what `VersionMatches` compares; `EventFree` and `usageLock` are the unique
indexes.  `Crash` rolls everything back; the same call may begin again at any
time, so redelivery needs no action of its own.  Grants are left out: they are
read and written under the account's lock.

### PublishSaga and Connections

`run` is the worker's transaction.  The rows it locked and changed are working
copies in `run`, and `Commit` copies them to the tables; calls to the CMS change
`remote` and `uploads` at once.  The job and connection rows are locked from the
first statement to the commit, so there is one run at a time on a connection;
between two of its calls the API, people on the CMS and the CMS's own schedule
act.  `msgs` counts deliveries by the number of retries they have used; `Retried`
is `task.retry`, `Acknowledge` the late acknowledgement, which a lost worker
leaves out.  A call may succeed (`UploadMedia`, `WriteNewPost`, ...), fail with or
without a retry (`CallFails`), or take effect and lose its answer
(`WriteAnswerLost`, `UploadAnswerLost`, `RevertAnswerLost`).  Texts are abstracted
to a version (`body`) and the rendered post to a version (`hash`): the code only
compares hashes.

The CMS is an external system: its definitions say what `adapters.py` relies on.
Two of its properties differ between products and are constants: whether a write
based on a stale read is refused (`ConditionalWrites`), and which posts a search
for the marker returns (`SearchedStates`).

`Connections` follows one connection row and the jobs on it (diagnose, refresh,
synchronise, disconnect, and the monitor's sweep).  The vault is changed at once,
the row with the commit.  Its second half is the Naver package, which people
publish by hand: the approval is read again at each step, and the unique index on
confirmations decides between two people.

### Job modules

`MediaJobs`, `GenerationJobs`, `BulkJobs`, `RepurposeJobs`, `Payments` and the
pipelines of `KeywordResearch`, `KnowledgeSources`, `ResearchRuns`, `Operations`
and `Analytics` share a shape.  The row, its hold or quota and a count of messages
at the broker are the state.  A run that locks its row from the first statement to
the commit is one action; where it commits in between (the failure of a media,
bulk or operations run is recorded in a second transaction, bulk rows are
materialised in a transaction of their own), or where it reads without a lock,
the run is split there and holds what it read in a variable of its worker
(`kwTx`, the workers of `BulkJobs` and `MediaJobs`, and so on).  Executors,
providers, stores and networks are external: they may succeed, refuse or lose
their answer.  A lost worker leaves its message; a lost enqueue, which nothing
repeats, is an action too, and the properties that say "has a message" name it as
their exception.

`BulkJobs` keeps a job's rows as working copies of the run (`CommittedJob` is what
others see), so that pause, cancel and the row commands race it as they do in
the code.  Of its executor, which is configured from outside, it assumes the
contract in `BulkJobExecutor`, that a row is recorded only after its gate opened
(`RowWasAuthorized`; `record_row_attempt` itself checks only the approval and the
number of attempts), and nothing about where it stops.  `GenerationJobs` keeps the stored settlement evidence apart from the
state of the job, since the two must not be confused on resume.
`RepurposeJobs` goes on to review, export and delivery to a social network, which
is given the idempotency key.  `KeywordResearch` has two jobs on one connection,
so that the connection's quota is really shared.

### Request modules

In `MediaLibrary`, `Agency`, `AdminOps`, `Identity`, `Workspaces`, `Privacy`,
`Compliance`, `ContentApproval`, `PlanningBriefs` and `PlanningTopics` requests of
several people meet.  A request that locks what it decides on is one action.
One that reads without a lock, or decides on what the client read earlier, is two:
the reading is kept per person or per client (`clTx` for calendar placements,
`NoReading` values of the library, the views of `ContentApproval` and
`PlanningBriefs`), and the second step repeats only the checks the code repeats.
A session that has read a row keeps its object when it locks the row later, so
`create_recurrence` decides on the brief as it read it (`SessionBrief`), and only
the version column can refuse what it writes (`BriefWritable`).
A refusal is a disabled action, but for the refusals that write: a wrong
password and a reused refresh token commit their counter or revocation although
the client sees an error, and are actions.

## 3. Properties

Each component has one promise: a conjunction of named parts, each commented
where it is defined.  The parts, by module:

| Promise | Parts |
|---|---|
| `CreditLedger!BooksConsistent` | `BalancesMatchGrants`, `HeldIsBackedByOpenHolds`, `CreditsConserved`, `LedgerExplainsBalances`, `RefundNeverExceedsDebit`, `UsageMatchesDebit`; besides `SettlementIsFinal`, `SoonestExpiryFirst` |
| `HoldSettlement` | `SettledAtMostOnce`, `BooksBalance`, `UsageIsCharged`, the inductive `SettlementInv`, `ImplementsLifecycle`, `TransactionsEnd` |
| `PublishSaga` | `OneRemotePost`; `JobsAccountedFor` (`QuotaMatchesJobs`, `QuotaSettled`, `NoJobForgotten`); `FinalStaysFinal`; `JobsSettle`; `RowsAgree` (`QuotaMatchesJobs`, `RecordedPostExists`); `EditsAreSeen`; `CancelReachesRemote` |
| `ConnectionPromise` | `DisconnectedNeverActive`, `NoConnectionJobForgotten`, `OneManualPost` |
| `MediaJobPromise` | `HoldFollowsMediaJob`, `ProviderQuotaAccounted`, `UnusedUnitReturned`, `NoMediaJobForgotten`, `MediaEndIsFinal` |
| `LibraryPromise` | `ReadyWasCleared`, `ReadyHasObject`, `NoUploadForgotten`, `UsageWithinRights`, `ReferencedIsNotDeleted`, `BlockedStaysBlocked` |
| `GenerationPromise` | `DraftsAreCharged`, `SettlementRepeats`, `NoGenerationForgotten`, `PlanIsFollowed` |
| `BulkPromise` | `BulkHoldFollowsJob`, `ChargedForRows`, `RunningRowsAreHeld`, `RepeatedRowsNotExecuted`, `NoBulkJobForgotten`; besides `BulkKeeps` (`ApprovedRowsKept`, `BulkEndIsFinal`) |
| `RepurposePromise` | `CompleteSetsAreCharged`, `NoRepurposeForgotten`, `OutputsWereApproved`, `OnePostPerKey`, `VariantsAreKept` |
| `WebhookPromise` | `DisabledForCause`, `SendsAreRecorded`, `NoDeliveryForgotten`, `OneActiveKeyPerLineage` |
| `PaymentPromise` | `OneCheckoutPerCommand`, `AnswersMatchStore`, `NoPaymentForgotten`, `PaymentOutcomeIsFinal` |
| `AgencyPromise` | `GrantsWithinRelationship`, `OneWorkspacePerRequest`, `InvitationUsedOnce`, `ProvisioningIsFinal` |
| `AdminPromise` | `ElevationWasApproved`, `EffectsWereApproved`, `OneEffectPerCommand` |
| `MessagesSettle` | `DeliveriesSettle`, `NoticesEnqueuedEnd`, `SweptNoticesEnd`: every webhook delivery is settled, every enqueued notification is sent or given up, and a sweep that goes on repairs what was lost |
| `AccountPromise` | `RefreshFamily`, `GuessesBounded`, `ResetCutsOffOldPassword`, `SecondFactorUsedOnce`, `MfaHasFactor`, `DeletionIsFinal` |
| `MembershipPromise` | `AtMostOneOwner`, `OwnerNotRemoved`, `InvitationIsFinal` |
| `PrivacyPromise` | `ErasureIsAuthorised`, `CertificateIsTrue`, `SweepRespectsHolds`, `DownloadsWithinLimit`, `PrivacyWorkIsQueued` |
| `CompliancePromise` | `DecisionWasApplied`, `DecidedIsLeftAlone`, `ConsentIsOneChain`, `TimelineIsTrue` |
| `OperationsPromise` | `EvidenceIsFinal`, `PermanentStaysFailed`, `ExercisedBackupVerified`, `NoOperationForgotten` |
| `AnalyticsPromise` | `ResultIsStored`, `ReportIsComplete`, `AcceptedEvidenceIsStored`, `FirstEvidenceStays`, `AnalyticsEndIsFinal`, `NoAnalyticsRunForgotten` |
| `ApprovalPromise` | `ApprovedIsCurrent`, `ApprovedInContext`, `ApprovalIsEarned`, `SavesSawCurrent`, `RefusalIsFinal` |
| `PlanningPromise` | `DecisionsSawVersion`, `BriefApprovalIsEarned`, `EntriesShowCurrentVersion`, `ScheduledHasEntry`, `SpacingKept`, `PlanIsOnCalendar` |
| `CampaignPromise` | `SpendWithinBudget`, `MergedLeadsToActive` |
| `KeywordPromise` | `QuotaKept`, `OutcomeMatchesItems`, `ClustersCoverKeywords`, `OneAlertPerPeriod`, `NoKeywordJobForgotten`, `KeywordJobSettles` |
| `KnowledgePromise` | `BusySourceHasJob`, `NoKnowledgeJobForgotten`, `VersionsWereDeclared` |
| `ResearchPromise` | `ApprovalIsWithdrawn`, `OneResearchResult` |

The parts named "...Forgotten" are the safety side of progress: a row that waits
for a worker has a message that will bring one.  Parts about a step ("...Final",
`SweepRespectsHolds`, ...) are actions.  A promise that has such parts is one
formula `[][ (state parts)' /\ (step parts) ]_vars`: every step leads to a state in
which the state parts hold and is itself allowed.  The initial states, empty
tables in nearly every case, satisfy the state parts at sight.

## 4. Runs

### Properties that hold

| Run | Module, cfg | Shows |
|---|---|---|
| `credit_ledger` | `MCCreditLedger`, `CreditLedger.cfg` | account, grants, holds, ledger and usage stay one set of books over every order of calls, with grants expiring in between; refunds never exceed debits; soonest expiry is used first |
| `hold_settlement` | `MCHoldSettlement`, `HoldSettlement.cfg` | stale session reads never settle a hold twice, lose a balance update or leave usage without a charge; refinement of `HoldLifecycle`; the inductive invariant holds; each transaction ends, since the lock order has no cycle |
| `publish_create` | `PublishSaga`, `PublishCreate.cfg` | one CREATE job: one post, rows that name only posts that exist, exact counters, final states stay final, every waiting job has a delivery and ends |
| `publish_change` | `PublishSaga`, `PublishChange.cfg` | update, delete, rollback, reconciliation and cancellation on a post with a schedule: nobody's unseen text is replaced, a reported cancellation was carried out |
| `media` | `MCMedia`, `Media.cfg` | two media jobs with two workers; one asset with its licence under concurrent requests |
| `jobs` | `MCJobs`, `Jobs.cfg` | a generation, a bulk and a repurposing job with redelivery, lost workers and commands at every point |
| `commerce` | `MCCommerce`, `Commerce.cfg` | webhooks, API keys, payments, agency portal, provisioning, elevated access, operator commands and notifications; what is to be sent is settled |
| `platform` | `MCPlatform`, `Platform.cfg` | accounts, membership, privacy, retention, copyright, consent, incidents, operations, analytics, connections, manual packages |
| `content` | `MCContent`, `Content.cfg` | versions and approval, briefs, calendar, monthly plan, budgets, topics, keywords, alerts, knowledge, research |

The components of one of the last five runs share no state that their properties
are about.  `focus` chooses in the initial state which of them a behaviour
follows; the others keep their initial state, so that the states of the
components add up instead of multiplying.

### Statements the code does not keep

| Run | Statement | Why it fails |
|---|---|---|
| `publish_two_posts` | one remote post per publish job | the WordPress search sees published posts only, so a retry does not find the draft or scheduled post the first attempt made |
| `topic_cycle` | no circle in the topic tree | a move locks the topic that moves and walks up from its new parent without locks; two moves make two topics each other's ancestor |
| `knowledge_undeleted` | deleting a source removes its index, embeddings and cache | a fetch queued before the deletion runs after it and stores everything again |

The quoted lines are in `PROJECT.json`, `findings`.

### Other behaviours worth a look

The models contain each of these; where a property would be broken by one, its
comment names the exception.

* Publishing.  A media item is uploaded again when the run that recorded it is
  rolled back.  A post whose run was lost is found by no reconciliation, which
  starts from local rows.  The retry of a creation updates the post it finds
  without a conflict check.  A retried UPDATE whose first answer was lost takes
  its own write for a remote conflict.  A job cancelled after a reconciliation
  recorded its publication is CANCELLED with the post live.  A CREATE that fails
  after the post exists returns its reservation.  States are assigned without
  the shared transition table.  A lost enqueue is repeated by nothing.
* Connections.  A job queued before a disconnection can write EXPIRED or DEGRADED
  over DISCONNECTED; only ACTIVE is out of reach.
* Bulk.  When the row that completes a job also reaches the budget,
  `budget_kill_switch_triggered` makes `_run_job` return before `_settle_terminal`
  (`domain/bulk/tasks.py:448`); the job is SUCCEEDED and its hold stays HELD.  An
  executor that returns with rows in progress leaves their estimates held: a
  killed job is committed with such rows, a failed one keeps `held_cost` although
  its rows are FINAL_FAILED.  The counters of a failed or cancelled job are those
  from before its rows were ended, for the session does not flush by itself
  (`bulk/tasks.py:135`, `:323`).
* Generation.  A retried job is QUEUED, and the transition table has no way from
  QUEUED to the state of a later step (`generation/service.py:751`): the retry of
  anything but the first steps ends in an error.
* Payments, social delivery.  A lost answer is recorded as FAILED although the
  provider made the checkout or the post.
* Workspaces.  `transfer_ownership` to oneself leaves the workspace without an
  owner (`identity/services.py:2101`), and so does an owner's acceptance of an
  invitation with a lower role.
* Compliance.  A breach notice whose answer was lost can no longer be recorded
  once a later event is in the timeline.  The idempotency key of a copyright
  decision is made of its evidence, so another decision on the same evidence is
  answered with the first.
* Analytics.  A retried synchronisation meets the unique index of its own
  provider call and can never be recorded.  A batch repeated with another mapping,
  or a click with another referrer, is accepted and not stored: only what `Agrees`
  names is compared (`service.py:470`, `:619`).  A report executor that returns
  early without an error leaves its run QUEUED with no message.
* Privacy.  A wait for a lock that `statement_timeout` ends cannot be recorded in
  its transaction: the request stays QUEUED and its message is gone
  (`RunUnrecorded`).
* Approval.  A decision and an edit lock request and content in opposite orders;
  the database aborts one of them.
* Planning.  `create_recurrence` reads the brief without a lock (`service.py:1488`)
  and the later read with the lock returns the same object (`:2385`), so a
  recurrence that saw it SCHEDULED can place entries on a brief that was unscheduled
  or archived meanwhile; `ScheduledHasEntry` leaves them out (`late`).
  A rejected month cannot be proposed again under the same version.
  Two placements read the calendar without a lock and may take one slot
  (`SpacingKept` leaves such pairs out).
* Research.  `add_artifact` reads the run without a lock (`research/service.py:183`)
  and withdraws an approval only if the run it read had one; an approval that
  commits in between stands over a set without the new source (`:254`).  `ApprovalIsWithdrawn`
  leaves that source out (`raced`).
* Keywords.  Above 5,000 keywords a job has no clusters of its own, and those of an
  earlier, smaller run stay.  Clusters made by an earlier run of other keywords
  block a retry for good; a run writes its classification over an intent the user set meanwhile.
* Knowledge.  The foreign key of a version that is current or cited makes the
  deletion fail.
* Code without a caller: `create_webhook_event`, the insertion of notifications,
  `provision_scim_user`, `link_federated_identity`, `authenticate_scim_token`,
  `services/idempotency.py`, `claim_outbox_batch`.  No research executor and no
  secret resolver of the keyword worker are configured.  The models let webhook
  events and notifications arrive, and take executor and resolver as present or
  absent.

### Bounds

* `CreditLedger.cfg`: two outside grants of 2 or 3 credits that may expire at
  different instants, two holds, two events, two reversal keys, costs 1 and 2.
  With a unit of 2 costs and a price of 3 credits every odd cost is rounded.
  Two holds over two grants give holds that split over both, a second hold on
  what the first left, and a reversal grant that backs a later hold.  The clock
  has three instants (before, at and after an expiry, and the price's end).
* `HoldSettlement.cfg`: two holds of one account, three transactions, seven
  calls (completion, over-budget completion, cancellation, each as worker or
  API, and an event shared by two holds).  Two transactions suffice for a stale
  read; the third lets a waiter see two commits.  The proof removes these bounds.
  There is no symmetry reduction, which liveness checking would not allow.
* `PublishCreate.cfg`: one job, two attempts and two
  retries, one lost worker, one unexpected error, one edit; each falls at every
  point of every run.  The broker leaves room for `MaxRetries - MaxAttempts + 1`
  unexpected errors, one with these values as with the code's three and three;
  `NoJobForgotten` does not hold for two, which its comment says.
  `PublishTwoPosts.cfg` is the same without crashes and edits, on a CMS whose
  search returns published posts.
* `PublishChange.cfg`: a second job on the post the first one made, without
  retries and with a lossy enqueue.  A third job would add a second concurrent
  change, which the connection's lock makes sequential.
* `Media.cfg`: two jobs and two workers, so that a failure is recorded while the
  other worker runs; two attempts; a quota of two and one change of day; a circuit
  that opens at the first failure.  One asset, two licence revisions.
* `Jobs.cfg`: a plan with two sections; a file of three rows of which two are
  equal, and a budget that two rows reach; two items with three variants.  Two
  messages allow a redelivery beside the first.  Symmetry of workers is sound:
  they are interchangeable and these properties are safety properties.
* `Commerce.cfg`: two events to one endpoint whose threshold is two failures;
  four generations of a key; two callers with two bodies for two provider events;
  two invitations and two users; four operators, of whom two must approve.
* `Platform.cfg`: two sessions and two generations of a token; two people and two
  invitations; two erasure steps and two holds; four timeline events; two facts
  and two formats; two connection jobs; two packages and two addresses.
* `Content.cfg`: three versions and two requests in two stages with quorums one
  and two; a calendar of four slots on two days with three entries; four topics;
  two keyword jobs with four keywords, three of which are clustered at most, and a
  quota of two calls; three knowledge
  jobs; two research artifacts.  The foci `brief`, `calendar`, `race` and `plan`
  (and `keyword`, `keywords`) look at one component from several sides, each with
  the requests that side needs.

`Max...` constants bound crashes, losses, messages, attempts and edits, in the
guards of the actions that use them up.  `CHECK_DEADLOCK FALSE` is set where the
system rests once every job, key or request of the instance is used.
`HoldSettlement` is checked for deadlock, since a call can always arrive.

### Fairness

* `HoldSettlement`: strong fairness of each transaction's own steps.  A waiter
  is enabled again and again while others take the lock, and PostgreSQL queues
  the waiters of a row lock, so a waiter is not passed over for ever.  Nothing is
  assumed of arriving calls or of crashes; in particular the property does not
  lean on `statement_timeout`, which would break a cycle of waiters by an error.
* `PublishSaga`: weak fairness of taking a job's deliveries and of the calls of a
  run.  The broker redelivers what was not acknowledged and every adapter call
  has a timeout.  No request, crash, error, edit or scheduled publication is
  assumed to happen.
* `MCCommerce`: weak fairness of running a delivery and of time (what waits
  becomes due).  Nothing is assumed of endpoints, replays or lost enqueues:
  `MessagesSettle` excepts webhook deliveries whose enqueue was lost and
  notifications after a lost worker or enqueue.  Nothing is assumed of the
  notification sweep either: the worker has no schedule, and no code of the
  repository calls `admin.notification_deliveries.schedule_due`.  That the sweep
  repairs a loss is therefore stated with its hypothesis in the formula
  (`SweptNoticesEnd`: if it is called again and again, every notification ends).

## 5. Proofs

Every theorem below is about the component's own specification (`Spec`,
`PaySpec`, `PvSpec`, ...), for all values of its constants that satisfy the named
assumptions.  The runs check the same promises on one instance, where an MC module
chooses the component (`focus`); a theorem needs no such choice.

| Module | Theorem | Promise | Hypotheses besides the module's assumptions |
|---|---|---|---|
| `HoldSettlementProofs` | `Invariance`, `TypeCorrect`, `ExactlyOnce`, `NoLostUpdate`, `UsageCharged` | `SettlementInv`, `TypeOK`, `SettledAtMostOnce`, `BooksBalance`, `UsageIsCharged` | |
| | `Implementation` | `ImplementsLifecycle` | |
| `CreditLedgerProofs` | `BooksAreConsistent`, `SettlementsAreFinal`, `SoonestExpiryIsTakenFirst` | `BooksConsistent`, `SettlementIsFinal`, `SoonestExpiryFirst` | |
| `PublishProofs` | `RowsAlwaysAgree`, `FinalJobsStayFinal`, `CancellationsReachRemote` | `RowsAgree`, `FinalStaysFinal`, `CancelReachesRemote` | |
| | `NeverTwoRemotePosts` | `OneRemotePost` | the search returns posts in every live state |
| | `EditsAreAlwaysSeen` | `EditsAreSeen` | the CMS has conditional writes |
| | `JobsAlwaysAccountedFor` | `JobsAccountedFor` | the enqueue is not lossy, `MaxAttempts + MaxFaults <= MaxRetries + 1` |
| `CommerceProofs` | `PaymentsKeepTheirPromise`, `AgenciesKeepTheirPromise`, `AdminKeepsItsPromise`, `WebhooksKeepTheirPromise` | `PaymentPromise`, `AgencyPromise`, `AdminPromise`, `WebhookPromise` | |
| `JobProofs` | `BulkKeepsItsPromise`, `BulkJobsKeepTheirEnds`, `RepurposeKeepsItsPromise`, `GenerationKeepsItsPromise` | `BulkPromise`, `BulkKeeps`, `RepurposePromise`, `GenerationPromise` | |
| `ContentProofs` | `ResearchKeepsItsPromise`, `KnowledgeKeepsItsPromise`, `ApprovalsKeepTheirPromise`, `KeywordsKeepTheirPromise` | `ResearchPromise`, `KnowledgePromise`, `ApprovalPromise`, `KeywordPromise` | |
| | `CampaignsKeepTheirPromise` | `CampaignPromise` | the initial topics are a tree of rows (`IsTopicTree`) |
| | `PlanningKeepsItsPromise` | `PlanningPromise` | the proposed plans are sequences of placements |
| `PlatformProofs` | `ConnectionsKeepTheirPromise`, `MembershipKeepsItsPromise`, `OperationsKeepTheirPromise`, `ComplianceKeepsItsPromise`, `AnalyticsKeepTheirPromise`, `PrivacyKeepsItsPromise`, `AccountsKeepTheirPromise` | `ConnectionPromise`, `MembershipPromise`, `OperationsPromise`, `CompliancePromise`, `AnalyticsPromise`, `PrivacyPromise`, `AccountPromise` | |

The three hypotheses of `PublishProofs` are not decoration: the run
`publish_two_posts` shows two posts where the search misses some, and the
properties' comments say what the code does without the other two.
`FiniteSums` holds lemmas only.

The named assumptions are in the modules that declare the constants, and TLC
evaluates each of them.  They are of three kinds: limits are natural numbers, or
positive where a check constraint or the policy's validation says so
(`MaximumAssumption`, `ConstantsOK`, `PublishAssumption`, `BulkNumbers`,
`WhLimits`, `AdLimits`, `QNumbers`, `PbNumbers`, `SpNumbers`, `CmBounds`,
`PvNumbers`, `KsBounds`, `RpNumbers`, `GenNumbers`, `INumbers`, `KwNumbers`); the marks for "no row", "no worker" and the like are not
members of the sets they extend (`NoWorkerAssumption`, `BulkNames`, `AkIds`,
`PayHashes`, `TpNames`, `AnNames`, ...); and a table is finite where its rows are
added up (`TablesFinite`).  `MNames` says that who is invited is a person, and `KwRowOrder` that the keywords
a provider answers with come after those a request names, as the code appends them.

### The arguments

Hardly any promise is inductive.  Each proof module begins its part with the
strengthening, a conjunction of named parts, and has one lemma for each action
or family of actions.

* **Settlement** (`SettlementInv`).  A commit that would settle a settled hold is
  excluded by what the transaction learned several steps earlier, so the
  invariant says what it may rely on at each point.  `SessionsOK`: past `Decide`
  the hold's lock is held and the row the session knows is open; past
  `LockAccount` the account's lock is held and the session's balances are the
  committed ones.  `VersionsOK`: an open row has version 1 and a settled one
  version 2; with it, a matching version at `Flush` turns "my stale copy is open"
  into "the row is open", on which exactly-once rests.  `UsageLocksOK`: an
  uncommitted usage row belongs to the finalization that inserted it.
  `CommitKeeps` is where the parts meet.  For the refinement, `Commit` maps to
  `Finalize` or `Release` and every other step to a stutter.
* **Ledger** (`BooksInv`).  Besides the equations of the books: a settled hold has
  consumed and has an event, an open one neither; grants have distinct ranks, so
  the order of taking is total; every entry belongs to the row it was posted for
  (`EntryOK`), so the next entry is a new one and a debit is reversed once.  The
  equations are sums over tables, which `FiniteSums` makes tractable: a fold over
  a finite set is shown to equal any other order of taking, by a smallest
  counterexample (`SmallestSet`) in place of an induction rule, and from it sums
  split, change in one summand, and bound their members.  `TakenTotal` says what
  `TakeInOrder` yields.
* **Publishing** (`SagaInv`).  `RunInv` relates the working copy of a run to the
  rows it locked, and its program counter to what it has learned from the CMS:
  what it has seen, whether its marker search was negative, whether an edit was
  accepted.  `JobsInv` relates the columns of a job to its post and its
  deliveries, `QuotaInv` the counters to the sets of jobs that hold them.
  `RemoteMoves` says what any step may do to a post (ids and versions never go
  back), and every call, answered or lost, is one of four kinds.
  `DeliveryInv` bounds the retries used by attempts plus unexpected errors.
* **Bulk jobs** (`BulkInv`).  Per job: the row attempts and states agree (`RowOk`),
  the charge is the sum of the costs of rows that ran and what is held covers the
  estimates of the rows in progress (`SumsOk`); a run's working copy against what
  is committed (`RunOk`), with the worker that executes unique (`LockOk`); the
  hold as the end of the job demands, with the exception of section 4
  (`HoldRule`); and who will serve a job that waits (`Served`).
* **Repurposing** (`RpInv`).  An item has succeeded exactly when all its variants
  are stored, and they are written in order; the hold is as the completeness of
  the items and the end of the job demand.
* **Generation** (`GenInv`).  On its first way through the plan a job has succeeded
  in exactly the first n steps and has the state that step n brought; the next
  step of a retried job lies beyond what its state allows, so no step is claimed
  that the job did not lead to.  Evidence, hold, runs and draft agree, so whoever
  finds the draft unsettled can settle it again.
* **Commerce.**  Payments need that what an event was answered from is archived
  (`ArchivedFirst`); the agency, that a grant stems from an accepted invitation
  whose offer was within the relationship; operator commands, that the counter is
  the number of approvals and that a command with its effect is over; webhooks,
  that an endpoint's counter is the number of failures its attempts end with and
  that what may run has attempts left.
* **Content.**  Approval (`CaInv`): an edit under way knows the version its author
  saw, the request and the decision under way know the rows they locked, and an
  open request agrees with the current version and context (`OpenRequestsOk`,
  `AskOk`, `DecideOk`).  Planning (`PbInv`): an approved brief has a quorum of
  different people for each stage of its version (`Earned`), uncommitted entries
  belong to a request under way, every client sees a calendar that is well spaced
  (`SpaceInv`), and a plan's entries and what is left of it add up (`PlanInv`); of
  a brief that a recurrence read before, the object it has and the row agree or the
  row has changed since (`brSince`), and what is placed then is marked `late`.
  Topics (`TpInv`): locks are exclusive, and any set closed under "merged into"
  that holds a merged topic holds an active one, which avoids an induction along
  the chain.  Campaigns: whoever has the row knows what was spent.  Knowledge and
  research: a run will commit something that keeps the promise; an artifact was
  added after no more approvals than there are, and a selected one the approval does
  not cover was read before it (`raced`).  Keywords (`KwInv`): the rows
  behind a run need no more work, so a run at the end of its list knows how the job
  ends (`RowsBehind`, `OutcomeFits`); one run at a time holds the connection's row,
  and what it has spent and what it will leave stay within the quota
  (`RunWithinQuota`); a job that waits has a message, a run, or lost its message to
  an error (`JobWaits`); the clusters of a finished job are of its keywords unless
  they are deferred (`ClustersOk`).
* **Platform.**  Privacy (`PvInv`): while a worker has the guard, what it checked
  stays true: the request is queued, no hold matches, the sweep's list covers the
  holds in force (`PvRequestRun`, `PvSweepRun`), since placing a hold waits for the
  guard and releasing one can only help; and a step recorded as done, or that the
  open transaction will record, has happened (`PvDone`).  Operations: work that
  waits has no evidence.  Membership: no invitation bears the owner's role.
  Incidents: the last event has the incident's state and a recorded notice was
  sent.  Consents: a row supersedes an earlier one and one is in force.
  Analytics: a run that succeeded has its result and a waiting run its message;
  what is stored under an evidence identifier is one thing, with which whatever is
  accepted agrees in what its kind compares.  Connections: the
  credential of a disconnected site is revoked, which no queued job can undo.
  Accounts (`IInv`): a credential that is not locked has a guess left, a login
  under way knows the password as it is, a session has at most one live refresh
  token and is over once it was replayed (`SessionOk`), and what a factor may accept
  it has not accepted before (`FactorOk`).

Promises with step parts are proved from the same invariant: the step lemmas show
the invariant in the next state and the action at once (`...StepKept`, `Keeps`).

### Only model-checked

* Liveness (`TransactionsEnd`, `JobsSettle`, `MessagesSettle`): fairness and
  `ENABLED` are outside the prover.
* `MediaJobPromise` and `LibraryPromise`: nothing in them is beyond the prover, they
  are what section 7 lists.

## 6. Not modelled

The components with status `not_modelled` in `PROJECT.json` say why, one by one,
and the notes of those marked `partly` name the operations left out.  In short:
parsing, rendering, scoring, clustering and text analysis are data processing;
HTTP transport, storage and scanning are I/O; brand documents, templates, policies
and catalogues are single rows or append-only rows, each written in one
transaction; migrations, deployment files and the frontend keep no state of their
own; and some code has no caller (section 4).  Within modelled components these
are left out: attempts, notifications, audit and outbox rows, which are written
and never guard a step; several connections (jobs of two connections share only
the quota row); and more than one site-local day of publishing.

## 7. Plan

What is left is proof: `MediaJobPromise` (the failure that is recorded in a second
transaction) and `LibraryPromise` (what a request read before it lost its locks).
