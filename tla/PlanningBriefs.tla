--------------------------- MODULE PlanningBriefs ---------------------------
(***************************************************************************)
(* One content brief, the calendar of one channel and one monthly proposal *)
(* (domain/planning, PlanningService).  A change of the brief or of the    *)
(* proposal locks its row and compares the lock_version its caller read.   *)
(* A transaction that places calendar entries reads the other entries      *)
(* without locking them; its own rows are seen by others at its commit.    *)
(* A brief that a session has read is not read again: the locking read of  *)
(* a recurrence returns the object its first read left in the session.     *)
(***************************************************************************)
EXTENDS Integers, Sequences, FiniteSets

CONSTANTS
  BrPeople,             \* people who write and decide
  BrQuorum,             \* required_approvals of each stage
  BrApprovers,          \* approver_user_ids of each stage; none means everyone
  BrMaxVersions,        \* bound: BriefVersion rows, revisions of the proposal
  ClClients,            \* requests that place entries
  ClMaxEntries,         \* bound: CalendarEntry rows
  ClMaxSlot,            \* bound: hours of the calendar
  ClSpacing,            \* minimum_spacing_minutes, in hours
  ClDay,                \* hours of a day
  ClMaxPerDay           \* maximum_per_channel_per_local_day

\* _approval_stages: there is a stage; _bounded_int: spacing and number are not negative.
ASSUME PbNumbers ==
  /\ BrQuorum \in Seq(Nat) /\ BrQuorum # <<>>
  /\ ClMaxEntries \in Nat /\ ClMaxSlot \in Nat /\ ClSpacing \in Nat /\ ClMaxPerDay \in Nat

VARIABLES
  brBrief,              \* ContentBrief: status, approval_stage_index, current version
  brDecisions,          \* BriefDecision rows
  brView,               \* person |-> the version it read, and whether lock_version still is that
  brSince,              \* clients that have read the brief since its lock_version last changed
  clEntry,              \* CalendarEntry rows
  clTx,                 \* transactions that place or move entries
  mpPlan,               \* MonthlyPlanProposal
  mpView                \* person |-> the proposal_version it read, and whether it still is that

brVars == <<brBrief, brDecisions, brView, brSince>>
clVars == <<clEntry, clTx>>
mpVars == <<mpPlan, mpView>>
pbVars == <<brVars, clVars, mpVars>>

BrStages == DOMAIN BrQuorum
ClEntries == 1..ClMaxEntries
ClSlots == 1..ClMaxSlot
NoSlot == 0
NoEntry == [status |-> "NONE", by |-> "", brief |-> FALSE, version |-> 0, slot |-> NoSlot,
            overlaps |-> FALSE, raced |-> FALSE, planned |-> FALSE, late |-> FALSE]
NoBrief == [status |-> "NONE", stage |-> 0, version |-> 0]
NoTx == [kind |-> "none", todo |-> <<>>, resolution |-> "BLOCK", entry |-> 0, brief |-> FALSE,
         kept |-> NoBrief, slot |-> NoSlot, overlaps |-> FALSE, raced |-> FALSE, person |-> ""]
NoView == [version |-> 0, fresh |-> FALSE]
NoPlan == [status |-> "NONE", version |-> 0, items |-> <<>>, seen |-> 0]

PbInit(brief, decisions) ==
  /\ brBrief = brief /\ brDecisions = decisions /\ brSince = {}
  /\ brView = [p \in BrPeople |-> NoView] /\ mpView = [p \in BrPeople |-> NoView]
  /\ clEntry = [e \in ClEntries |-> NoEntry] /\ clTx = [c \in ClClients |-> NoTx]
  /\ mpPlan = NoPlan

NewBrief == [status |-> "DRAFT", stage |-> 1, version |-> 1]

-----------------------------------------------------------------------------
(* The brief.                                                              *)

BriefFree == \A c \in ClClients : ~clTx[c].brief
Stale(view) == [p \in BrPeople |-> [view[p] EXCEPT !.fresh = FALSE]]

GetBrief(p) ==
  /\ brView' = [brView EXCEPT ![p] = [version |-> brBrief.version, fresh |-> TRUE]]
  /\ brView' # brView /\ UNCHANGED <<brBrief, brDecisions, brSince, clVars, mpVars>>

\* repo.brief(for_update=True) and _assert_lock.
AssertBriefLock(p) == brView[p].fresh

\* An UPDATE of the brief advances lock_version.
BriefUpdated(brief) ==
  /\ brBrief' = brief
  /\ IF brief = brBrief THEN UNCHANGED <<brView, brSince>>
     ELSE brView' = Stale(brView) /\ brSince' = {}

RewritableStatuses == {"DRAFT", "REVISION_REQUESTED", "REJECTED"}

CreateBriefVersion(p) ==
  /\ BriefFree /\ AssertBriefLock(p)
  /\ brBrief.status \in RewritableStatuses /\ brBrief.version < BrMaxVersions
  /\ BriefUpdated([status |-> "DRAFT", stage |-> 1, version |-> brBrief.version + 1])
  /\ UNCHANGED <<brDecisions, clVars, mpVars>>

\* transition_brief with SUBMIT.
SubmitBrief(p) ==
  /\ BriefFree /\ AssertBriefLock(p) /\ brBrief.status = "DRAFT"
  /\ BriefUpdated([brBrief EXCEPT !.status = "WAITING_REVIEW", !.stage = 1])
  /\ UNCHANGED <<brDecisions, clVars, mpVars>>

\* transition_brief with ARCHIVE: from every status, and without a look at the calendar.
ArchiveBrief(p) ==
  /\ BriefFree /\ AssertBriefLock(p) /\ brBrief.status # "ARCHIVED"
  /\ BriefUpdated([brBrief EXCEPT !.status = "ARCHIVED"])
  /\ UNCHANGED <<brDecisions, clVars, mpVars>>

\* upsert_assignments and move_brief_on_board change nothing but lock_version here.
ReplaceAssignments(p) ==
  /\ BriefFree /\ AssertBriefLock(p) /\ brView' = Stale(brView) /\ brSince' = {}
  /\ UNCHANGED <<brBrief, brDecisions, clVars, mpVars>>

\* Who has approved the version in this stage.
ApprovalsOf(stage) ==
  {d.by : d \in {x \in brDecisions : x.version = brBrief.version /\ x.stage = stage
                                     /\ x.kind = "APPROVE"}}

PriorApprovals(stage) == Cardinality(ApprovalsOf(stage))

BriefApproved(stage) ==
  LET complete == PriorApprovals(stage) + 1 >= BrQuorum[stage]
      final == stage = Len(BrQuorum)
  IN [brBrief EXCEPT !.status = IF complete /\ final THEN "APPROVED" ELSE @,
                     !.stage = IF complete /\ ~final THEN @ + 1 ELSE @]

BriefDecided(stage, kind) ==
  CASE kind = "APPROVE" -> BriefApproved(stage)
    [] kind = "REJECT" -> [brBrief EXCEPT !.status = "REJECTED", !.stage = 1]
    [] kind = "REQUEST_CHANGES" -> [brBrief EXCEPT !.status = "REVISION_REQUESTED", !.stage = 1]

DecideBrief(p, kind) ==
  LET stage == brBrief.stage IN
  /\ BriefFree /\ AssertBriefLock(p) /\ brBrief.status = "WAITING_REVIEW"
  /\ BrApprovers[stage] = {} \/ p \in BrApprovers[stage]
  /\ kind = "APPROVE" => p \notin ApprovalsOf(stage)
  /\ brDecisions' = brDecisions \cup {[version |-> brBrief.version, stage |-> stage, by |-> p,
                                       kind |-> kind, saw |-> brView[p].version]}
  /\ BriefUpdated(BriefDecided(stage, kind))
  /\ UNCHANGED <<clVars, mpVars>>

-----------------------------------------------------------------------------
(* The calendar.                                                           *)

Gap(s, t) == IF s < t THEN t - s ELSE s - t
DayOf(s) == (s - 1) \div ClDay

\* Those of the entries that stand on the day of s.
OnDay(entries, s) == {e \in entries : DayOf(clEntry[e].slot) = DayOf(s)}

\* detect_calendar_conflict
CalendarConflict(s, entries) ==
  \/ \E e \in entries : Gap(s, clEntry[e].slot) < ClSpacing
  \/ Cardinality(OnDay(entries, s)) >= ClMaxPerDay

\* The loop of resolve_calendar_slot: the first hour after s that is free.
AutoSpread(s, entries) ==
  LET free == {t \in (s + 1)..ClMaxSlot : ~CalendarConflict(t, entries)} IN
  IF free = {} THEN NoSlot ELSE CHOOSE t \in free : \A u \in free : t <= u

ResolveSlot(s, entries, resolution) ==
  IF ~CalendarConflict(s, entries) \/ resolution = "WARN" THEN s
  ELSE IF resolution = "AUTO_SPREAD" THEN AutoSpread(s, entries) ELSE NoSlot

\* calendar_entries_for_channel, as transaction c sees the rows.
EntriesSeen(c) ==
  {e \in ClEntries : \/ clEntry[e].status = "PLANNED"
                     \/ clEntry[e].status = "INSERTING" /\ clEntry[e].by = c}

Overlaps(s, entries, resolution) == resolution = "WARN" /\ CalendarConflict(s, entries)

PlaceableStatuses == {"APPROVED", "SCHEDULED"}

\* create_calendar_entry up to its first read.
PlacementStart(c, item, resolution) ==
  /\ clTx[c] = NoTx
  /\ clTx' = [clTx EXCEPT ![c] = [NoTx EXCEPT !.kind = "create", !.todo = <<item>>,
                                              !.resolution = resolution]]
  /\ UNCHANGED <<brVars, clEntry, mpVars>>

\* create_recurrence up to its first occurrence: it reads the brief without a lock.
RecurrenceStart(c, items, resolution) ==
  LET brief == \E i \in DOMAIN items : items[i].brief IN
  /\ clTx[c] = NoTx
  /\ brief => brBrief.status \in PlaceableStatuses
  /\ clTx' = [clTx EXCEPT ![c] = [NoTx EXCEPT !.kind = "recurrence", !.todo = items,
                                              !.resolution = resolution,
                                              !.kept = IF brief THEN brBrief ELSE NoBrief]]
  /\ brSince' = IF brief THEN brSince \cup {c} ELSE brSince
  /\ UNCHANGED <<brBrief, brDecisions, brView, clEntry, mpVars>>

\* repo.brief(for_update=True): the object the session has of the brief, if it has one.
SessionBrief(c) == IF clTx[c].kept = NoBrief THEN brBrief ELSE clTx[c].kept

\* The version column refuses the update of a brief that has changed since it was read.
BriefWritable(c) ==
  SessionBrief(c).status = "APPROVED" => clTx[c].kept = NoBrief \/ clTx[c].brief \/ c \in brSince

BriefPlaceable(c) ==
  /\ \A d \in ClClients \ {c} : ~clTx[d].brief
  /\ SessionBrief(c).status \in PlaceableStatuses /\ BriefWritable(c)
  /\ clTx[c].kind # "recurrence" => \A e \in EntriesSeen(c) : ~clEntry[e].brief

\* _create_calendar_entry
PlaceEntry(c, e) ==
  LET tx == clTx[c]
      item == Head(tx.todo)
      brief == IF item.brief THEN SessionBrief(c) ELSE NoBrief
      slot == ResolveSlot(item.slot, EntriesSeen(c), tx.resolution)
  IN
  /\ tx.todo # <<>> /\ clEntry[e].status = "NONE" /\ \A f \in 1..(e - 1) : clEntry[f].status # "NONE"
  /\ item.brief => BriefPlaceable(c)
  /\ slot # NoSlot
  /\ clEntry' = [clEntry EXCEPT ![e] =
       [status |-> "INSERTING", by |-> c, brief |-> item.brief, version |-> brief.version,
        slot |-> slot, overlaps |-> Overlaps(item.slot, EntriesSeen(c), tx.resolution),
        raced |-> FALSE, planned |-> tx.kind = "plan",
        late |-> item.brief /\ brief.status # brBrief.status]]
  /\ clTx' = [clTx EXCEPT ![c].todo = Tail(@), ![c].brief = @ \/ item.brief,
                          ![c].kept = IF item.brief THEN brief ELSE @]
  /\ UNCHANGED <<brVars, mpVars>>

\* Rows that other transactions have chosen their hour without.
Raced(entries, c) ==
  [e \in ClEntries |-> IF entries[e].status = "INSERTING" /\ entries[e].by # c
                       THEN [entries[e] EXCEPT !.raced = TRUE] ELSE entries[e]]
TxRaced(c) ==
  [d \in ClClients |-> IF d = c THEN NoTx
                       ELSE IF clTx[d].kind = "move" THEN [clTx[d] EXCEPT !.raced = TRUE]
                       ELSE clTx[d]]

\* The status of the brief follows its first entry; one that was read as SCHEDULED is not written.
PlacementCommit(c) ==
  LET tx == clTx[c] IN
  /\ tx.kind \in {"create", "recurrence", "plan"} /\ tx.todo = <<>>
  /\ clEntry' = Raced([e \in ClEntries |->
       IF clEntry[e].status = "INSERTING" /\ clEntry[e].by = c
       THEN [clEntry[e] EXCEPT !.status = "PLANNED", !.by = ""] ELSE clEntry[e]], c)
  /\ BriefUpdated(IF tx.brief /\ tx.kept.status = "APPROVED"
                  THEN [brBrief EXCEPT !.status = "SCHEDULED"] ELSE brBrief)
  /\ mpPlan' = IF tx.kind = "plan"
               THEN [mpPlan EXCEPT !.status = "APPROVED", !.seen = mpView[tx.person].version]
               ELSE mpPlan
  /\ mpView' = IF tx.kind = "plan" THEN Stale(mpView) ELSE mpView
  /\ clTx' = TxRaced(c)
  /\ UNCHANGED brDecisions

\* A refusal of one entry takes the whole request back.
TxRolledBack(c) ==
  /\ clTx[c] # NoTx /\ clTx' = [clTx EXCEPT ![c] = NoTx]
  /\ clEntry' = [e \in ClEntries |->
       IF clEntry[e].status = "INSERTING" /\ clEntry[e].by = c THEN NoEntry ELSE clEntry[e]]
  /\ UNCHANGED <<brVars, mpVars>>

EntryFree(e) == \A c \in ClClients : clTx[c].kind = "move" => clTx[c].entry # e

\* move_calendar_entry up to its write.
MoveStart(c, e, s, resolution) ==
  LET others == EntriesSeen(c) \ {e}
      slot == ResolveSlot(s, others, resolution)
  IN
  /\ clTx[c] = NoTx /\ clEntry[e].status = "PLANNED" /\ EntryFree(e) /\ slot # NoSlot
  /\ slot # clEntry[e].slot
  /\ clTx' = [clTx EXCEPT ![c] =
       [NoTx EXCEPT !.kind = "move", !.entry = e, !.slot = slot,
                    !.overlaps = Overlaps(s, others, resolution)]]
  /\ UNCHANGED <<brVars, clEntry, mpVars>>

MoveCommit(c) ==
  LET tx == clTx[c] IN
  /\ tx.kind = "move"
  /\ clEntry' = Raced([clEntry EXCEPT ![tx.entry].slot = tx.slot, ![tx.entry].overlaps = tx.overlaps,
                                      ![tx.entry].raced = tx.raced], c)
  /\ clTx' = TxRaced(c)
  /\ UNCHANGED <<brVars, mpVars>>

\* Deviation: the entry that is cancelled counts as remaining.
RemainingWithItself(e) == {f \in ClEntries : clEntry[f].brief /\ clEntry[f].status = "PLANNED"}

RemainingEntries(e) ==
  {f \in ClEntries \ {e} : clEntry[f].brief /\ clEntry[f].status = "PLANNED"}

\* The rows of the entry and of its brief are locked.
CancelCalendarEntry(e) ==
  /\ clEntry[e].status = "PLANNED" /\ EntryFree(e) /\ (clEntry[e].brief => BriefFree)
  /\ clEntry' = [clEntry EXCEPT ![e] = [NoEntry EXCEPT !.status = "CANCELLED",
                                                       !.planned = clEntry[e].planned]]
  /\ BriefUpdated(IF clEntry[e].brief /\ brBrief.status = "SCHEDULED" /\ RemainingEntries(e) = {}
                  THEN [brBrief EXCEPT !.status = "APPROVED"] ELSE brBrief)
  /\ UNCHANGED <<brDecisions, clTx, mpVars>>

-----------------------------------------------------------------------------
(* The monthly proposal.                                                   *)

PlanFree == \A c \in ClClients : clTx[c].kind # "plan"

GetMonthlyProposal(p) ==
  /\ mpPlan.status # "NONE"
  /\ mpView' = [mpView EXCEPT ![p] = [version |-> mpPlan.version, fresh |-> TRUE]]
  /\ mpView' # mpView /\ UNCHANGED <<brVars, clVars, mpPlan>>

\* _assert_lock and _assert_proposal_identity.
AssertProposalIdentity(p) == mpView[p].fresh

\* _validate_monthly_items: the briefs in the plan are approved.
ValidItems(items) ==
  (\E i \in DOMAIN items : items[i].brief) => brBrief.status \in PlaceableStatuses

CreateMonthlyProposal(items) ==
  /\ mpPlan.status = "NONE" /\ ValidItems(items)
  /\ mpPlan' = [status |-> "PENDING_APPROVAL", version |-> 1, items |-> items, seen |-> 0]
  /\ UNCHANGED <<brVars, clVars, mpView>>

ReviseMonthlyProposal(p, items) ==
  /\ PlanFree /\ mpPlan.status = "PENDING_APPROVAL" /\ AssertProposalIdentity(p)
  /\ mpPlan.version < BrMaxVersions /\ ValidItems(items)
  /\ mpPlan' = [mpPlan EXCEPT !.version = @ + 1, !.items = items] /\ mpView' = Stale(mpView)
  /\ UNCHANGED <<brVars, clVars>>

\* approve_monthly_proposal: its entries and its status in one transaction.
ApproveMonthlyProposal(c, p, resolution) ==
  /\ PlanFree /\ clTx[c] = NoTx
  /\ mpPlan.status = "PENDING_APPROVAL" /\ AssertProposalIdentity(p)
  /\ clTx' = [clTx EXCEPT ![c] = [NoTx EXCEPT !.kind = "plan", !.todo = mpPlan.items,
                                              !.resolution = resolution, !.person = p]]
  /\ UNCHANGED <<brVars, clEntry, mpVars>>

RejectMonthlyProposal(p) ==
  /\ PlanFree /\ mpPlan.status = "PENDING_APPROVAL" /\ AssertProposalIdentity(p)
  /\ mpPlan' = [mpPlan EXCEPT !.status = "REJECTED"] /\ mpView' = Stale(mpView)
  /\ UNCHANGED <<brVars, clVars>>

-----------------------------------------------------------------------------
BriefRequest ==
  \E p \in BrPeople :
    \/ GetBrief(p) \/ CreateBriefVersion(p) \/ SubmitBrief(p) \/ ArchiveBrief(p)
    \/ ReplaceAssignments(p)
    \/ \E kind \in {"APPROVE", "REJECT", "REQUEST_CHANGES"} : DecideBrief(p, kind)

Resolutions == {"BLOCK", "WARN", "AUTO_SPREAD"}
ClItems == [slot : ClSlots, brief : BOOLEAN]

CalendarRequest ==
  \/ \E c \in ClClients, resolution \in Resolutions :
       \/ \E item \in ClItems : PlacementStart(c, item, resolution)
       \/ \E item \in ClItems :
            /\ item.slot < ClMaxSlot
            /\ RecurrenceStart(c, <<item, [item EXCEPT !.slot = @ + 1]>>, resolution)
       \/ \E e \in ClEntries, s \in ClSlots : MoveStart(c, e, s, resolution)
  \/ \E e \in ClEntries : CancelCalendarEntry(e)

CalendarStep ==
  \E c \in ClClients :
    \/ PlacementCommit(c) \/ MoveCommit(c) \/ TxRolledBack(c)
    \/ \E e \in ClEntries : PlaceEntry(c, e)

ProposalRequest(plans) ==
  \/ \E items \in plans : CreateMonthlyProposal(items)
  \/ \E p \in BrPeople :
       \/ GetMonthlyProposal(p) \/ RejectMonthlyProposal(p)
       \/ \E items \in plans : ReviseMonthlyProposal(p, items)
       \/ \E c \in ClClients, resolution \in Resolutions : ApproveMonthlyProposal(c, p, resolution)

PbNext(plans) == BriefRequest \/ CalendarRequest \/ CalendarStep \/ ProposalRequest(plans)

\* A new brief, an empty calendar and the proposals that may be made.
PbSpec(plans) == PbInit(NewBrief, {}) /\ [][PbNext(plans)]_pbVars

-----------------------------------------------------------------------------
(* Properties.                                                             *)

\* decide_brief: a decision is about the version its author had read, also when
\* somebody rewrites the brief meanwhile.
DecisionsSawVersion == \A d \in brDecisions : d.saw = d.version

\* A brief that can be generated from or scheduled has, for the version it holds
\* now, the approvals every stage asks for and no refusal.
BriefApprovalIsEarned ==
  brBrief.status \in {"APPROVED", "SCHEDULED"} =>
    /\ \A s \in BrStages : Cardinality(ApprovalsOf(s)) >= BrQuorum[s]
    /\ \A d \in brDecisions : d.version = brBrief.version => d.kind = "APPROVE"

\* What stands on the calendar for a brief is the version the brief holds.
EntriesShowCurrentVersion ==
  \A e \in ClEntries :
    clEntry[e].status = "PLANNED" /\ clEntry[e].brief => clEntry[e].version = brBrief.version

\* cancel_calendar_entry, _create_calendar_entry: a brief is SCHEDULED as long as an
\* entry of it stands, and no longer, unless it was archived.  The exception is an entry
\* that create_recurrence placed late: it had read the brief as SCHEDULED, the brief was
\* unscheduled or archived before the row was locked, and nothing is written then.
ScheduledHasEntry ==
  LET standing == {e \in ClEntries : clEntry[e].brief /\ clEntry[e].status = "PLANNED"} IN
  brBrief.status # "ARCHIVED" =>
    /\ brBrief.status = "SCHEDULED" => standing # {}
    /\ (\E e \in standing : ~clEntry[e].late) => brBrief.status = "SCHEDULED"

\* resolve_calendar_slot, move_calendar_entry: entries that were neither placed at
\* the same time nor kept in spite of the warning stand apart, wherever they were
\* spread or moved to, and no day has more of them than it may.
SpacingKept ==
  LET kept == {e \in ClEntries : clEntry[e].status = "PLANNED" /\ ~clEntry[e].overlaps
                                  /\ ~clEntry[e].raced}
  IN
  /\ \A e \in kept, f \in kept : e # f => Gap(clEntry[e].slot, clEntry[f].slot) >= ClSpacing
  /\ \A s \in ClSlots : Cardinality(OnDay(kept, s)) <= ClMaxPerDay

\* approve_monthly_proposal: an approved plan is on the calendar, once and whole,
\* in the version its approver had read; no other plan has left an entry.
PlanIsOnCalendar ==
  LET made == {e \in ClEntries : clEntry[e].planned /\ clEntry[e].status # "INSERTING"} IN
  IF mpPlan.status = "APPROVED"
  THEN Cardinality(made) = Len(mpPlan.items) /\ mpPlan.seen = mpPlan.version
  ELSE made = {}

\* What planning promises: decisions are about what was read, and briefs, plans and the
\* calendar agree (domain/planning).
PlanningPromise ==
  /\ DecisionsSawVersion
  /\ BriefApprovalIsEarned
  /\ EntriesShowCurrentVersion
  /\ ScheduledHasEntry
  /\ SpacingKept
  /\ PlanIsOnCalendar

=============================================================================
