----------------------------- MODULE JobProofs ------------------------------
(***************************************************************************)
(* Proofs about bulk, repurposing and generation jobs.                     *)
(***************************************************************************)
EXTENDS GenerationJobs, BulkJobs, RepurposeJobs, FiniteSums, SequenceTheorems, TLAPS

-----------------------------------------------------------------------------
(* The inductive invariant.                                                *)

BulkStates == {"NONE", "QUEUED", "WAITING_INPUT", "VALIDATING", "SUCCEEDED", "WAITING_REVIEW",
               "RETRYABLE_FAILED", "CANCEL_REQUESTED", "CANCELLED", "FINAL_FAILED"}
WaitingStates == {"QUEUED", "WAITING_INPUT", "VALIDATING"}
JobRecords == [state : BulkStates, pause : BOOLEAN, kill : BOOLEAN, actual : Nat, held : Nat,
               processed : Nat]
HoldRecords == [state : {"NONE", "HELD", "FINALIZED", "RELEASED"}, charged : Nat]
Deliveries == [job : BulkIds, at : BulkPlaces]
Snapshots == [job : JobRecords, rows : BulkTables]

BulkTypes ==
  /\ bulkJobs \in [BulkIds -> JobRecords]
  /\ bulkRows \in [BulkIds -> BulkTables]
  /\ bulkHolds \in [BulkIds -> HoldRecords]
  /\ bulkBefore \in [BulkIds -> Snapshots \cup {BulkCommitted}]
  /\ bulkWorker \in [BulkWorkers -> Deliveries \cup {BulkIdle}]
  /\ bulkMsgs \in [BulkIds -> Nat]
  /\ bulkRetried \subseteq BulkIds
  /\ bulkFaults \in Nat

\* A row that was never to be executed, or was.
Worked(i, row) == MaterializedState(i) # "READY" \/ row.attempt > 0
WorkedRows(rows) == {i \in DOMAIN rows : Worked(i, rows[i])}

OpenRowStates == {"READY", "QUEUED", "PROCESSING"}

RowOk(i, row) ==
  /\ row.attempt <= BulkRowAttempts
  /\ row.state \in OpenRowStates => row.attempt < BulkRowAttempts
  /\ row.state \in OpenRowStates \cup RETRYABLE_ROW_STATES \/ row.attempt > 0 =>
       MaterializedState(i) = "READY"
  /\ row.passed => row.attempt > 0
  /\ row.approved => row.state = "APPROVED"

Ran(rows) == \A i \in DOMAIN rows : rows[i].state \in PROCESSED_ROW_STATES => Worked(i, rows[i])

\* A job and its rows agree.
RowsOk(rows) == \A i \in DOMAIN rows : RowOk(i, rows[i])
SumsOk(job, rows) ==
  /\ job.actual = RowCosts(rows)
  /\ job.held >= Reserved(rows) /\ job.held <= BulkMaximum
ProgressOk(job, rows) ==
  /\ job.processed <= BulkTarget
  /\ job.state \notin {"CANCELLED", "FINAL_FAILED"} =>
       Ran(rows) /\ job.processed <= Cardinality(WorkedRows(rows))
JobOk(job, rows) ==
  /\ RowsOk(rows) /\ SumsOk(job, rows) /\ ProgressOk(job, rows)
  /\ job.kill => job.pause

Rests(rows) == \A i \in DOMAIN rows : rows[i].state # "PROCESSING"

\* A job that a run may hold.
Runnable(job) == job.state \notin TERMINAL_JOB_STATES \cup {"CANCEL_REQUESTED", "NONE"}

\* What a run has changed so far of what is committed.
RunOk(job, rows, before) ==
  /\ JobOk(before.job, before.rows)
  /\ Runnable(before.job) /\ Runnable(job)
  /\ before.rows # <<>> /\ rows # <<>>
  /\ job.pause <=> job.kill
  /\ job.state \notin {"QUEUED", "WAITING_INPUT"}
  /\ \A i \in DOMAIN before.rows : before.rows[i].approved => rows[i] = before.rows[i]

LockOk(b) ==
  /\ BulkUnlocked(b) => \A w \in BulkWorkers : bulkWorker[w] # At(b, "executing")
  /\ ~BulkUnlocked(b) =>
       /\ RunOk(bulkJobs[b], bulkRows[b], bulkBefore[b])
       /\ \E w \in BulkWorkers :
            \A v \in BulkWorkers : bulkWorker[v] = At(b, "executing") <=> v = w

\* The hold is what the end of the job calls for.
HoldRule(job, rows, hold) ==
  /\ job.state = "NONE" => hold.state = "NONE"
  /\ job.state \notin TERMINAL_JOB_STATES \cup {"NONE"} => hold.state = "HELD"
  /\ job.state = "SUCCEEDED" => hold.state = "FINALIZED" \/ (hold.state = "HELD" /\ job.kill)
  /\ job.state \in {"CANCELLED", "FINAL_FAILED"} => hold.state = "RELEASED"
  /\ hold.state = "FINALIZED" =>
       /\ hold.charged = job.actual /\ job.actual <= BulkMaximum /\ job.held = 0
       /\ rows # <<>> /\ \A i \in 1..BulkTarget : Worked(i, rows[i])

HoldOk(b) == HoldRule(CommittedJob(b), CommittedRows(b), bulkHolds[b])

NotCreated(b) ==
  bulkJobs[b].state = "NONE" =>
    /\ bulkJobs[b] = NoBulkJob /\ bulkRows[b] = <<>> /\ BulkUnlocked(b) /\ bulkMsgs[b] = 0
    /\ b \notin bulkRetried
    /\ \A w \in BulkWorkers, p \in BulkPlaces : bulkWorker[w] # At(b, p)

\* Someone comes who will take the job on.
Served(b) ==
  /\ bulkJobs[b].state = "CANCEL_REQUESTED" =>
       \/ bulkMsgs[b] > 0 \/ bulkFaults > 0
       \/ \E w \in BulkWorkers : bulkWorker[w] = At(b, "prepare")
  /\ BulkUnlocked(b) /\ bulkJobs[b].state \in WaitingStates /\ ~bulkJobs[b].pause =>
       \/ bulkMsgs[b] > 0 \/ bulkFaults > 0
       \/ \E w \in BulkWorkers :
            \/ bulkWorker[w] = At(b, "fetch") \/ bulkWorker[w] = At(b, "failing")
            \/ /\ bulkWorker[w] = At(b, "prepare")
               /\ bulkRows[b] # <<>> \/ BudgetReached(bulkJobs[b])

OkFor(b) ==
  /\ JobOk(bulkJobs[b], bulkRows[b])
  /\ LockOk(b) /\ HoldOk(b) /\ NotCreated(b) /\ Served(b)

BulkInv == BulkTypes /\ \A b \in BulkIds : OkFor(b)

-----------------------------------------------------------------------------
(* Rows.                                                                   *)

LEMMA Estimates == ASSUME NEW i \in 1..BulkTarget PROVE RowEstimate(i) \in Nat
<1>1. BulkEstimate \div BulkTarget \in Nat
  BY BulkNumbers
<1> QED BY <1>1 DEF RowEstimate

\* The rows of a job are numbered from one to its target.
LEMMA Tables ==
  ASSUME NEW rows \in BulkTables
  PROVE  /\ DOMAIN rows \subseteq 1..BulkTarget /\ IsFiniteSet(DOMAIN rows)
         /\ rows # <<>> => DOMAIN rows = 1..BulkTarget
         /\ \A i \in DOMAIN rows : rows[i] \in BulkRowRecords
         /\ Cardinality(DOMAIN rows) <= BulkTarget
<1>1. BulkTarget \in Nat
  BY BulkNumbers
<1>2. IsFiniteSet(1..BulkTarget) /\ Cardinality(1..BulkTarget) = BulkTarget
  BY <1>1, FS_Interval
<1>3. rows = <<>> => DOMAIN rows = {}
  OBVIOUS
<1>4. rows # <<>> => rows \in [1..BulkTarget -> BulkRowRecords]
  BY DEF BulkTables
<1>5. DOMAIN rows \subseteq 1..BulkTarget
  BY <1>3, <1>4
<1>6. IsFiniteSet(DOMAIN rows) /\ Cardinality(DOMAIN rows) <= BulkTarget
  BY <1>2, <1>5, FS_Subset
<1> QED BY <1>3, <1>4, <1>5, <1>6

LEMMA RowTypes ==
  ASSUME NEW rows \in BulkTables, NEW i \in DOMAIN rows
  PROVE  /\ i \in 1..BulkTarget /\ rows[i] \in BulkRowRecords
         /\ rows[i].state \in BulkRowStates /\ rows[i].attempt \in Nat /\ rows[i].cost \in Nat
         /\ rows[i].passed \in BOOLEAN /\ rows[i].blocked \in BOOLEAN /\ rows[i].approved \in BOOLEAN
         /\ RowHeld(i, rows[i]) \in Nat
<1>1. i \in 1..BulkTarget /\ rows[i] \in BulkRowRecords
  BY Tables
<1>2. RowEstimate(i) \in Nat
  BY <1>1, Estimates
<1> QED BY <1>1, <1>2 DEF BulkRowRecords, RowHeld

\* The counts of rows.
LEMMA Counts ==
  ASSUME NEW rows \in BulkTables
  PROVE  /\ Cardinality(WorkedRows(rows)) \in Nat /\ Cardinality(WorkedRows(rows)) <= BulkTarget
         /\ \A S \in SUBSET DOMAIN rows :
              Cardinality(S) \in Nat /\ Cardinality(S) <= BulkTarget /\ IsFiniteSet(S)
         /\ Ran(rows) => Cardinality({i \in DOMAIN rows : rows[i].state \in PROCESSED_ROW_STATES})
                           <= Cardinality(WorkedRows(rows))
<1>1. IsFiniteSet(DOMAIN rows) /\ Cardinality(DOMAIN rows) <= BulkTarget
  BY Tables
<1>2. ASSUME NEW S \in SUBSET DOMAIN rows
      PROVE  Cardinality(S) \in Nat /\ Cardinality(S) <= BulkTarget /\ IsFiniteSet(S)
  <2>1. IsFiniteSet(S) /\ Cardinality(S) <= Cardinality(DOMAIN rows)
    BY <1>1, FS_Subset
  <2>2. Cardinality(S) \in Nat /\ Cardinality(DOMAIN rows) \in Nat /\ BulkTarget \in Nat
    BY <1>1, <2>1, FS_CardinalityType, BulkNumbers
  <2> QED BY <1>1, <2>1, <2>2
<1>3. WorkedRows(rows) \in SUBSET DOMAIN rows
  BY DEF WorkedRows
<1>4. ASSUME Ran(rows)
      PROVE  Cardinality({i \in DOMAIN rows : rows[i].state \in PROCESSED_ROW_STATES})
               <= Cardinality(WorkedRows(rows))
  <2>1. {i \in DOMAIN rows : rows[i].state \in PROCESSED_ROW_STATES} \subseteq WorkedRows(rows)
    BY <1>4 DEF Ran, WorkedRows
  <2> QED BY <2>1, <1>2, <1>3, FS_Subset
<1> QED BY <1>2, <1>3, <1>4

\* If every row counts as worked the count says so, and conversely.
LEMMA AllWorked ==
  ASSUME NEW rows \in BulkTables, BulkTarget <= Cardinality(WorkedRows(rows))
  PROVE  rows # <<>> /\ \A i \in 1..BulkTarget : Worked(i, rows[i])
<1>1. /\ IsFiniteSet(1..BulkTarget) /\ Cardinality(1..BulkTarget) = BulkTarget /\ BulkTarget \in Nat
      /\ BulkTarget > 0
  BY BulkNumbers, FS_Interval
<1>2. WorkedRows(rows) \subseteq 1..BulkTarget /\ Cardinality(WorkedRows(rows)) \in Nat
  BY Tables, Counts DEF WorkedRows
<1>3. Cardinality(WorkedRows(rows)) <= BulkTarget
  BY Counts
<1>4. WorkedRows(rows) = 1..BulkTarget
  BY <1>1, <1>2, <1>3, FS_Subset
<1> QED BY <1>4, <1>1 DEF WorkedRows

LEMMA SumTypes ==
  ASSUME NEW rows \in BulkTables
  PROVE  RowCosts(rows) \in Nat /\ Reserved(rows) \in Nat
<1> DEFINE S == DOMAIN rows
           f == [i \in S |-> rows[i].cost]
           g == [i \in S |-> RowHeld(i, rows[i])]
<1>1. IsFiniteSet(S)
  BY Tables
<1>2. \A i \in S : f[i] \in Nat /\ g[i] \in Nat
  BY RowTypes
<1>3. DOMAIN f = S /\ DOMAIN g = S /\ RowCosts(rows) = SumFunction(f) /\ Reserved(rows) = SumFunction(g)
  BY DEF RowCosts, Reserved
<1> HIDE DEF S, f, g
<1>4. Summable(f, S) /\ Summable(g, S)
  BY <1>1, <1>2 DEF Summable
<1> QED BY <1>2, <1>3, <1>4, SumType DEF SumFunction

LEMMA NothingReserved ==
  ASSUME NEW rows \in BulkTables, Rests(rows) PROVE Reserved(rows) = 0
<1> DEFINE S == DOMAIN rows
           g == [i \in S |-> RowHeld(i, rows[i])]
<1>1. IsFiniteSet(S)
  BY Tables
<1>2. \A i \in S : g[i] = 0
  BY DEF Rests, RowHeld
<1>3. DOMAIN g = S /\ Reserved(rows) = SumFunction(g)
  BY DEF Reserved
<1> HIDE DEF S, g
<1> QED BY <1>1, <1>2, <1>3, SumZero DEF SumFunction

\* Sums of two functions that differ at one point.
LEMMA SumMoves ==
  ASSUME NEW S, IsFiniteSet(S), NEW i \in S, NEW f \in [S -> Int], NEW g \in [S -> Int],
         \A y \in S : y # i => g[y] = f[y]
  PROVE  SumFunction(g) = SumFunction(f) - f[i] + g[i]
<1>1. Summable(f, S) /\ g[i] \in Int
  BY DEF Summable
<1>2. SumFunctionOnSet(g, S) = SumFunctionOnSet(f, S) - f[i] + g[i]
  BY <1>1, SumChange
<1> QED BY <1>2 DEF SumFunction

LEMMA SumsChange ==
  ASSUME NEW rows \in BulkTables, NEW i \in DOMAIN rows, NEW new \in BulkTables,
         DOMAIN new = DOMAIN rows, \A k \in DOMAIN rows : k # i => new[k] = rows[k]
  PROVE  /\ RowCosts(new) = RowCosts(rows) - rows[i].cost + new[i].cost
         /\ Reserved(new) = Reserved(rows) - RowHeld(i, rows[i]) + RowHeld(i, new[i])
<1> DEFINE S == DOMAIN rows
           f == [k \in S |-> rows[k].cost]
           g == [k \in S |-> RowHeld(k, rows[k])]
           ff == [k \in S |-> new[k].cost]
           gg == [k \in S |-> RowHeld(k, new[k])]
<1>1. IsFiniteSet(S) /\ i \in S
  BY Tables
<1>2. \A k \in S : /\ rows[k].cost \in Int /\ RowHeld(k, rows[k]) \in Int
                   /\ new[k].cost \in Int /\ RowHeld(k, new[k]) \in Int
  BY RowTypes
<1>3. f \in [S -> Int] /\ g \in [S -> Int] /\ ff \in [S -> Int] /\ gg \in [S -> Int]
  BY <1>2
<1>4. RowCosts(rows) = SumFunction(f) /\ Reserved(rows) = SumFunction(g)
  BY DEF RowCosts, Reserved
<1>5. RowCosts(new) = SumFunction(ff) /\ Reserved(new) = SumFunction(gg)
  BY DEF RowCosts, Reserved
<1>6. \A y \in S : y # i => ff[y] = f[y]
  OBVIOUS
<1>7. \A y \in S : y # i => gg[y] = g[y]
  OBVIOUS
<1>8. f[i] = rows[i].cost /\ ff[i] = new[i].cost /\ g[i] = RowHeld(i, rows[i]) /\ gg[i] = RowHeld(i, new[i])
  OBVIOUS
<1> HIDE DEF S, f, g, ff, gg
<1>9. SumFunction(ff) = SumFunction(f) - f[i] + ff[i]
  BY <1>1, <1>3, <1>6, SumMoves
<1>10. SumFunction(gg) = SumFunction(g) - g[i] + gg[i]
  BY <1>1, <1>3, <1>7, SumMoves
<1> QED BY <1>4, <1>5, <1>8, <1>9, <1>10

\* A row's estimate is part of what is reserved while it is in progress.
LEMMA ReservedCovers ==
  ASSUME NEW rows \in BulkTables, NEW i \in DOMAIN rows
  PROVE  Reserved(rows) >= RowHeld(i, rows[i])
<1> DEFINE S == DOMAIN rows
           g == [k \in S |-> RowHeld(k, rows[k])]
<1>1. IsFiniteSet(S)
  BY Tables
<1>2. \A k \in S : g[k] \in Nat
  BY RowTypes
<1>3. DOMAIN g = S /\ Reserved(rows) = SumFunction(g) /\ g[i] = RowHeld(i, rows[i]) /\ i \in S
  BY DEF Reserved
<1> HIDE DEF S, g
<1>4. Summable(g, S) /\ Summable(g, S \ {i})
  BY <1>1, <1>2, SummableSubset DEF Summable
<1>5. SumFunctionOnSet(g, S) = g[i] + SumFunctionOnSet(g, S \ {i})
  BY <1>3, <1>4, SumRemove
<1>6. SumFunctionOnSet(g, S \ {i}) \in Nat
  BY <1>2, <1>4, SumType
<1> QED BY <1>2, <1>3, <1>5, <1>6 DEF SumFunction

\* One row changes.
LEMMA RowChanged ==
  ASSUME NEW rows \in BulkTables, RowsOk(rows), NEW i \in DOMAIN rows, NEW row \in BulkRowRecords,
         RowOk(i, row), row.attempt >= rows[i].attempt,
         NEW new \in BulkTables, DOMAIN new = DOMAIN rows, new[i] = row,
         \A k \in DOMAIN rows : k # i => new[k] = rows[k]
  PROVE  /\ RowsOk(new)
         /\ Cardinality(WorkedRows(rows)) <= Cardinality(WorkedRows(new))
         /\ RowCosts(new) = RowCosts(rows) - rows[i].cost + row.cost
         /\ Reserved(new) = Reserved(rows) - RowHeld(i, rows[i]) + RowHeld(i, row)
         /\ Ran(rows) /\ (row.state \in PROCESSED_ROW_STATES => Worked(i, row)) => Ran(new)
<1>1. RowsOk(new)
  BY DEF RowsOk
<1>2. ASSUME NEW k \in DOMAIN rows, Worked(k, rows[k]) PROVE Worked(k, new[k])
  <2>1. rows[i].attempt \in Nat /\ row.attempt \in Nat
    BY RowTypes DEF BulkRowRecords
  <2>2. CASE k = i
    BY <1>2, <2>1, <2>2 DEF Worked
  <2>3. CASE k # i
    BY <1>2, <2>3
  <2> QED BY <2>2, <2>3
<1>3. Cardinality(WorkedRows(rows)) <= Cardinality(WorkedRows(new))
  <2>1. WorkedRows(rows) \subseteq WorkedRows(new)
    BY <1>2 DEF WorkedRows
  <2>2. IsFiniteSet(WorkedRows(new))
    <3>1. WorkedRows(new) \in SUBSET DOMAIN new
      BY DEF WorkedRows
    <3> QED BY <3>1, Counts
  <2> QED BY <2>1, <2>2, FS_Subset
<1>4. /\ RowCosts(new) = RowCosts(rows) - rows[i].cost + new[i].cost
      /\ Reserved(new) = Reserved(rows) - RowHeld(i, rows[i]) + RowHeld(i, new[i])
  BY SumsChange
<1>5. Ran(rows) /\ (row.state \in PROCESSED_ROW_STATES => Worked(i, row)) => Ran(new)
  BY DEF Ran
<1> QED BY <1>1, <1>3, <1>4, <1>5

LEMMA RowReplaced ==
  ASSUME NEW rows \in BulkTables, NEW i \in DOMAIN rows, NEW row \in BulkRowRecords,
         NEW new, new = [rows EXCEPT ![i] = row]
  PROVE  /\ new \in BulkTables /\ new # <<>> /\ DOMAIN new = DOMAIN rows /\ new[i] = row
         /\ \A k \in DOMAIN rows : k # i => new[k] = rows[k]
<1>1. rows # <<>> /\ rows \in [1..BulkTarget -> BulkRowRecords] /\ i \in 1..BulkTarget
  BY Tables DEF BulkTables
<1>2. new \in [1..BulkTarget -> BulkRowRecords] /\ new[i] = row /\ DOMAIN new = DOMAIN rows
  BY <1>1
<1>3. \A k \in DOMAIN rows : k # i => new[k] = rows[k]
  BY <1>1
<1>4. new \in BulkTables /\ new # <<>>
  BY <1>1, <1>2 DEF BulkTables
<1> QED BY <1>2, <1>3, <1>4

\* What is reserved does not grow if no row's part does.
LEMMA ReservedLess ==
  ASSUME NEW rows \in BulkTables, NEW new \in BulkTables, DOMAIN new = DOMAIN rows,
         \A i \in DOMAIN rows : RowHeld(i, new[i]) <= RowHeld(i, rows[i])
  PROVE  Reserved(new) <= Reserved(rows)
<1> DEFINE S == DOMAIN rows
           f == [i \in S |-> RowHeld(i, rows[i])]
           g == [i \in S |-> RowHeld(i, new[i])]
           d == [i \in S |-> f[i] - g[i]]
<1>1. IsFiniteSet(S)
  BY Tables
<1>2. \A i \in S : f[i] \in Nat /\ g[i] \in Nat /\ g[i] <= f[i]
  BY RowTypes
<1>3. \A i \in S : d[i] \in Nat /\ f[i] = g[i] + d[i]
  BY <1>2
<1>4. /\ DOMAIN f = S /\ DOMAIN g = S
      /\ Reserved(rows) = SumFunction(f) /\ Reserved(new) = SumFunction(g)
  BY DEF Reserved
<1> HIDE DEF S, f, g, d
<1>5. Summable(f, S) /\ Summable(g, S) /\ Summable(d, S)
  BY <1>1, <1>2, <1>3 DEF Summable
<1>6. SumFunctionOnSet(f, S) = SumFunctionOnSet(g, S) + SumFunctionOnSet(d, S)
  BY <1>3, <1>5, SumAdd
<1>7. SumFunctionOnSet(d, S) \in Nat /\ SumFunctionOnSet(g, S) \in Int
  BY <1>2, <1>3, <1>5, SumType
<1> QED BY <1>4, <1>6, <1>7 DEF SumFunction

\* Open rows end with their job.
LEMMA RowsMoved ==
  ASSUME NEW rows \in BulkTables, RowsOk(rows), NEW from, from \subseteq OpenRowStates,
         NEW to \in {"FINAL_FAILED", "CANCELLED"}, NEW new, new = RowsTo(rows, from, to)
  PROVE  /\ new \in BulkTables /\ RowsOk(new) /\ DOMAIN new = DOMAIN rows
         /\ RowCosts(new) = RowCosts(rows) /\ Reserved(new) <= Reserved(rows)
         /\ \A i \in DOMAIN rows : rows[i].approved => new[i] = rows[i]
<1>1. new = [i \in DOMAIN rows |->
               IF rows[i].state \in from THEN [rows[i] EXCEPT !.state = to] ELSE rows[i]]
  BY DEF RowsTo
<1>2. DOMAIN new = DOMAIN rows
  BY <1>1
<1>3. ASSUME NEW i \in DOMAIN rows
      PROVE  /\ new[i] \in BulkRowRecords /\ RowOk(i, new[i])
             /\ new[i].cost = rows[i].cost /\ RowHeld(i, new[i]) <= RowHeld(i, rows[i])
             /\ rows[i].approved => new[i] = rows[i]
  <2>1. PICK row : row = rows[i]
    OBVIOUS
  <2>2. /\ row \in BulkRowRecords /\ RowOk(i, row) /\ RowHeld(i, row) \in Nat
    BY <2>1, Tables, RowTypes DEF RowsOk
  <2>3. new[i] = IF row.state \in from THEN [row EXCEPT !.state = to] ELSE row
    BY <1>1, <2>1
  <2>4. CASE row.state \in from
    <3>1. new[i] = [row EXCEPT !.state = to]
      BY <2>3, <2>4
    <3>2. PICK r : r = [row EXCEPT !.state = to]
      OBVIOUS
    <3>3. /\ r \in BulkRowRecords /\ r.state = to /\ r.attempt = row.attempt /\ r.cost = row.cost
          /\ r.passed = row.passed /\ r.approved = row.approved
      BY <2>2, <3>2 DEF BulkRowRecords, BulkRowStates
    <3>4. row.state \in OpenRowStates
      BY <2>4
    <3>5. ~row.approved
      BY <3>4, <2>2 DEF RowOk, OpenRowStates
    <3>6. RowOk(i, r)
      BY <2>2, <3>3, <3>4, <3>5 DEF RowOk, OpenRowStates, RETRYABLE_ROW_STATES, BulkRowRecords
    <3>7. RowHeld(i, r) = 0
      BY <3>3 DEF RowHeld
    <3> QED BY <2>1, <2>2, <3>1, <3>2, <3>3, <3>5, <3>6, <3>7
  <2>5. CASE row.state \notin from
    BY <2>1, <2>2, <2>3, <2>5
  <2> QED BY <2>4, <2>5
<1>4. new \in BulkTables
  <2>1. CASE rows = <<>>
    BY <1>1, <2>1 DEF BulkTables
  <2>2. CASE rows # <<>>
    <3>1. DOMAIN rows = 1..BulkTarget
      BY <2>2, Tables
    <3> QED BY <1>1, <1>3, <3>1 DEF BulkTables
  <2> QED BY <2>1, <2>2
<1>5. RowsOk(new)
  BY <1>2, <1>3 DEF RowsOk
<1>6. RowCosts(new) = RowCosts(rows)
  <2>1. [i \in DOMAIN new |-> new[i].cost] = [i \in DOMAIN rows |-> rows[i].cost]
    BY <1>2, <1>3
  <2> QED BY <2>1 DEF RowCosts
<1>7. Reserved(new) <= Reserved(rows)
  BY <1>2, <1>3, <1>4, ReservedLess
<1> QED BY <1>2, <1>3, <1>4, <1>5, <1>6, <1>7

\* The rows of the file as they are inserted.
LEMMA Materialized ==
  ASSUME NEW new, new = [i \in 1..BulkTarget |-> MaterializedRow(i)]
  PROVE  /\ new \in BulkTables /\ new # <<>> /\ RowsOk(new) /\ Rests(new) /\ Ran(new)
         /\ RowCosts(new) = 0 /\ Reserved(new) = 0 /\ \A i \in DOMAIN new : ~new[i].approved
<1>1. BulkTarget \in Nat /\ BulkTarget >= 1 /\ BulkRowAttempts \in Nat /\ BulkRowAttempts >= 1
  BY BulkNumbers
<1>2. DOMAIN new = 1..BulkTarget /\ \A i \in 1..BulkTarget : new[i] = MaterializedRow(i)
  OBVIOUS
<1>3. \A i : MaterializedState(i) \in {"INVALID", "DUPLICATE", "READY"}
  BY DEF MaterializedState
<1>4. ASSUME NEW i
      PROVE  /\ MaterializedRow(i) \in BulkRowRecords /\ RowOk(i, MaterializedRow(i))
             /\ MaterializedRow(i).state # "PROCESSING" /\ MaterializedRow(i).cost = 0
             /\ MaterializedRow(i).state \in PROCESSED_ROW_STATES => Worked(i, MaterializedRow(i))
             /\ MaterializedRow(i).approved = FALSE
  <2>1. PICK r : r = MaterializedRow(i)
    OBVIOUS
  <2>2. /\ r.state = MaterializedState(i) /\ r.attempt = 0 /\ r.passed = FALSE /\ r.approved = FALSE
        /\ r.cost = 0
    BY <2>1 DEF MaterializedRow
  <2>3. r \in BulkRowRecords
    BY <2>1, <1>3 DEF MaterializedRow, BulkRowRecords, BulkRowStates
  <2>4. RowOk(i, r)
    BY <2>2, <1>1, <1>3 DEF RowOk, OpenRowStates, RETRYABLE_ROW_STATES
  <2>5. r.state # "PROCESSING" /\ (r.state \in PROCESSED_ROW_STATES => Worked(i, r))
    BY <2>2, <1>3 DEF PROCESSED_ROW_STATES, Worked
  <2> QED BY <2>1, <2>2, <2>3, <2>4, <2>5
<1>5. new \in [1..BulkTarget -> BulkRowRecords]
  BY <1>4
<1>6. new # <<>> /\ new \in BulkTables
  BY <1>1, <1>2, <1>5 DEF BulkTables
<1>7. RowsOk(new) /\ Rests(new) /\ Ran(new) /\ \A i \in DOMAIN new : ~new[i].approved
  BY <1>2, <1>4 DEF RowsOk, Rests, Ran
<1>8. Reserved(new) = 0
  BY <1>6, <1>7, NothingReserved
<1>9. RowCosts(new) = 0
  <2> DEFINE S == DOMAIN new
             f == [i \in S |-> new[i].cost]
  <2>1. IsFiniteSet(S) /\ \A i \in S : f[i] = 0
    BY <1>2, <1>4, <1>6, Tables
  <2>2. DOMAIN f = S /\ RowCosts(new) = SumFunction(f)
    BY DEF RowCosts
  <2> HIDE DEF S, f
  <2> QED BY <2>1, <2>2, SumZero DEF SumFunction
<1> QED BY <1>6, <1>7, <1>8, <1>9

-----------------------------------------------------------------------------
(* Jobs.                                                                   *)

LEMMA Limits ==
  /\ BulkTarget \in Nat /\ BulkTarget >= 1 /\ BulkMaximum \in Nat /\ BulkRowAttempts \in Nat
  /\ BulkMaxMsgs \in Nat /\ BulkMaxFaults \in Nat
BY BulkNumbers

\* Counting again keeps the rest of the job and gives the right count.
LEMMA Refreshed ==
  ASSUME NEW job \in JobRecords, NEW rows \in BulkTables,
         job.state \notin {"CANCELLED", "FINAL_FAILED"} => Ran(rows),
         NEW new, new = RefreshProgress(job, rows)
  PROVE  /\ new \in JobRecords /\ new.state = job.state /\ new.pause = job.pause /\ new.kill = job.kill
         /\ new.actual = job.actual /\ new.held = job.held /\ ProgressOk(new, rows)
<1> DEFINE n == Cardinality({i \in DOMAIN rows : rows[i].state \in PROCESSED_ROW_STATES})
<1>1. n \in Nat /\ n <= BulkTarget /\ (Ran(rows) => n <= Cardinality(WorkedRows(rows)))
  <2>1. {i \in DOMAIN rows : rows[i].state \in PROCESSED_ROW_STATES} \in SUBSET DOMAIN rows
    OBVIOUS
  <2> QED BY <2>1, Counts
<1>2. new = [job EXCEPT !.processed = n]
  BY DEF RefreshProgress
<1> HIDE DEF n
<1>3. /\ new \in JobRecords /\ new.state = job.state /\ new.pause = job.pause /\ new.kill = job.kill
      /\ new.actual = job.actual /\ new.held = job.held /\ new.processed = n
  BY <1>1, <1>2 DEF JobRecords
<1> QED BY <1>1, <1>3 DEF ProgressOk

LEMMA JobTypes ==
  ASSUME NEW job \in JobRecords
  PROVE  /\ job.state \in BulkStates /\ job.pause \in BOOLEAN /\ job.kill \in BOOLEAN
         /\ job.actual \in Nat /\ job.held \in Nat /\ job.processed \in Nat
BY DEF JobRecords

\* What a failure makes of a job.
LEMMA Failed ==
  ASSUME NEW job \in JobRecords, NEW rows \in BulkTables, JobOk(job, rows),
         NEW j, j = FailedJob(job, rows), NEW r, r = FailedRows(job, rows)
  PROVE  /\ j \in JobRecords /\ r \in BulkTables /\ JobOk(j, r)
         /\ j.pause = job.pause /\ j.kill = job.kill
         /\ FailsFrom(job.state) => j.state = "FINAL_FAILED"
         /\ ~FailsFrom(job.state) => j = job /\ r = rows
         /\ \A i \in DOMAIN rows : rows[i].approved => r[i] = rows[i]
<1>1. CASE ~FailsFrom(job.state)
  BY <1>1 DEF FailedJob, FailedRows
<1>2. CASE FailsFrom(job.state)
  <2> DEFINE from == {"READY", "QUEUED", "PROCESSING"}
  <2>1. PICK k : k = [job EXCEPT !.state = "FINAL_FAILED"]
    OBVIOUS
  <2>2. r = RowsTo(rows, from, "FINAL_FAILED") /\ j = RefreshProgress(k, rows)
    BY <1>2, <2>1 DEF FailedJob, FailedRows
  <2>3. /\ k \in JobRecords /\ k.state = "FINAL_FAILED" /\ k.pause = job.pause /\ k.kill = job.kill
        /\ k.actual = job.actual /\ k.held = job.held
    BY <2>1 DEF JobRecords, BulkStates
  <2>4. from \subseteq OpenRowStates /\ RowsOk(rows)
    BY DEF OpenRowStates, JobOk
  <2> HIDE DEF from
  <2>5. /\ r \in BulkTables /\ RowsOk(r) /\ DOMAIN r = DOMAIN rows
        /\ RowCosts(r) = RowCosts(rows) /\ Reserved(r) <= Reserved(rows)
        /\ \A i \in DOMAIN rows : rows[i].approved => r[i] = rows[i]
    BY <2>2, <2>4, RowsMoved
  <2>6. /\ j \in JobRecords /\ j.state = k.state /\ j.pause = k.pause /\ j.kill = k.kill
        /\ j.actual = k.actual /\ j.held = k.held /\ ProgressOk(j, rows)
    BY <2>2, <2>3, Refreshed
  <2>7. ProgressOk(j, r)
    BY <2>3, <2>6 DEF ProgressOk
  <2>8. JobOk(j, r)
    <3>1. Reserved(rows) \in Nat /\ Reserved(r) \in Nat /\ job.held \in Nat
      BY <2>5, SumTypes, JobTypes
    <3> QED BY <2>3, <2>5, <2>6, <2>7, <3>1 DEF JobOk, SumsOk
  <2> QED BY <1>2, <2>3, <2>5, <2>6, <2>8
<1> QED BY <1>1, <1>2

\* The settlement at the end of a job that was open.
LEMMA Settled ==
  ASSUME NEW b, bulkHolds[b] \in HoldRecords, bulkHolds[b].state = "HELD",
         NEW job \in JobRecords, NEW rows \in BulkTables, JobOk(job, rows), job.state # "NONE",
         job.state = "SUCCEEDED" => ValidateBulkSuccess(job) \/ job.kill,
         NEW h, h = SettledBulkHold(b, job)
  PROVE  h \in HoldRecords /\ HoldRule(job, rows, h)
<1>1. job.actual \in Nat /\ job.state \in BulkStates /\ job.processed \in Nat
  BY JobTypes
<1>2. CASE job.state \notin TERMINAL_JOB_STATES
  <2>1. h = bulkHolds[b]
    BY <1>2 DEF SettledBulkHold
  <2> QED BY <1>2, <2>1 DEF HoldRule, TERMINAL_JOB_STATES
<1>3. CASE job.state \in TERMINAL_JOB_STATES /\ job.state # "SUCCEEDED"
  <2>1. h = [state |-> "RELEASED", charged |-> 0]
    BY <1>3 DEF SettledBulkHold
  <2>2. h \in HoldRecords /\ h.state = "RELEASED"
    BY <2>1 DEF HoldRecords
  <2> QED BY <1>3, <2>2 DEF HoldRule, TERMINAL_JOB_STATES
<1>4. CASE job.state = "SUCCEEDED" /\ ValidateBulkSuccess(job)
  <2>1. h = [state |-> "FINALIZED", charged |-> job.actual]
    BY <1>4 DEF SettledBulkHold, TERMINAL_JOB_STATES
  <2>2. h \in HoldRecords /\ h.state = "FINALIZED" /\ h.charged = job.actual
    BY <1>1, <2>1 DEF HoldRecords
  <2>3. job.actual <= BulkMaximum /\ job.processed = BulkTarget /\ job.held = 0
    BY <1>4 DEF ValidateBulkSuccess
  <2>4. BulkTarget <= Cardinality(WorkedRows(rows))
    BY <1>4, <2>3 DEF JobOk, ProgressOk
  <2>5. rows # <<>> /\ \A i \in 1..BulkTarget : Worked(i, rows[i])
    BY <2>4, AllWorked
  <2> QED BY <1>4, <2>2, <2>3, <2>5 DEF HoldRule, TERMINAL_JOB_STATES
<1>5. CASE job.state = "SUCCEEDED" /\ ~ValidateBulkSuccess(job)
  <2>1. h = bulkHolds[b]
    BY <1>5 DEF SettledBulkHold, TERMINAL_JOB_STATES
  <2> QED BY <1>5, <2>1 DEF HoldRule, TERMINAL_JOB_STATES
<1> QED BY <1>2, <1>3, <1>4, <1>5

\* A settlement that is repeated, or comes late for a success the kill switch stopped.
LEMMA SettledAgain ==
  ASSUME NEW b, bulkHolds[b] \in HoldRecords,
         NEW job \in JobRecords, NEW rows \in BulkTables, JobOk(job, rows), job.state # "NONE",
         HoldRule(job, rows, bulkHolds[b]), NEW h, h = SettledBulkHold(b, job)
  PROVE  h \in HoldRecords /\ HoldRule(job, rows, h)
<1>1. CASE bulkHolds[b].state # "HELD"
  <2>1. h = bulkHolds[b]
    BY <1>1 DEF SettledBulkHold
  <2> QED BY <2>1
<1>2. CASE bulkHolds[b].state = "HELD"
  <2>1. job.state = "SUCCEEDED" => job.kill
    BY <1>2 DEF HoldRule
  <2> QED BY <1>2, <2>1, Settled
<1> QED BY <1>1, <1>2

-----------------------------------------------------------------------------
(* One step changes one job.                                               *)

LEMMA AtFacts ==
  ASSUME NEW b \in BulkIds, NEW p \in BulkPlaces
  PROVE  /\ At(b, p) \in Deliveries /\ At(b, p) # BulkIdle
         /\ \A c \in BulkIds, q \in BulkPlaces : At(b, p) = At(c, q) <=> b = c /\ p = q
<1>1. At(b, p) \in Deliveries
  BY DEF At, Deliveries
<1>2. At(b, p) # BulkIdle
  BY <1>1, BulkNames DEF Deliveries
<1>3. At(b, p).job = b /\ At(b, p).at = p
  BY DEF At
<1>4. \A c \in BulkIds, q \in BulkPlaces : At(c, q).job = c /\ At(c, q).at = q
  BY DEF At
<1> QED BY <1>1, <1>2, <1>3, <1>4

LEMMA Snapshot ==
  ASSUME NEW n \in Snapshots PROVE n # BulkCommitted
<1>1. BulkStates \subseteq JobStates \cup {"NONE"}
  BY DEF BulkStates, JobStates, ALLOWED_JOB_TRANSITIONS
<1>2. JobRecords \subseteq BulkJobRecords
  BY <1>1 DEF JobRecords, BulkJobRecords
<1>3. Snapshots \subseteq [job : BulkJobRecords, rows : BulkTables]
  BY <1>2 DEF Snapshots
<1> QED BY <1>3, BulkNames

LEMMA PlaceNames == BulkPlaces = {"fetch", "prepare", "executing", "failing"}
BY DEF BulkPlaces

\* A worker goes from one place at the job to another, takes it on or leaves it.
WorkerGoes(w, b, x) ==
  /\ bulkWorker' \in [BulkWorkers -> Deliveries \cup {BulkIdle}]
  /\ bulkWorker'[w] = x
  /\ \A v \in BulkWorkers : v # w => bulkWorker'[v] = bulkWorker[v]
  /\ \A c \in BulkIds : c # b => \A v \in BulkWorkers, p \in BulkPlaces :
       bulkWorker'[v] = At(c, p) <=> bulkWorker[v] = At(c, p)

LEMMA Goes ==
  ASSUME BulkTypes, NEW w \in BulkWorkers, NEW b \in BulkIds, NEW x,
         x = BulkIdle \/ \E p \in BulkPlaces : x = At(b, p),
         bulkWorker[w] = BulkIdle \/ \E p \in BulkPlaces : bulkWorker[w] = At(b, p),
         bulkWorker' = [bulkWorker EXCEPT ![w] = x]
  PROVE  WorkerGoes(w, b, x)
<1>1. bulkWorker \in [BulkWorkers -> Deliveries \cup {BulkIdle}]
  BY DEF BulkTypes
<1>2. x \in Deliveries \cup {BulkIdle}
  BY AtFacts
<1>3. /\ bulkWorker' \in [BulkWorkers -> Deliveries \cup {BulkIdle}] /\ bulkWorker'[w] = x
      /\ \A v \in BulkWorkers : v # w => bulkWorker'[v] = bulkWorker[v]
  BY <1>1, <1>2
<1>4. ASSUME NEW c \in BulkIds, c # b, NEW p \in BulkPlaces
      PROVE  x # At(c, p) /\ bulkWorker[w] # At(c, p)
  BY <1>4, AtFacts
<1> QED BY <1>3, <1>4 DEF WorkerGoes

\* A delivery is enqueued, or its loss is counted.
Sends(b) ==
  /\ bulkMsgs' \in [BulkIds -> Nat] /\ bulkFaults' \in Nat /\ bulkFaults' >= bulkFaults
  /\ \A c \in BulkIds : c # b => bulkMsgs'[c] = bulkMsgs[c]
  /\ bulkMsgs'[b] >= bulkMsgs[b]

LEMMA Enqueued ==
  ASSUME BulkTypes, NEW b \in BulkIds, EnqueueBulkJob(b)
  PROVE  Sends(b) /\ (bulkMsgs'[b] > 0 \/ bulkFaults' > 0)
<1>1. bulkMsgs \in [BulkIds -> Nat] /\ bulkFaults \in Nat
  BY DEF BulkTypes
<1>2. CASE /\ bulkMsgs' = [bulkMsgs EXCEPT ![b] = @ + 1] /\ bulkFaults' = bulkFaults
  BY <1>1, <1>2 DEF Sends
<1>3. CASE bulkFaults' = bulkFaults + 1 /\ bulkMsgs' = bulkMsgs
  BY <1>1, <1>3 DEF Sends
<1> QED BY <1>2, <1>3 DEF EnqueueBulkJob, BulkFault

LEMMA Redelivered ==
  ASSUME BulkTypes, NEW b \in BulkIds,
         \/ UNCHANGED <<bulkMsgs, bulkFaults>>
         \/ BulkFault /\ bulkMsgs' = [bulkMsgs EXCEPT ![b] = @ + 1]
  PROVE  Sends(b)
<1>1. bulkMsgs \in [BulkIds -> Nat] /\ bulkFaults \in Nat
  BY DEF BulkTypes
<1>2. CASE bulkMsgs' = bulkMsgs /\ bulkFaults' = bulkFaults
  BY <1>1, <1>2 DEF Sends
<1>3. CASE bulkFaults' = bulkFaults + 1 /\ bulkMsgs' = [bulkMsgs EXCEPT ![b] = @ + 1]
  BY <1>1, <1>3 DEF Sends
<1> QED BY <1>2, <1>3 DEF BulkFault

LEMMA Done ==
  ASSUME BulkTypes, NEW w \in BulkWorkers, NEW b \in BulkIds, BulkDone(w, b),
         \E p \in BulkPlaces : bulkWorker[w] = At(b, p)
  PROVE  Sends(b) /\ WorkerGoes(w, b, BulkIdle)
<1>1. bulkWorker' = [bulkWorker EXCEPT ![w] = BulkIdle]
  BY DEF BulkDone
<1>2. WorkerGoes(w, b, BulkIdle)
  BY <1>1, Goes
<1>3. Sends(b)
  BY Redelivered DEF BulkDone
<1> QED BY <1>2, <1>3

\* Only job b changes.
Elsewhere(b) ==
  /\ \A c \in BulkIds : c # b =>
       /\ bulkJobs'[c] = bulkJobs[c] /\ bulkRows'[c] = bulkRows[c] /\ bulkHolds'[c] = bulkHolds[c]
       /\ bulkBefore'[c] = bulkBefore[c] /\ bulkMsgs'[c] = bulkMsgs[c]
       /\ c \in bulkRetried' <=> c \in bulkRetried
       /\ \A v \in BulkWorkers, p \in BulkPlaces : bulkWorker'[v] = At(c, p) <=> bulkWorker[v] = At(c, p)
  /\ bulkFaults' >= bulkFaults

LEMMA Others ==
  ASSUME BulkInv, BulkTypes', NEW b \in BulkIds, Elsewhere(b), NEW c \in BulkIds, c # b
  PROVE  OkFor(c)'
<1>1. /\ bulkJobs'[c] = bulkJobs[c] /\ bulkRows'[c] = bulkRows[c] /\ bulkHolds'[c] = bulkHolds[c]
      /\ bulkBefore'[c] = bulkBefore[c] /\ bulkMsgs'[c] = bulkMsgs[c]
      /\ c \in bulkRetried' <=> c \in bulkRetried
  BY DEF Elsewhere
<1>2. \A v \in BulkWorkers, p \in BulkPlaces : bulkWorker'[v] = At(c, p) <=> bulkWorker[v] = At(c, p)
  BY DEF Elsewhere
<1>3. bulkFaults' > 0 \/ bulkFaults = 0
  BY DEF Elsewhere, BulkInv, BulkTypes
<1>4. OkFor(c)
  BY DEF BulkInv
<1>5. BulkUnlocked(c)' <=> BulkUnlocked(c)
  BY <1>1 DEF BulkUnlocked
<1>6. JobOk(bulkJobs[c], bulkRows[c])'
  BY <1>1, <1>4 DEF OkFor
<1>7. LockOk(c)'
  <2>1. LockOk(c)
    BY <1>4 DEF OkFor
  <2>2. \A v \in BulkWorkers : bulkWorker'[v] = At(c, "executing") <=> bulkWorker[v] = At(c, "executing")
    BY <1>2, PlaceNames
  <2> QED BY <2>1, <2>2, <1>1, <1>5 DEF LockOk
<1>8. HoldOk(c)'
  <2>1. CommittedJob(c)' = CommittedJob(c) /\ CommittedRows(c)' = CommittedRows(c)
    BY <1>1, <1>5 DEF CommittedJob, CommittedRows
  <2> QED BY <2>1, <1>1, <1>4 DEF OkFor, HoldOk
<1>9. NotCreated(c)'
  BY <1>1, <1>2, <1>4, <1>5 DEF OkFor, NotCreated
<1>10. Served(c)'
  <2>1. Served(c)
    BY <1>4 DEF OkFor
  <2>2. \A v \in BulkWorkers :
          /\ bulkWorker'[v] = At(c, "prepare") <=> bulkWorker[v] = At(c, "prepare")
          /\ bulkWorker'[v] = At(c, "fetch") <=> bulkWorker[v] = At(c, "fetch")
          /\ bulkWorker'[v] = At(c, "failing") <=> bulkWorker[v] = At(c, "failing")
    BY <1>2, PlaceNames
  <2>3. bulkFaults > 0 => bulkFaults' > 0
    BY <1>3 DEF BulkInv, BulkTypes
  <2> QED BY <2>1, <2>2, <2>3, <1>1, <1>5 DEF Served
<1> QED BY <1>6, <1>7, <1>8, <1>9, <1>10 DEF OkFor

LEMMA Together ==
  ASSUME BulkInv, NEW b \in BulkIds, BulkTypes', Elsewhere(b), OkFor(b)'
  PROVE  BulkInv'
<1>1. ASSUME NEW c \in BulkIds PROVE OkFor(c)'
  BY Others
<1>2. (\A c \in BulkIds : OkFor(c))'
  BY <1>1
<1> QED BY <1>2 DEF BulkInv

\* What a step writes for job b.
Writes(b, j, r, h, n) ==
  /\ bulkJobs' = [bulkJobs EXCEPT ![b] = j] /\ bulkRows' = [bulkRows EXCEPT ![b] = r]
  /\ bulkHolds' = [bulkHolds EXCEPT ![b] = h] /\ bulkBefore' = [bulkBefore EXCEPT ![b] = n]

Written(b, j, r, h, n) ==
  bulkJobs'[b] = j /\ bulkRows'[b] = r /\ bulkHolds'[b] = h /\ bulkBefore'[b] = n

LEMMA Unwritten ==
  ASSUME BulkTypes, NEW b \in BulkIds
  PROVE  /\ bulkJobs = [bulkJobs EXCEPT ![b] = bulkJobs[b]]
         /\ bulkRows = [bulkRows EXCEPT ![b] = bulkRows[b]]
         /\ bulkHolds = [bulkHolds EXCEPT ![b] = bulkHolds[b]]
         /\ bulkBefore = [bulkBefore EXCEPT ![b] = bulkBefore[b]]
         /\ bulkJobs[b] \in JobRecords /\ bulkRows[b] \in BulkTables /\ bulkHolds[b] \in HoldRecords
         /\ bulkBefore[b] \in Snapshots \cup {BulkCommitted} /\ bulkMsgs[b] \in Nat
<1>1. /\ bulkJobs \in [BulkIds -> JobRecords] /\ bulkRows \in [BulkIds -> BulkTables]
      /\ bulkHolds \in [BulkIds -> HoldRecords]
      /\ bulkBefore \in [BulkIds -> Snapshots \cup {BulkCommitted}] /\ bulkMsgs \in [BulkIds -> Nat]
  BY DEF BulkTypes
<1> QED BY <1>1

LEMMA Framed ==
  ASSUME BulkTypes, NEW b \in BulkIds, NEW j \in JobRecords, NEW r \in BulkTables,
         NEW h \in HoldRecords, NEW n \in Snapshots \cup {BulkCommitted}, Writes(b, j, r, h, n),
         bulkMsgs' \in [BulkIds -> Nat], bulkFaults' \in Nat, bulkFaults' >= bulkFaults,
         \A c \in BulkIds : c # b => bulkMsgs'[c] = bulkMsgs[c],
         bulkRetried' = bulkRetried \/ bulkRetried' = bulkRetried \cup {b},
         bulkWorker' = bulkWorker \/ \E w \in BulkWorkers : \E x : WorkerGoes(w, b, x)
  PROVE  BulkTypes' /\ Elsewhere(b) /\ Written(b, j, r, h, n)
<1>1. /\ bulkJobs' \in [BulkIds -> JobRecords] /\ bulkJobs'[b] = j
      /\ \A c \in BulkIds : c # b => bulkJobs'[c] = bulkJobs[c]
  BY DEF BulkTypes, Writes
<1>2. /\ bulkRows' \in [BulkIds -> BulkTables] /\ bulkRows'[b] = r
      /\ \A c \in BulkIds : c # b => bulkRows'[c] = bulkRows[c]
  BY DEF BulkTypes, Writes
<1>3. /\ bulkHolds' \in [BulkIds -> HoldRecords] /\ bulkHolds'[b] = h
      /\ \A c \in BulkIds : c # b => bulkHolds'[c] = bulkHolds[c]
  BY DEF BulkTypes, Writes
<1>4. /\ bulkBefore' \in [BulkIds -> Snapshots \cup {BulkCommitted}] /\ bulkBefore'[b] = n
      /\ \A c \in BulkIds : c # b => bulkBefore'[c] = bulkBefore[c]
  BY DEF BulkTypes, Writes
<1>5. bulkRetried' \subseteq BulkIds /\ \A c \in BulkIds : c # b => (c \in bulkRetried' <=> c \in bulkRetried)
  BY DEF BulkTypes
<1>6. /\ bulkWorker' \in [BulkWorkers -> Deliveries \cup {BulkIdle}]
      /\ \A c \in BulkIds : c # b => \A v \in BulkWorkers, p \in BulkPlaces :
           bulkWorker'[v] = At(c, p) <=> bulkWorker[v] = At(c, p)
  <2>1. CASE bulkWorker' = bulkWorker
    BY <2>1 DEF BulkTypes
  <2>2. CASE \E w \in BulkWorkers : \E x : WorkerGoes(w, b, x)
    BY <2>2 DEF WorkerGoes
  <2> QED BY <2>1, <2>2
<1>7. BulkTypes'
  BY <1>1, <1>2, <1>3, <1>4, <1>5, <1>6 DEF BulkTypes
<1>8. Elsewhere(b)
  BY <1>1, <1>2, <1>3, <1>4, <1>5, <1>6 DEF Elsewhere
<1> QED BY <1>1, <1>2, <1>3, <1>4, <1>7, <1>8 DEF Written

\* Job b afterwards, when no run holds it.
LEMMA OpenOk ==
  ASSUME NEW b \in BulkIds, bulkBefore'[b] = BulkCommitted,
         \A v \in BulkWorkers : bulkWorker'[v] # At(b, "executing"),
         JobOk(bulkJobs'[b], bulkRows'[b]),
         HoldRule(bulkJobs'[b], bulkRows'[b], bulkHolds'[b]),
         bulkJobs'[b].state # "NONE", Served(b)'
  PROVE  OkFor(b)'
<1>1. BulkUnlocked(b)'
  BY DEF BulkUnlocked
<1>2. CommittedJob(b)' = bulkJobs'[b] /\ CommittedRows(b)' = bulkRows'[b]
  BY <1>1 DEF CommittedJob, CommittedRows
<1>3. LockOk(b)'
  BY <1>1 DEF LockOk
<1>4. HoldOk(b)'
  BY <1>2 DEF HoldOk
<1>5. NotCreated(b)'
  BY DEF NotCreated
<1> QED BY <1>3, <1>4, <1>5 DEF OkFor

\* And when a run holds it.
LEMMA HeldOk ==
  ASSUME NEW b \in BulkIds, bulkBefore'[b] # BulkCommitted,
         NEW w \in BulkWorkers, \A v \in BulkWorkers : bulkWorker'[v] = At(b, "executing") <=> v = w,
         JobOk(bulkJobs'[b], bulkRows'[b]), RunOk(bulkJobs'[b], bulkRows'[b], bulkBefore'[b]),
         HoldRule(bulkBefore'[b].job, bulkBefore'[b].rows, bulkHolds'[b])
  PROVE  OkFor(b)'
<1>1. ~BulkUnlocked(b)'
  BY DEF BulkUnlocked
<1>2. CommittedJob(b)' = bulkBefore'[b].job /\ CommittedRows(b)' = bulkBefore'[b].rows
  BY <1>1 DEF CommittedJob, CommittedRows
<1>3. LockOk(b)'
  BY <1>1 DEF LockOk
<1>4. HoldOk(b)'
  BY <1>2 DEF HoldOk
<1>5. bulkJobs'[b].state # "NONE" /\ bulkJobs'[b].state # "CANCEL_REQUESTED"
  BY DEF RunOk, Runnable
<1>6. NotCreated(b)' /\ Served(b)'
  BY <1>1, <1>5 DEF NotCreated, Served
<1> QED BY <1>3, <1>4, <1>6 DEF OkFor

\* What the invariant says of job b.
LEMMA Unheld ==
  ASSUME BulkInv, NEW b \in BulkIds, BulkUnlocked(b)
  PROVE  /\ bulkBefore[b] = BulkCommitted
         /\ \A v \in BulkWorkers : bulkWorker[v] # At(b, "executing")
         /\ JobOk(bulkJobs[b], bulkRows[b]) /\ HoldRule(bulkJobs[b], bulkRows[b], bulkHolds[b])
         /\ NotCreated(b) /\ Served(b)
<1>1. OkFor(b)
  BY DEF BulkInv
<1>2. CommittedJob(b) = bulkJobs[b] /\ CommittedRows(b) = bulkRows[b]
  BY DEF CommittedJob, CommittedRows
<1> QED BY <1>1, <1>2 DEF OkFor, LockOk, HoldOk, BulkUnlocked

LEMMA Held ==
  ASSUME BulkInv, NEW b \in BulkIds, ~BulkUnlocked(b)
  PROVE  /\ bulkBefore[b] \in Snapshots
         /\ RunOk(bulkJobs[b], bulkRows[b], bulkBefore[b]) /\ JobOk(bulkJobs[b], bulkRows[b])
         /\ HoldRule(bulkBefore[b].job, bulkBefore[b].rows, bulkHolds[b])
         /\ \E w \in BulkWorkers :
              \A v \in BulkWorkers : bulkWorker[v] = At(b, "executing") <=> v = w
<1>1. OkFor(b)
  BY DEF BulkInv
<1>2. CommittedJob(b) = bulkBefore[b].job /\ CommittedRows(b) = bulkBefore[b].rows
  BY DEF CommittedJob, CommittedRows
<1>3. bulkBefore[b] \in Snapshots
  BY DEF BulkInv, BulkTypes, BulkUnlocked
<1> QED BY <1>1, <1>2, <1>3 DEF OkFor, LockOk, HoldOk

\* Whether a job agrees with its rows depends on its state only through its end.
LEMMA StateMoved ==
  ASSUME NEW job, NEW rows, JobOk(job, rows), NEW j, j.actual = job.actual, j.held = job.held,
         j.processed = job.processed, j.kill => j.pause,
         job.state \in {"CANCELLED", "FINAL_FAILED"} => j.state \in {"CANCELLED", "FINAL_FAILED"}
  PROVE  JobOk(j, rows)
BY DEF JobOk, SumsOk, ProgressOk

\* The hold of an open job.
LEMMA HeldHoldIsOpen ==
  ASSUME NEW job \in JobRecords, NEW rows, NEW hold, job.state \notin TERMINAL_JOB_STATES \cup {"NONE"}
  PROVE  HoldRule(job, rows, hold) <=> hold.state = "HELD"
BY DEF HoldRule, TERMINAL_JOB_STATES

-----------------------------------------------------------------------------
(* Requests.                                                               *)

LEMMA SentServes ==
  ASSUME NEW b \in BulkIds, bulkMsgs'[b] > 0 \/ bulkFaults' > 0 PROVE Served(b)'
BY DEF Served

LEMMA StepCreate == ASSUME BulkInv, NEW b \in BulkIds, CreateBulkJob(b) PROVE BulkInv'
<1>1. BulkTypes
  BY DEF BulkInv
<1>2. PICK job : job = bulkJobs[b]
  OBVIOUS
<1>3. job = NoBulkJob /\ job.state = "NONE" /\ job.kill = FALSE /\ job \in JobRecords
  BY <1>1, <1>2, Unwritten DEF CreateBulkJob, NoBulkJob
<1>4. NotCreated(b)
  BY DEF BulkInv, OkFor
<1>5. BulkUnlocked(b) /\ bulkRows[b] = <<>>
  BY <1>2, <1>3, <1>4 DEF NotCreated
<1>6. PICK j : j = [job EXCEPT !.state = "QUEUED"]
  OBVIOUS
<1>7. /\ j \in JobRecords /\ j.state = "QUEUED" /\ j.kill = FALSE /\ j.actual = job.actual
      /\ j.held = job.held /\ j.processed = job.processed
  BY <1>3, <1>6 DEF JobRecords, BulkStates
<1>8. PICK h : h = [bulkHolds[b] EXCEPT !.state = "HELD"]
  OBVIOUS
<1>9. h \in HoldRecords /\ h.state = "HELD"
  BY <1>1, <1>8, Unwritten DEF HoldRecords
<1>10. Writes(b, j, bulkRows[b], h, bulkBefore[b])
  <2>1. bulkJobs' = [bulkJobs EXCEPT ![b] = j] /\ bulkHolds' = [bulkHolds EXCEPT ![b] = h]
    BY <1>2, <1>6, <1>8 DEF CreateBulkJob
  <2>2. bulkRows' = bulkRows /\ bulkBefore' = bulkBefore
    BY DEF CreateBulkJob
  <2> QED BY <2>1, <2>2, <1>1, Unwritten DEF Writes
<1>11. Sends(b) /\ (bulkMsgs'[b] > 0 \/ bulkFaults' > 0)
  BY <1>1, Enqueued DEF CreateBulkJob
<1>12. BulkTypes' /\ Elsewhere(b) /\ Written(b, j, bulkRows[b], h, bulkBefore[b])
  <2>1. bulkRetried' = bulkRetried /\ bulkWorker' = bulkWorker
    BY DEF CreateBulkJob
  <2> QED BY <2>1, <1>1, <1>7, <1>9, <1>10, <1>11, Unwritten, Framed DEF Sends
<1>13. JobOk(j, bulkRows[b])
  BY <1>2, <1>3, <1>5, <1>7, Unheld, StateMoved
<1>14. HoldRule(j, bulkRows[b], h)
  BY <1>7, <1>9, HeldHoldIsOpen DEF TERMINAL_JOB_STATES
<1>15. Served(b)'
  BY <1>11, SentServes
<1>16. OkFor(b)'
  <2>1. \A v \in BulkWorkers : bulkWorker'[v] # At(b, "executing")
    BY <1>5, Unheld DEF CreateBulkJob
  <2> QED BY <2>1, <1>5, <1>7, <1>12, <1>13, <1>14, <1>15, Unheld, OpenOk DEF Written
<1> QED BY <1>12, <1>16, Together

LEMMA CommandableFacts ==
  ASSUME BulkInv, NEW b \in BulkIds, Commandable(b)
  PROVE  /\ BulkUnlocked(b) /\ bulkJobs[b].state \notin TERMINAL_JOB_STATES \cup {"NONE"}
         /\ bulkHolds[b].state = "HELD"
<1>1. BulkUnlocked(b) /\ bulkJobs[b].state \notin TERMINAL_JOB_STATES /\ bulkJobs[b] # NoBulkJob
  BY DEF Commandable
<1>2. bulkJobs[b].state # "NONE"
  BY <1>1, Unheld DEF NotCreated
<1> QED BY <1>1, <1>2, Unheld DEF HoldRule

\* A request that changes state or pause of an open job.
LEMMA Commanded ==
  ASSUME BulkInv, NEW b \in BulkIds, Commandable(b), NEW j \in JobRecords,
         j.actual = bulkJobs[b].actual, j.held = bulkJobs[b].held,
         j.processed = bulkJobs[b].processed, j.kill => j.pause,
         j.state \notin TERMINAL_JOB_STATES \cup {"NONE"},
         bulkJobs' = [bulkJobs EXCEPT ![b] = j], Sends(b), Served(b)',
         UNCHANGED <<bulkRows, bulkHolds, bulkBefore, bulkWorker, bulkRetried>>
  PROVE  BulkInv'
<1>1. BulkTypes
  BY DEF BulkInv
<1>2. /\ BulkUnlocked(b) /\ bulkJobs[b].state \notin TERMINAL_JOB_STATES \cup {"NONE"}
      /\ bulkHolds[b].state = "HELD"
  BY CommandableFacts
<1>3. Writes(b, j, bulkRows[b], bulkHolds[b], bulkBefore[b])
  BY <1>1, Unwritten DEF Writes
<1>4. BulkTypes' /\ Elsewhere(b) /\ Written(b, j, bulkRows[b], bulkHolds[b], bulkBefore[b])
  BY <1>1, <1>3, Unwritten, Framed DEF Sends
<1>5. JobOk(j, bulkRows[b])
  BY <1>2, Unheld, StateMoved DEF TERMINAL_JOB_STATES
<1>6. HoldRule(j, bulkRows[b], bulkHolds[b])
  BY <1>2, HeldHoldIsOpen
<1>7. OkFor(b)'
  BY <1>2, <1>4, <1>5, <1>6, Unheld, OpenOk DEF Written
<1> QED BY <1>4, <1>7, Together

LEMMA StepPause == ASSUME BulkInv, NEW b \in BulkIds, PauseBulkJob(b) PROVE BulkInv'
<1>1. BulkTypes /\ Commandable(b)
  BY DEF BulkInv, PauseBulkJob
<1>2. PICK job : job = bulkJobs[b]
  OBVIOUS
<1>3. PICK j : j = [job EXCEPT !.pause = TRUE]
  OBVIOUS
<1>4. job \in JobRecords
  BY <1>1, <1>2, Unwritten
<1>5. /\ j \in JobRecords /\ j.actual = job.actual /\ j.held = job.held /\ j.processed = job.processed
      /\ j.pause = TRUE /\ j.state = job.state
  BY <1>3, <1>4 DEF JobRecords
<1>6. bulkJobs' = [bulkJobs EXCEPT ![b] = j]
  BY <1>2, <1>3 DEF PauseBulkJob
<1>7. BulkUnlocked(b) /\ job.state \notin TERMINAL_JOB_STATES \cup {"NONE"}
  BY <1>1, <1>2, CommandableFacts
<1>8. bulkJobs'[b] = j
  BY <1>1, <1>5, <1>6 DEF BulkTypes
<1>9. UNCHANGED <<bulkRows, bulkHolds, bulkBefore, bulkWorker, bulkRetried, bulkMsgs, bulkFaults>>
  BY DEF PauseBulkJob
<1>10. Sends(b)
  BY <1>1, <1>9, Redelivered
<1>11. Served(b)'
  BY <1>2, <1>5, <1>7, <1>8, <1>9, Unheld DEF Served
<1> QED BY <1>1, <1>2, <1>5, <1>6, <1>7, <1>9, <1>10, <1>11, Commanded

LEMMA StepResume == ASSUME BulkInv, NEW b \in BulkIds, ResumeBulkJob(b) PROVE BulkInv'
<1>1. BulkTypes /\ Commandable(b) /\ ~bulkJobs[b].kill
  BY DEF BulkInv, ResumeBulkJob
<1>2. PICK job : job = bulkJobs[b]
  OBVIOUS
<1>3. PICK j : j = [job EXCEPT !.pause = FALSE]
  OBVIOUS
<1>4. job \in JobRecords
  BY <1>1, <1>2, Unwritten
<1>5. /\ j \in JobRecords /\ j.actual = job.actual /\ j.held = job.held /\ j.processed = job.processed
      /\ j.kill = job.kill /\ j.state = job.state
  BY <1>3, <1>4 DEF JobRecords
<1>6. bulkJobs' = [bulkJobs EXCEPT ![b] = j]
  BY <1>2, <1>3 DEF ResumeBulkJob
<1>7. job.state \notin TERMINAL_JOB_STATES \cup {"NONE"}
  BY <1>1, <1>2, CommandableFacts
<1>8. Sends(b) /\ (bulkMsgs'[b] > 0 \/ bulkFaults' > 0)
  BY <1>1, Enqueued DEF ResumeBulkJob
<1>9. UNCHANGED <<bulkRows, bulkHolds, bulkBefore, bulkWorker, bulkRetried>>
  BY DEF ResumeBulkJob
<1>10. Served(b)'
  BY <1>8, SentServes
<1> QED BY <1>1, <1>2, <1>5, <1>6, <1>7, <1>8, <1>9, <1>10, Commanded

LEMMA StepCancel == ASSUME BulkInv, NEW b \in BulkIds, CancelBulkJob(b) PROVE BulkInv'
<1>1. BulkTypes /\ Commandable(b)
  BY DEF BulkInv, CancelBulkJob
<1>2. PICK job : job = bulkJobs[b]
  OBVIOUS
<1>3. job \in JobRecords /\ job.state \notin TERMINAL_JOB_STATES \cup {"NONE"} /\ (job.kill => job.pause)
  BY <1>1, <1>2, Unwritten, CommandableFacts, Unheld DEF JobOk
<1>4. Sends(b) /\ (bulkMsgs'[b] > 0 \/ bulkFaults' > 0)
  BY <1>1, Enqueued DEF CancelBulkJob
<1>5. UNCHANGED <<bulkRows, bulkHolds, bulkBefore, bulkWorker, bulkRetried>>
  BY DEF CancelBulkJob
<1>6. Served(b)'
  BY <1>4, SentServes
<1>7. CASE bulkJobs' = bulkJobs
  <2>1. bulkJobs' = [bulkJobs EXCEPT ![b] = job]
    BY <1>1, <1>2, <1>7, Unwritten
  <2> QED BY <1>1, <1>2, <1>3, <1>4, <1>5, <1>6, <2>1, Commanded
<1>8. CASE bulkJobs' = [bulkJobs EXCEPT ![b].state = "CANCEL_REQUESTED", ![b].pause = TRUE]
  <2>1. PICK j : j = [job EXCEPT !.state = "CANCEL_REQUESTED", !.pause = TRUE]
    OBVIOUS
  <2>2. /\ j \in JobRecords /\ j.actual = job.actual /\ j.held = job.held
        /\ j.processed = job.processed /\ j.pause = TRUE /\ j.state = "CANCEL_REQUESTED"
    BY <1>3, <2>1 DEF JobRecords, BulkStates
  <2>3. bulkJobs' = [bulkJobs EXCEPT ![b] = j]
    BY <1>1, <1>2, <1>8, <2>1 DEF BulkTypes
  <2>4. j.state \notin TERMINAL_JOB_STATES \cup {"NONE"}
    BY <2>2 DEF TERMINAL_JOB_STATES
  <2> QED BY <1>1, <1>2, <1>4, <1>5, <1>6, <2>2, <2>3, <2>4, Commanded
<1> QED BY <1>7, <1>8 DEF CancelBulkJob

\* A request that changes one row of a job that no run holds.
LEMMA RowCommanded ==
  ASSUME BulkInv, NEW b \in BulkIds, BulkUnlocked(b), bulkJobs[b].state # "NONE",
         NEW i \in DOMAIN bulkRows[b], NEW row \in BulkRowRecords, RowOk(i, row),
         row.attempt = bulkRows[b][i].attempt, row.cost = bulkRows[b][i].cost, row.state # "PROCESSING",
         row.state \in PROCESSED_ROW_STATES => Worked(i, row),
         NEW r, r = [bulkRows[b] EXCEPT ![i] = row]
  PROVE  /\ r \in BulkTables /\ RowsOk(r) /\ r # <<>> /\ bulkRows[b] # <<>>
         /\ JobOk(bulkJobs[b], r) /\ (Ran(bulkRows[b]) => Ran(r))
         /\ HoldRule(bulkJobs[b], r, bulkHolds[b])
<1>1. PICK rows : rows = bulkRows[b]
  OBVIOUS
<1>2. /\ rows \in BulkTables /\ JobOk(bulkJobs[b], rows) /\ RowsOk(rows)
      /\ HoldRule(bulkJobs[b], rows, bulkHolds[b]) /\ bulkJobs[b] \in JobRecords
  BY <1>1, Unheld, Unwritten DEF BulkInv, JobOk
<1>3. /\ r \in BulkTables /\ r # <<>> /\ DOMAIN r = DOMAIN rows /\ r[i] = row
      /\ \A k \in DOMAIN rows : k # i => r[k] = rows[k]
  BY <1>1, <1>2, RowReplaced
<1>4. rows[i].attempt \in Nat /\ row.attempt >= rows[i].attempt /\ rows[i].cost \in Nat /\ rows # <<>>
  BY <1>1, <1>2, RowTypes
<1>5. /\ RowsOk(r) /\ Cardinality(WorkedRows(rows)) <= Cardinality(WorkedRows(r))
      /\ RowCosts(r) = RowCosts(rows) - rows[i].cost + row.cost
      /\ Reserved(r) = Reserved(rows) - RowHeld(i, rows[i]) + RowHeld(i, row)
      /\ Ran(rows) /\ (row.state \in PROCESSED_ROW_STATES => Worked(i, row)) => Ran(r)
  BY <1>1, <1>2, <1>3, <1>4, RowChanged
<1>6. RowHeld(i, row) = 0 /\ RowHeld(i, rows[i]) \in Nat
  BY <1>1, <1>2, RowTypes DEF RowHeld
<1>7. Reserved(r) <= Reserved(rows) /\ Reserved(r) \in Nat /\ Reserved(rows) \in Nat
  BY <1>2, <1>3, <1>5, <1>6, SumTypes
<1>8. RowCosts(r) = RowCosts(rows)
  BY <1>1, <1>2, <1>4, <1>5, SumTypes
<1>9. SumsOk(bulkJobs[b], r)
  BY <1>2, <1>7, <1>8, JobTypes DEF JobOk, SumsOk
<1>10. ProgressOk(bulkJobs[b], r)
  <2>1. bulkJobs[b].processed \in Nat /\ Cardinality(WorkedRows(rows)) \in Nat /\ Cardinality(WorkedRows(r)) \in Nat
    BY <1>2, <1>3, JobTypes, Counts
  <2>2. ProgressOk(bulkJobs[b], rows)
    BY <1>2 DEF JobOk
  <2> QED BY <2>1, <2>2, <1>5 DEF ProgressOk
<1>11. JobOk(bulkJobs[b], r)
  BY <1>2, <1>5, <1>9, <1>10 DEF JobOk
<1>12. HoldRule(bulkJobs[b], r, bulkHolds[b])
  <2>1. ASSUME \A k \in 1..BulkTarget : Worked(k, rows[k]) PROVE \A k \in 1..BulkTarget : Worked(k, r[k])
    <3>1. DOMAIN rows = 1..BulkTarget
      BY <1>2, <1>4, Tables
    <3>2. Worked(i, row)
      BY <1>1, <2>1, <3>1 DEF Worked
    <3> QED BY <2>1, <3>1, <3>2, <1>3
  <2> QED BY <2>1, <1>2, <1>3 DEF HoldRule
<1> QED BY <1>1, <1>3, <1>4, <1>5, <1>6, <1>11, <1>12

LEMMA StepRetry == ASSUME BulkInv, NEW b \in BulkIds, RetryRows(b) PROVE BulkInv'
<1>1. BulkTypes
  BY DEF BulkInv
<1>2. CASE \E i \in DOMAIN bulkRows[b], regenerate \in BOOLEAN :
             /\ Commandable(b) /\ RowMayRetry(bulkRows[b][i])
             /\ bulkRows' = [bulkRows EXCEPT ![b][i].state = "QUEUED",
                                             ![b][i].passed = @ /\ ~regenerate]
             /\ bulkRetried' = bulkRetried \cup {b} /\ EnqueueBulkJob(b)
             /\ UNCHANGED <<bulkJobs, bulkHolds, bulkBefore, bulkWorker>>
  <2>1. PICK i \in DOMAIN bulkRows[b], regenerate \in BOOLEAN :
             /\ Commandable(b) /\ RowMayRetry(bulkRows[b][i])
             /\ bulkRows' = [bulkRows EXCEPT ![b][i].state = "QUEUED",
                                             ![b][i].passed = @ /\ ~regenerate]
             /\ bulkRetried' = bulkRetried \cup {b} /\ EnqueueBulkJob(b)
             /\ UNCHANGED <<bulkJobs, bulkHolds, bulkBefore, bulkWorker>>
    BY <1>2
  <2>2. PICK old : old = bulkRows[b][i]
    OBVIOUS
  <2>3. PICK row : row = [old EXCEPT !.state = "QUEUED", !.passed = @ /\ ~regenerate]
    OBVIOUS
  <2>4. PICK r : r = [bulkRows[b] EXCEPT ![i] = row]
    OBVIOUS
  <2>5. bulkRows' = [bulkRows EXCEPT ![b] = r]
    BY <2>1, <2>2, <2>3, <2>4
  <2>6. BulkUnlocked(b) /\ bulkJobs[b].state # "NONE"
    BY <2>1, CommandableFacts
  <2>7. /\ RowOk(i, old) /\ old \in BulkRowRecords /\ old.attempt \in Nat
    BY <1>1, <2>2, <2>6, Unheld, Unwritten, RowTypes DEF JobOk, RowsOk
  <2>8. /\ row \in BulkRowRecords /\ row.state = "QUEUED" /\ row.attempt = old.attempt
        /\ row.cost = old.cost /\ (row.passed => old.passed) /\ row.approved = old.approved
    BY <2>3, <2>7 DEF BulkRowRecords, BulkRowStates
  <2>9. old.state \in RETRYABLE_ROW_STATES /\ ~old.approved /\ old.attempt < BulkRowAttempts
    BY <2>1, <2>2 DEF RowMayRetry
  <2>10. RowOk(i, row)
    BY <2>7, <2>8, <2>9, Limits DEF RowOk, OpenRowStates
  <2>11. row.state # "PROCESSING" /\ row.state \notin PROCESSED_ROW_STATES
    BY <2>8 DEF PROCESSED_ROW_STATES
  <2>12. /\ r \in BulkTables /\ JobOk(bulkJobs[b], r) /\ HoldRule(bulkJobs[b], r, bulkHolds[b])
    BY <2>2, <2>4, <2>6, <2>8, <2>10, <2>11, RowCommanded
  <2>13. Sends(b) /\ (bulkMsgs'[b] > 0 \/ bulkFaults' > 0)
    BY <1>1, <2>1, Enqueued
  <2>14. Writes(b, bulkJobs[b], r, bulkHolds[b], bulkBefore[b])
    BY <1>1, <2>1, <2>5, Unwritten DEF Writes
  <2>15. BulkTypes' /\ Elsewhere(b) /\ Written(b, bulkJobs[b], r, bulkHolds[b], bulkBefore[b])
    BY <1>1, <2>1, <2>12, <2>13, <2>14, Unwritten, Framed DEF Sends
  <2>16. Served(b)'
    BY <2>13, SentServes
  <2>17. \A v \in BulkWorkers : bulkWorker'[v] # At(b, "executing")
    BY <2>1, <2>6, Unheld
  <2>18. OkFor(b)'
    BY <2>6, <2>12, <2>15, <2>16, <2>17, Unheld, OpenOk DEF Written
  <2> QED BY <2>15, <2>18, Together
<1>3. CASE /\ b \in bulkRetried /\ BulkUnlocked(b) /\ EnqueueBulkJob(b)
           /\ UNCHANGED <<bulkJobs, bulkRows, bulkHolds, bulkBefore, bulkWorker, bulkRetried>>
  <2>1. Sends(b) /\ (bulkMsgs'[b] > 0 \/ bulkFaults' > 0)
    BY <1>1, <1>3, Enqueued
  <2>2. Writes(b, bulkJobs[b], bulkRows[b], bulkHolds[b], bulkBefore[b])
    BY <1>1, <1>3, Unwritten DEF Writes
  <2>3. BulkTypes' /\ Elsewhere(b) /\ Written(b, bulkJobs[b], bulkRows[b], bulkHolds[b], bulkBefore[b])
    BY <1>1, <1>3, <2>1, <2>2, Unwritten, Framed DEF Sends
  <2>4. Served(b)'
    BY <2>1, SentServes
  <2>5. bulkJobs[b].state # "NONE" /\ \A v \in BulkWorkers : bulkWorker'[v] # At(b, "executing")
    BY <1>3, Unheld DEF NotCreated
  <2>6. OkFor(b)'
    BY <1>3, <2>3, <2>4, <2>5, Unheld, OpenOk DEF Written
  <2> QED BY <2>3, <2>6, Together
<1> QED BY <1>2, <1>3 DEF RetryRows

LEMMA StepApprove == ASSUME BulkInv, NEW b \in BulkIds, ApproveRows(b) PROVE BulkInv'
<1>1. BulkTypes
  BY DEF BulkInv
<1>2. PICK i \in DOMAIN bulkRows[b] :
        /\ BulkUnlocked(b) /\ bulkRows[b][i].passed /\ ~bulkRows[b][i].blocked
        /\ bulkRows' = [bulkRows EXCEPT ![b][i].state = "APPROVED", ![b][i].approved = TRUE]
        /\ bulkJobs' = [bulkJobs EXCEPT ![b] = RefreshProgress(@, bulkRows'[b])]
        /\ UNCHANGED <<bulkHolds, bulkBefore, bulkWorker, bulkMsgs, bulkRetried, bulkFaults>>
  BY DEF ApproveRows
<1>3. PICK old : old = bulkRows[b][i]
  OBVIOUS
<1>4. PICK row : row = [old EXCEPT !.state = "APPROVED", !.approved = TRUE]
  OBVIOUS
<1>5. PICK r : r = [bulkRows[b] EXCEPT ![i] = row]
  OBVIOUS
<1>6. bulkRows' = [bulkRows EXCEPT ![b] = r]
  BY <1>2, <1>3, <1>4, <1>5
<1>7. bulkRows'[b] = r
  BY <1>1, <1>6 DEF BulkTypes
<1>8. PICK job : job = bulkJobs[b]
  OBVIOUS
<1>9. PICK j : j = RefreshProgress(job, r)
  OBVIOUS
<1>10. bulkJobs' = [bulkJobs EXCEPT ![b] = j]
  BY <1>2, <1>7, <1>8, <1>9
<1>11. job.state # "NONE"
  <2>1. bulkRows[b] # <<>>
    OBVIOUS
  <2> QED BY <1>2, <1>8, <2>1, Unheld DEF NotCreated
<1>12. RowOk(i, old) /\ old \in BulkRowRecords /\ old.attempt \in Nat /\ old.passed
  BY <1>1, <1>2, <1>3, Unheld, Unwritten, RowTypes DEF JobOk, RowsOk
<1>13. /\ row \in BulkRowRecords /\ row.state = "APPROVED" /\ row.attempt = old.attempt
       /\ row.cost = old.cost /\ row.passed = old.passed
  BY <1>4, <1>12 DEF BulkRowRecords, BulkRowStates
<1>14. RowOk(i, row) /\ row.state # "PROCESSING" /\ Worked(i, row)
  BY <1>12, <1>13 DEF RowOk, OpenRowStates, RETRYABLE_ROW_STATES, Worked
<1>15. /\ r \in BulkTables /\ JobOk(job, r) /\ HoldRule(job, r, bulkHolds[b])
       /\ r # <<>> /\ bulkRows[b] # <<>>
  BY <1>2, <1>3, <1>5, <1>8, <1>11, <1>13, <1>14, RowCommanded
<1>16. job \in JobRecords
  BY <1>1, <1>8, Unwritten
<1>17. /\ j \in JobRecords /\ j.state = job.state /\ j.pause = job.pause /\ j.kill = job.kill
       /\ j.actual = job.actual /\ j.held = job.held /\ ProgressOk(j, r)
  BY <1>9, <1>15, <1>16, Refreshed DEF JobOk, ProgressOk
<1>18. JobOk(j, r)
  BY <1>15, <1>17 DEF JobOk, SumsOk
<1>19. HoldRule(j, r, bulkHolds[b])
  BY <1>15, <1>17 DEF HoldRule
<1>20. Writes(b, j, r, bulkHolds[b], bulkBefore[b])
  BY <1>1, <1>2, <1>6, <1>10, Unwritten DEF Writes
<1>21. Sends(b)
  BY <1>1, <1>2, Redelivered
<1>22. BulkTypes' /\ Elsewhere(b) /\ Written(b, j, r, bulkHolds[b], bulkBefore[b])
  BY <1>1, <1>2, <1>15, <1>17, <1>20, <1>21, Unwritten, Framed DEF Sends
<1>23. Served(b)'
  <2>1. BudgetReached(bulkJobs[b])' <=> BudgetReached(bulkJobs[b])
    BY <1>8, <1>17, <1>22 DEF Written, BudgetReached
  <2>2. BulkUnlocked(b)' <=> BulkUnlocked(b)
    BY <1>2 DEF BulkUnlocked
  <2> QED BY <2>1, <2>2, <1>2, <1>8, <1>15, <1>17, <1>22, Unheld DEF Served, Written
<1>24. \A v \in BulkWorkers : bulkWorker'[v] # At(b, "executing")
  BY <1>2, Unheld
<1>25. OkFor(b)'
  BY <1>2, <1>11, <1>15, <1>17, <1>18, <1>19, <1>22, <1>23, <1>24, Unheld, OpenOk DEF Written
<1> QED BY <1>22, <1>25, Together

-----------------------------------------------------------------------------
(* A delivery up to its execution.                                         *)

LEMMA Apart ==
  ASSUME NEW b \in BulkIds
  PROVE  /\ \A p \in BulkPlaces : At(b, p) # BulkIdle
         /\ At(b, "fetch") # At(b, "executing") /\ At(b, "prepare") # At(b, "executing")
         /\ At(b, "failing") # At(b, "executing") /\ At(b, "fetch") # At(b, "prepare")
         /\ At(b, "failing") # At(b, "prepare") /\ At(b, "failing") # At(b, "fetch")
         /\ BulkIdle # At(b, "executing") /\ BulkIdle # At(b, "prepare") /\ BulkIdle # At(b, "fetch")
         /\ BulkIdle # At(b, "failing")
BY AtFacts, PlaceNames

LEMMA Attended ==
  ASSUME BulkInv, NEW b \in BulkIds, NEW w \in BulkWorkers, NEW p \in BulkPlaces, bulkWorker[w] = At(b, p)
  PROVE  bulkJobs[b].state # "NONE"
BY DEF BulkInv, OkFor, NotCreated

\* Only a worker moves, and no transaction ends or begins.
LEMMA Moved ==
  ASSUME BulkInv, NEW w \in BulkWorkers, NEW b \in BulkIds, NEW x, WorkerGoes(w, b, x),
         bulkWorker[w] # At(b, "executing"), x # At(b, "executing"),
         bulkMsgs' \in [BulkIds -> Nat], bulkFaults' \in Nat, bulkFaults' >= bulkFaults,
         \A c \in BulkIds : c # b => bulkMsgs'[c] = bulkMsgs[c],
         UNCHANGED <<bulkJobs, bulkRows, bulkHolds, bulkBefore, bulkRetried>>,
         bulkJobs[b].state # "NONE", BulkUnlocked(b) => Served(b)'
  PROVE  BulkInv'
<1>1. BulkTypes
  BY DEF BulkInv
<1>2. Writes(b, bulkJobs[b], bulkRows[b], bulkHolds[b], bulkBefore[b])
  BY <1>1, Unwritten DEF Writes
<1>3. BulkTypes' /\ Elsewhere(b) /\ Written(b, bulkJobs[b], bulkRows[b], bulkHolds[b], bulkBefore[b])
  BY <1>1, <1>2, Unwritten, Framed
<1>4. \A v \in BulkWorkers : bulkWorker'[v] = At(b, "executing") <=> bulkWorker[v] = At(b, "executing")
  BY DEF WorkerGoes
<1>5. CASE BulkUnlocked(b)
  <2>1. \A v \in BulkWorkers : bulkWorker'[v] # At(b, "executing")
    BY <1>4, <1>5, Unheld
  <2>2. OkFor(b)'
    BY <1>3, <1>5, <2>1, Unheld, OpenOk DEF Written
  <2> QED BY <1>3, <2>2, Together
<1>6. CASE ~BulkUnlocked(b)
  <2>1. PICK u \in BulkWorkers : \A v \in BulkWorkers : bulkWorker[v] = At(b, "executing") <=> v = u
    BY <1>6, Held
  <2>2. \A v \in BulkWorkers : bulkWorker'[v] = At(b, "executing") <=> v = u
    BY <1>4, <2>1
  <2>3. /\ bulkBefore'[b] # BulkCommitted /\ JobOk(bulkJobs'[b], bulkRows'[b])
        /\ RunOk(bulkJobs'[b], bulkRows'[b], bulkBefore'[b])
        /\ HoldRule(bulkBefore'[b].job, bulkBefore'[b].rows, bulkHolds'[b])
    BY <1>6, Held, Snapshot
  <2>4. OkFor(b)'
    BY <2>2, <2>3, HeldOk
  <2> QED BY <1>3, <2>4, Together
<1> QED BY <1>5, <1>6

LEMMA StepBegins ==
  ASSUME BulkInv, NEW w \in BulkWorkers, NEW b \in BulkIds, RunBegins(w, b) PROVE BulkInv'
<1>1. BulkTypes
  BY DEF BulkInv
<1>2. PICK job : job = CommittedJob(b)
  OBVIOUS
<1>3. PICK asks \in BOOLEAN : asks <=> /\ job.state \in {"QUEUED", "VALIDATING", "WAITING_INPUT"}
                                     /\ ~job.pause /\ ~job.kill /\ ~BudgetReached(job)
  OBVIOUS
<1>4. PICK x : x = At(b, IF asks THEN "fetch" ELSE "prepare")
  OBVIOUS
<1>5. (asks => x = At(b, "fetch")) /\ (~asks => x = At(b, "prepare"))
  BY <1>4
<1>6. /\ bulkWorker[w] = BulkIdle /\ bulkMsgs[b] > 0 /\ bulkMsgs' = [bulkMsgs EXCEPT ![b] = @ - 1]
      /\ UNCHANGED <<bulkJobs, bulkRows, bulkHolds, bulkBefore, bulkRetried, bulkFaults>>
  BY DEF RunBegins
<1>7. bulkWorker' = [bulkWorker EXCEPT ![w] = x]
  BY <1>2, <1>3, <1>4 DEF RunBegins
<1>8. x # At(b, "executing") /\ \E p \in BulkPlaces : x = At(b, p)
  BY <1>5, Apart, PlaceNames
<1>9. WorkerGoes(w, b, x)
  BY <1>1, <1>6, <1>7, <1>8, Goes
<1>10. /\ bulkMsgs' \in [BulkIds -> Nat] /\ bulkFaults' \in Nat /\ bulkFaults' >= bulkFaults
       /\ \A c \in BulkIds : c # b => bulkMsgs'[c] = bulkMsgs[c]
  BY <1>1, <1>6 DEF BulkTypes
<1>11. bulkJobs[b].state # "NONE"
  BY <1>6 DEF BulkInv, OkFor, NotCreated
<1>12. ASSUME BulkUnlocked(b) PROVE Served(b)'
  <2>1. job = bulkJobs[b] /\ (job.kill => job.pause)
    BY <1>2, <1>12, Unheld DEF CommittedJob, JobOk
  <2>2. bulkWorker'[w] = x /\ bulkJobs'[b] = job
    BY <1>6, <1>9, <2>1 DEF WorkerGoes
  <2>3. job.state = "CANCEL_REQUESTED" => x = At(b, "prepare")
    BY <1>3, <1>5
  <2>4. job.state \in WaitingStates /\ ~job.pause =>
          x = At(b, "fetch") \/ (x = At(b, "prepare") /\ BudgetReached(job))
    BY <1>3, <1>5, <2>1 DEF WaitingStates
  <2> QED BY <2>2, <2>3, <2>4 DEF Served
<1> QED BY <1>6, <1>8, <1>9, <1>10, <1>11, <1>12, Apart, Moved

LEMMA StepRaises ==
  ASSUME BulkInv, NEW w \in BulkWorkers, NEW b \in BulkIds, MaterializeRaises(w, b) PROVE BulkInv'
<1>1. BulkTypes
  BY DEF BulkInv
<1>2. /\ bulkWorker[w] = At(b, "fetch") /\ bulkWorker' = [bulkWorker EXCEPT ![w] = At(b, "failing")]
      /\ UNCHANGED <<bulkJobs, bulkRows, bulkHolds, bulkBefore, bulkMsgs, bulkRetried, bulkFaults>>
  BY DEF MaterializeRaises
<1>3. WorkerGoes(w, b, At(b, "failing"))
  BY <1>1, <1>2, Goes, PlaceNames
<1>4. bulkJobs[b].state # "NONE"
  BY <1>2, Attended, PlaceNames
<1>5. Sends(b)
  BY <1>1, <1>2, Redelivered
<1>6. ASSUME BulkUnlocked(b) PROVE Served(b)'
  <2>1. Served(b)
    BY <1>6, Unheld
  <2>2. \A v \in BulkWorkers : bulkWorker[v] = At(b, "prepare") => bulkWorker'[v] = At(b, "prepare")
    BY <1>2, <1>3, Apart DEF WorkerGoes
  <2>3. bulkWorker'[w] = At(b, "failing")
    BY <1>3 DEF WorkerGoes
  <2> QED BY <1>2, <2>1, <2>2, <2>3 DEF Served
<1> QED BY <1>2, <1>3, <1>4, <1>5, <1>6, Apart, Moved DEF Sends

LEMMA NoRows == RowCosts(<<>>) = 0 /\ Rests(<<>>) /\ <<>> \in BulkTables
<1>1. DOMAIN <<>> = {}
  OBVIOUS
<1>2. RowCosts(<<>>) = 0
  <2>1. PICK f : f = [i \in DOMAIN <<>> |-> <<>>[i].cost]
    OBVIOUS
  <2>2. DOMAIN f = {}
    BY <1>1, <2>1
  <2>3. RowCosts(<<>>) = SumFunctionOnSet(f, {})
    BY <2>1, <2>2 DEF RowCosts, SumFunction
  <2> QED BY <2>3, SumEmpty
<1> QED BY <1>1, <1>2 DEF Rests, BulkTables

LEMMA StepMaterialize ==
  ASSUME BulkInv, NEW w \in BulkWorkers, NEW b \in BulkIds, MaterializeRows(w, b) PROVE BulkInv'
<1>1. BulkTypes
  BY DEF BulkInv
<1>2. PICK job : job = bulkJobs[b]
  OBVIOUS
<1>3. PICK rows : rows = bulkRows[b]
  OBVIOUS
<1>4. PICK skips \in BOOLEAN :
        skips <=> job.state \in TERMINAL_JOB_STATES \cup {"CANCEL_REQUESTED"} \/ job.pause \/ job.kill
  OBVIOUS
<1>5. PICK refused \in BOOLEAN : refused <=> job.state \notin {"QUEUED", "VALIDATING", "WAITING_INPUT"}
  OBVIOUS
<1>6. /\ bulkWorker[w] = At(b, "fetch") /\ BulkUnlocked(b)
      /\ UNCHANGED <<bulkHolds, bulkBefore, bulkMsgs, bulkRetried, bulkFaults>>
  BY DEF MaterializeRows
<1>7. /\ job.state # "NONE" /\ JobOk(job, rows) /\ HoldRule(job, rows, bulkHolds[b])
      /\ bulkBefore[b] = BulkCommitted /\ job \in JobRecords /\ rows \in BulkTables
  BY <1>1, <1>2, <1>3, <1>6, Attended, Unheld, Unwritten, PlaceNames
<1>8. Sends(b)
  BY <1>1, <1>6, Redelivered
<1>9. CASE /\ skips /\ bulkWorker' = [bulkWorker EXCEPT ![w] = At(b, "prepare")]
           /\ UNCHANGED <<bulkJobs, bulkRows>>
  <2>1. WorkerGoes(w, b, At(b, "prepare"))
    BY <1>1, <1>6, <1>9, Goes, PlaceNames
  <2>2. bulkWorker'[w] = At(b, "prepare") /\ bulkJobs'[b] = job
    BY <1>2, <1>9, <2>1 DEF WorkerGoes
  <2>3. ~(job.state \in WaitingStates /\ ~job.pause)
    BY <1>4, <1>7, <1>9 DEF JobOk, WaitingStates, TERMINAL_JOB_STATES
  <2>4. Served(b)'
    BY <2>2, <2>3 DEF Served
  <2> QED BY <1>2, <1>6, <1>7, <1>8, <1>9, <2>1, <2>4, Apart, Moved DEF Sends
<1>10. CASE /\ ~skips /\ refused /\ bulkWorker' = [bulkWorker EXCEPT ![w] = At(b, "failing")]
            /\ UNCHANGED <<bulkJobs, bulkRows>>
  <2>1. WorkerGoes(w, b, At(b, "failing"))
    BY <1>1, <1>6, <1>10, Goes, PlaceNames
  <2>2. bulkWorker'[w] = At(b, "failing") /\ bulkJobs'[b] = job
    BY <1>2, <1>10, <2>1 DEF WorkerGoes
  <2>3. job.state # "CANCEL_REQUESTED"
    BY <1>4, <1>10
  <2>4. Served(b)'
    BY <2>2, <2>3 DEF Served
  <2> QED BY <1>2, <1>6, <1>7, <1>8, <1>10, <2>1, <2>4, Apart, Moved DEF Sends
<1>11. CASE /\ ~skips /\ ~refused
            /\ bulkRows' = [bulkRows EXCEPT ![b] =
                 IF @ = <<>> THEN [i \in 1..BulkTarget |-> MaterializedRow(i)] ELSE @]
            /\ bulkJobs' = [bulkJobs EXCEPT ![b] = RefreshProgress(@, bulkRows'[b])]
            /\ bulkWorker' = [bulkWorker EXCEPT ![w] = At(b, "prepare")]
  <2>1. PICK new : new = [i \in 1..BulkTarget |-> MaterializedRow(i)]
    OBVIOUS
  <2>2. PICK r : r = IF rows = <<>> THEN new ELSE rows
    OBVIOUS
  <2>3. PICK j : j = RefreshProgress(job, r)
    OBVIOUS
  <2>4. bulkRows' = [bulkRows EXCEPT ![b] = r] /\ bulkRows'[b] = r
    BY <1>1, <1>3, <1>11, <2>1, <2>2 DEF BulkTypes
  <2>5. bulkJobs' = [bulkJobs EXCEPT ![b] = j]
    BY <1>2, <1>11, <2>3, <2>4
  <2>6. job.state \in WaitingStates
    BY <1>5, <1>11 DEF WaitingStates
  <2>7. /\ r \in BulkTables /\ r # <<>> /\ RowsOk(r) /\ Ran(r)
        /\ RowCosts(r) = RowCosts(rows) /\ Reserved(r) = Reserved(rows)
    <3>1. CASE rows = <<>>
      <4>1. /\ new \in BulkTables /\ new # <<>> /\ RowsOk(new) /\ Rests(new) /\ Ran(new)
            /\ RowCosts(new) = 0 /\ Reserved(new) = 0
        BY <2>1, Materialized
      <4>2. RowCosts(rows) = 0 /\ Reserved(rows) = 0
        BY <3>1, NoRows, NothingReserved
      <4> QED BY <3>1, <4>1, <4>2, <2>2
    <3>2. CASE rows # <<>>
      <4>1. Ran(rows)
        BY <1>7, <2>6 DEF JobOk, ProgressOk, WaitingStates
      <4> QED BY <3>2, <4>1, <1>7, <2>2 DEF JobOk
    <3> QED BY <3>1, <3>2
  <2>8. /\ j \in JobRecords /\ j.state = job.state /\ j.pause = job.pause /\ j.kill = job.kill
        /\ j.actual = job.actual /\ j.held = job.held /\ ProgressOk(j, r)
    BY <1>7, <2>3, <2>7, Refreshed
  <2>9. JobOk(j, r)
    BY <1>7, <2>7, <2>8 DEF JobOk, SumsOk
  <2>10. HoldRule(j, r, bulkHolds[b])
    <3>1. job.state \notin TERMINAL_JOB_STATES \cup {"NONE"}
      BY <2>6 DEF WaitingStates, TERMINAL_JOB_STATES
    <3> QED BY <3>1, <1>7, <2>8, HeldHoldIsOpen
  <2>11. WorkerGoes(w, b, At(b, "prepare"))
    BY <1>1, <1>6, <1>11, Goes, PlaceNames
  <2>12. Writes(b, j, r, bulkHolds[b], bulkBefore[b])
    BY <1>1, <1>6, <2>4, <2>5, Unwritten DEF Writes
  <2>13. BulkTypes' /\ Elsewhere(b) /\ Written(b, j, r, bulkHolds[b], bulkBefore[b])
    BY <1>1, <1>6, <1>8, <2>7, <2>8, <2>11, <2>12, Unwritten, Framed DEF Sends
  <2>14. Served(b)'
    <3>1. bulkWorker'[w] = At(b, "prepare") /\ bulkRows'[b] # <<>>
      BY <2>4, <2>7, <2>11 DEF WorkerGoes
    <3> QED BY <3>1 DEF Served
  <2>15. \A v \in BulkWorkers : bulkWorker'[v] # At(b, "executing")
    BY <1>6, <2>11, Apart, Unheld DEF WorkerGoes
  <2>16. OkFor(b)'
    BY <1>7, <2>7, <2>8, <2>9, <2>10, <2>13, <2>14, <2>15, OpenOk DEF Written
  <2> QED BY <2>13, <2>16, Together
<1> QED BY <1>2, <1>4, <1>5, <1>9, <1>10, <1>11 DEF MaterializeRows

\* A delivery ends, and no run holds the job any more.
LEMMA Ended ==
  ASSUME BulkInv, NEW w \in BulkWorkers, NEW b \in BulkIds, NEW p \in BulkPlaces,
         bulkWorker[w] = At(b, p), BulkDone(w, b),
         \A v \in BulkWorkers : v # w => bulkWorker[v] # At(b, "executing"),
         NEW j \in JobRecords, NEW r \in BulkTables, NEW h \in HoldRecords,
         Writes(b, j, r, h, BulkCommitted), bulkRetried' = bulkRetried,
         JobOk(j, r), HoldRule(j, r, h), j.state # "NONE", Served(b)'
  PROVE  BulkInv'
<1>1. BulkTypes
  BY DEF BulkInv
<1>2. Sends(b) /\ WorkerGoes(w, b, BulkIdle)
  BY <1>1, Done
<1>3. BulkTypes' /\ Elsewhere(b) /\ Written(b, j, r, h, BulkCommitted)
  BY <1>1, <1>2, Framed DEF Sends
<1>4. \A v \in BulkWorkers : bulkWorker'[v] # At(b, "executing")
  BY <1>2, Apart DEF WorkerGoes
<1>5. OkFor(b)'
  BY <1>3, <1>4, OpenOk DEF Written
<1> QED BY <1>3, <1>5, Together

LEMMA SameInterval ==
  ASSUME NEW m \in Nat, NEW n \in Nat, n >= 1, 1..m = 1..n PROVE m = n
<1>1. n \in 1..n /\ n + 1 \notin 1..n
  OBVIOUS
<1>2. n \in 1..m /\ n + 1 \notin 1..m
  BY <1>1
<1> QED BY <1>2

LEMMA TableLength ==
  ASSUME NEW rows \in BulkTables
  PROVE  Len(rows) = BulkTarget <=> rows # <<>>
<1>1. BulkTarget \in Nat /\ BulkTarget >= 1
  BY Limits
<1>2. CASE rows = <<>>
  BY <1>1, <1>2
<1>3. CASE rows # <<>>
  <2>1. rows \in [1..BulkTarget -> BulkRowRecords]
    BY <1>3 DEF BulkTables
  <2>2. rows \in Seq(BulkRowRecords)
    BY <1>1, <2>1, SeqDef
  <2>3. Len(rows) \in Nat /\ DOMAIN rows = 1..Len(rows)
    BY <2>2, LenProperties
  <2>4. 1..Len(rows) = 1..BulkTarget
    BY <2>1, <2>3
  <2>5. Len(rows) = BulkTarget
    BY <1>1, <2>3, <2>4, SameInterval
  <2> QED BY <1>3, <2>5
<1> QED BY <1>2, <1>3

LEMMA StepNotReady ==
  ASSUME BulkInv, NEW w \in BulkWorkers, NEW b \in BulkIds, PrepareNotReady(w, b) PROVE BulkInv'
<1>1. BulkTypes
  BY DEF BulkInv
<1>2. PICK job : job = bulkJobs[b]
  OBVIOUS
<1>3. PICK rows : rows = bulkRows[b]
  OBVIOUS
<1>4. /\ bulkWorker[w] = At(b, "prepare") /\ BulkUnlocked(b) /\ ~BulkReady(b) /\ BulkDone(w, b)
      /\ bulkBefore' = bulkBefore /\ bulkRetried' = bulkRetried
  BY DEF PrepareNotReady
<1>5. /\ job.state # "NONE" /\ JobOk(job, rows) /\ HoldRule(job, rows, bulkHolds[b])
      /\ bulkBefore[b] = BulkCommitted /\ job \in JobRecords /\ rows \in BulkTables
      /\ bulkHolds[b] \in HoldRecords /\ (job.kill => job.pause)
  BY <1>1, <1>2, <1>3, <1>4, Attended, Unheld, Unwritten, PlaceNames DEF JobOk
<1>6. /\ \A v \in BulkWorkers : bulkWorker[v] # At(b, "executing")
      /\ job.state \notin TERMINAL_JOB_STATES => bulkHolds[b].state = "HELD"
  BY <1>2, <1>4, <1>5, Unheld DEF HoldRule
<1>7. Sends(b) /\ WorkerGoes(w, b, BulkIdle)
  BY <1>1, <1>4, Done, PlaceNames
<1>8. PICK j : j = PreparedJob(b)
  OBVIOUS
<1>9. PICK r : r = IF job.state = "CANCEL_REQUESTED" THEN RowsTo(rows, {"READY", "QUEUED"}, "CANCELLED") ELSE rows
  OBVIOUS
<1>10. PICK h : h = SettledBulkHold(b, j)
  OBVIOUS
<1>11. bulkJobs' = [bulkJobs EXCEPT ![b] = j] /\ bulkJobs'[b] = j
  BY <1>1, <1>8 DEF PrepareNotReady, BulkTypes
<1>12. bulkHolds' = [bulkHolds EXCEPT ![b] = h]
  BY <1>10, <1>11 DEF PrepareNotReady
<1>13. bulkRows' = [bulkRows EXCEPT ![b] = r]
  <2>1. CASE job.state = "CANCEL_REQUESTED"
    BY <1>2, <1>3, <1>9, <2>1 DEF PrepareNotReady
  <2>2. CASE job.state # "CANCEL_REQUESTED"
    <3>1. bulkRows' = bulkRows /\ r = bulkRows[b]
      BY <1>2, <1>3, <1>9, <2>2 DEF PrepareNotReady
    <3> QED BY <3>1, <1>1, Unwritten
  <2> QED BY <2>1, <2>2
<1>14. Writes(b, j, r, h, BulkCommitted)
  BY <1>1, <1>4, <1>5, <1>11, <1>12, <1>13, Unwritten DEF Writes
<1>15. ASSUME j.state \notin WaitingStates \/ j.pause, j.state # "CANCEL_REQUESTED" PROVE Served(b)'
  BY <1>11, <1>15 DEF Served
<1>16. CASE job.state \in TERMINAL_JOB_STATES
  <2>1. j = job /\ r = rows
    BY <1>2, <1>8, <1>9, <1>16 DEF PreparedJob, TERMINAL_JOB_STATES
  <2>2. h \in HoldRecords /\ HoldRule(j, r, h)
    BY <1>5, <1>10, <2>1, SettledAgain
  <2>3. Served(b)'
    BY <1>15, <1>16, <2>1 DEF TERMINAL_JOB_STATES, WaitingStates
  <2> QED BY <1>4, <1>5, <1>6, <1>14, <2>1, <2>2, <2>3, Ended, PlaceNames
<1>17. CASE job.state = "CANCEL_REQUESTED"
  <2>1. PICK k : k = [job EXCEPT !.state = "CANCELLED"]
    OBVIOUS
  <2>2. r = RowsTo(rows, {"READY", "QUEUED"}, "CANCELLED") /\ j = RefreshProgress(k, rows)
    BY <1>2, <1>3, <1>8, <1>9, <1>17, <2>1 DEF PreparedJob, TERMINAL_JOB_STATES
  <2>3. /\ k \in JobRecords /\ k.state = "CANCELLED" /\ k.pause = job.pause /\ k.kill = job.kill
        /\ k.actual = job.actual /\ k.held = job.held
    BY <1>5, <2>1 DEF JobRecords, BulkStates
  <2>4. {"READY", "QUEUED"} \subseteq OpenRowStates /\ RowsOk(rows)
    BY <1>5 DEF OpenRowStates, JobOk
  <2>5. /\ r \in BulkTables /\ RowsOk(r) /\ RowCosts(r) = RowCosts(rows)
        /\ Reserved(r) <= Reserved(rows)
    BY <1>5, <2>2, <2>4, RowsMoved
  <2>6. /\ j \in JobRecords /\ j.state = k.state /\ j.pause = k.pause /\ j.kill = k.kill
        /\ j.actual = k.actual /\ j.held = k.held /\ ProgressOk(j, rows)
    BY <1>5, <2>2, <2>3, Refreshed
  <2>7. ProgressOk(j, r)
    BY <2>3, <2>6 DEF ProgressOk
  <2>8. JobOk(j, r)
    <3>1. Reserved(rows) \in Nat /\ Reserved(r) \in Nat /\ job.held \in Nat
      BY <1>5, <2>5, SumTypes, JobTypes
    <3> QED BY <1>5, <2>3, <2>5, <2>6, <2>7, <3>1 DEF JobOk, SumsOk
  <2>9. h \in HoldRecords /\ HoldRule(j, r, h)
    <3>1. bulkHolds[b].state = "HELD"
      BY <1>6, <1>17 DEF TERMINAL_JOB_STATES
    <3> QED BY <3>1, <1>5, <1>10, <2>3, <2>5, <2>6, <2>8, Settled
  <2>10. Served(b)'
    BY <1>15, <2>3, <2>6 DEF WaitingStates
  <2> QED BY <1>4, <1>6, <1>14, <2>3, <2>5, <2>6, <2>8, <2>9, <2>10, Ended, PlaceNames
<1>18. CASE job.state \notin TERMINAL_JOB_STATES \cup {"CANCEL_REQUESTED"}
  <2>1. r = rows
    BY <1>9, <1>18
  <2>2. /\ j \in JobRecords /\ j.actual = job.actual /\ j.held = job.held /\ j.processed = job.processed
        /\ j.kill => j.pause
        /\ j.state = job.state \/ (job.state \in {"QUEUED", "VALIDATING"} /\ j.state = "WAITING_INPUT")
        /\ ~j.pause => ~job.pause /\ ~job.kill /\ ~BudgetReached(job)
    <3>1. CASE BudgetReached(job)
      <4>1. j = [job EXCEPT !.kill = TRUE, !.pause = TRUE]
        BY <1>2, <1>8, <1>18, <3>1 DEF PreparedJob
      <4> QED BY <4>1, <1>5 DEF JobRecords
    <3>2. CASE ~BudgetReached(job) /\ (job.kill \/ job.pause \/ job.state \notin {"QUEUED", "VALIDATING"})
      <4>1. j = job
        BY <1>2, <1>8, <1>18, <3>2 DEF PreparedJob
      <4> QED BY <4>1, <3>2, <1>5 DEF JobRecords
    <3>3. CASE ~BudgetReached(job) /\ ~(job.kill \/ job.pause \/ job.state \notin {"QUEUED", "VALIDATING"})
      <4>1. j = [job EXCEPT !.state = "WAITING_INPUT"]
        BY <1>2, <1>8, <1>18, <3>3 DEF PreparedJob
      <4> QED BY <4>1, <3>3, <1>5 DEF JobRecords, BulkStates
    <3> QED BY <3>1, <3>2, <3>3
  <2>3. j.state \notin TERMINAL_JOB_STATES \cup {"CANCEL_REQUESTED", "NONE"}
    BY <1>5, <1>18, <2>2 DEF TERMINAL_JOB_STATES
  <2>4. JobOk(j, r)
    BY <1>5, <1>18, <2>1, <2>2, StateMoved DEF TERMINAL_JOB_STATES
  <2>5. h \in HoldRecords /\ HoldRule(j, r, h)
    <3>1. bulkHolds[b].state = "HELD" /\ j.state # "SUCCEEDED"
      BY <1>6, <1>18, <2>3 DEF TERMINAL_JOB_STATES
    <3> QED BY <3>1, <1>5, <1>10, <2>1, <2>2, <2>3, <2>4, Settled
  <2>6. Served(b)'
    <3>1. SUFFICES ASSUME j.state \in WaitingStates, ~j.pause PROVE Served(b)'
      BY <1>15, <2>3
    <3>2. job.state \in WaitingStates /\ ~job.pause /\ ~job.kill /\ ~BudgetReached(job)
      BY <3>1, <2>2 DEF WaitingStates
    <3>3. rows = <<>>
      BY <1>2, <1>3, <1>4, <1>5, <1>18, <3>2, TableLength DEF BulkReady
    <3>4. \/ bulkMsgs[b] > 0 \/ bulkFaults > 0
          \/ \E v \in BulkWorkers : bulkWorker[v] = At(b, "fetch") \/ bulkWorker[v] = At(b, "failing")
      BY <1>2, <1>3, <1>4, <3>2, <3>3, Unheld DEF Served
    <3>5. CASE bulkMsgs[b] > 0 \/ bulkFaults > 0
      <4>1. bulkMsgs[b] \in Nat /\ bulkMsgs'[b] \in Nat /\ bulkFaults \in Nat /\ bulkFaults' \in Nat
        BY <1>1, <1>7 DEF BulkTypes, Sends
      <4>2. bulkMsgs'[b] > 0 \/ bulkFaults' > 0
        BY <3>5, <4>1, <1>7 DEF Sends
      <4> QED BY <4>2, SentServes
    <3>6. CASE \E v \in BulkWorkers : bulkWorker[v] = At(b, "fetch") \/ bulkWorker[v] = At(b, "failing")
      <4>1. PICK v \in BulkWorkers : bulkWorker[v] = At(b, "fetch") \/ bulkWorker[v] = At(b, "failing")
        BY <3>6
      <4>2. bulkWorker'[v] = bulkWorker[v]
        BY <1>4, <1>7, <4>1, Apart DEF WorkerGoes
      <4>3. bulkJobs'[b].state # "CANCEL_REQUESTED"
        BY <1>11, <2>3
      <4> QED BY <4>1, <4>2, <4>3 DEF Served
    <3> QED BY <3>4, <3>5, <3>6
  <2> QED BY <1>4, <1>5, <1>6, <1>14, <2>1, <2>2, <2>3, <2>4, <2>5, <2>6, Ended, PlaceNames
<1> QED BY <1>16, <1>17, <1>18

LEMMA ReadyFacts ==
  ASSUME BulkInv, NEW b \in BulkIds, BulkUnlocked(b), BulkReady(b), bulkJobs[b].state # "NONE",
         NEW k, k = [bulkJobs[b] EXCEPT !.state = PreparedState(@)]
  PROVE  /\ Runnable(bulkJobs[b]) /\ Runnable(k) /\ k \in JobRecords /\ k.pause = FALSE /\ k.kill = FALSE
         /\ k.state \notin {"QUEUED", "WAITING_INPUT"} /\ JobOk(k, bulkRows[b]) /\ bulkRows[b] # <<>>
         /\ bulkHolds[b].state = "HELD"
<1>1. PICK job : job = bulkJobs[b]
  OBVIOUS
<1>2. /\ job \in JobRecords /\ bulkRows[b] \in BulkTables /\ JobOk(job, bulkRows[b])
      /\ HoldRule(job, bulkRows[b], bulkHolds[b])
  BY <1>1, Unheld, Unwritten DEF BulkInv
<1>3. /\ job.state \notin TERMINAL_JOB_STATES \cup {"CANCEL_REQUESTED"} /\ ~job.pause /\ ~job.kill
      /\ Len(bulkRows[b]) = BulkTarget
  BY <1>1 DEF BulkReady
<1>4. Runnable(job) /\ bulkHolds[b].state = "HELD" /\ bulkRows[b] # <<>>
  BY <1>1, <1>2, <1>3, TableLength DEF Runnable, HoldRule
<1>5. /\ k.state = PreparedState(job.state) /\ k \in JobRecords /\ k.pause = FALSE /\ k.kill = FALSE
      /\ k.actual = job.actual /\ k.held = job.held /\ k.processed = job.processed
  BY <1>1, <1>2, <1>3 DEF JobRecords, BulkStates, PreparedState
<1>6. Runnable(k) /\ k.state \notin {"QUEUED", "WAITING_INPUT"}
  BY <1>4, <1>5 DEF Runnable, PreparedState, TERMINAL_JOB_STATES
<1>7. JobOk(k, bulkRows[b])
  BY <1>2, <1>3, <1>5, StateMoved DEF TERMINAL_JOB_STATES
<1> QED BY <1>1, <1>4, <1>5, <1>6, <1>7

LEMMA StepUnavailable ==
  ASSUME BulkInv, NEW w \in BulkWorkers, NEW b \in BulkIds, PrepareUnavailable(w, b) PROVE BulkInv'
<1>1. BulkTypes
  BY DEF BulkInv
<1>2. PICK rows : rows = bulkRows[b]
  OBVIOUS
<1>3. PICK k : k = [bulkJobs[b] EXCEPT !.state = PreparedState(@)]
  OBVIOUS
<1>4. /\ bulkWorker[w] = At(b, "prepare") /\ BulkUnlocked(b) /\ BulkReady(b) /\ BulkDone(w, b)
      /\ bulkBefore' = bulkBefore /\ bulkRetried' = bulkRetried
  BY DEF PrepareUnavailable
<1>5. bulkJobs[b].state # "NONE"
  BY <1>4, Attended, PlaceNames
<1>6. /\ Runnable(k) /\ k \in JobRecords /\ JobOk(k, rows) /\ bulkHolds[b].state = "HELD"
  BY <1>2, <1>3, <1>4, <1>5, ReadyFacts
<1>7. /\ bulkBefore[b] = BulkCommitted /\ rows \in BulkTables /\ bulkHolds[b] \in HoldRecords
      /\ \A v \in BulkWorkers : bulkWorker[v] # At(b, "executing")
  BY <1>1, <1>2, <1>4, Unheld, Unwritten
<1>8. PICK j : j = FailedJob(k, rows)
  OBVIOUS
<1>9. PICK r : r = FailedRows(k, rows)
  OBVIOUS
<1>10. PICK h : h = SettledBulkHold(b, j)
  OBVIOUS
<1>11. bulkJobs' = [bulkJobs EXCEPT ![b] = j] /\ bulkJobs'[b] = j
  BY <1>1, <1>2, <1>3, <1>8 DEF PrepareUnavailable, BulkTypes
<1>12. bulkRows' = [bulkRows EXCEPT ![b] = r]
  BY <1>2, <1>3, <1>9 DEF PrepareUnavailable
<1>13. bulkHolds' = [bulkHolds EXCEPT ![b] = h]
  BY <1>10, <1>11 DEF PrepareUnavailable
<1>14. Writes(b, j, r, h, BulkCommitted)
  BY <1>1, <1>4, <1>7, <1>11, <1>12, <1>13, Unwritten DEF Writes
<1>15. /\ j \in JobRecords /\ r \in BulkTables /\ JobOk(j, r)
       /\ FailsFrom(k.state) => j.state = "FINAL_FAILED"
       /\ ~FailsFrom(k.state) => j = k /\ r = rows
  BY <1>6, <1>7, <1>8, <1>9, Failed
<1>16. j.state \notin WaitingStates \cup {"CANCEL_REQUESTED", "NONE", "SUCCEEDED"}
  BY <1>6, <1>15 DEF FailsFrom, WaitingStates, Runnable, TERMINAL_JOB_STATES
<1>17. h \in HoldRecords /\ HoldRule(j, r, h)
  BY <1>6, <1>7, <1>10, <1>15, <1>16, Settled
<1>18. Served(b)'
  BY <1>11, <1>16 DEF Served
<1> QED BY <1>4, <1>7, <1>14, <1>15, <1>16, <1>17, <1>18, Ended, PlaceNames

LEMMA StepPersists ==
  ASSUME BulkInv, NEW w \in BulkWorkers, NEW b \in BulkIds, PersistBulkFailure(w, b) PROVE BulkInv'
<1>1. BulkTypes
  BY DEF BulkInv
<1>2. PICK rows : rows = bulkRows[b]
  OBVIOUS
<1>3. PICK job : job = bulkJobs[b]
  OBVIOUS
<1>4. /\ bulkWorker[w] = At(b, "failing") /\ BulkUnlocked(b) /\ BulkDone(w, b)
      /\ bulkBefore' = bulkBefore /\ bulkRetried' = bulkRetried
  BY DEF PersistBulkFailure
<1>5. /\ job.state # "NONE" /\ JobOk(job, rows) /\ HoldRule(job, rows, bulkHolds[b])
      /\ bulkBefore[b] = BulkCommitted /\ job \in JobRecords /\ rows \in BulkTables
      /\ bulkHolds[b] \in HoldRecords /\ \A v \in BulkWorkers : bulkWorker[v] # At(b, "executing")
  BY <1>1, <1>2, <1>3, <1>4, Attended, Unheld, Unwritten, PlaceNames
<1>6. PICK j : j = FailedJob(job, rows)
  OBVIOUS
<1>7. PICK r : r = FailedRows(job, rows)
  OBVIOUS
<1>8. PICK h : h = SettledBulkHold(b, j)
  OBVIOUS
<1>9. bulkJobs' = [bulkJobs EXCEPT ![b] = j] /\ bulkJobs'[b] = j
  BY <1>1, <1>2, <1>3, <1>6 DEF PersistBulkFailure, BulkTypes
<1>10. bulkRows' = [bulkRows EXCEPT ![b] = r]
  BY <1>2, <1>3, <1>7 DEF PersistBulkFailure
<1>11. bulkHolds' = [bulkHolds EXCEPT ![b] = h]
  BY <1>8, <1>9 DEF PersistBulkFailure
<1>12. Writes(b, j, r, h, BulkCommitted)
  BY <1>1, <1>4, <1>5, <1>9, <1>10, <1>11, Unwritten DEF Writes
<1>13. /\ j \in JobRecords /\ r \in BulkTables /\ JobOk(j, r)
       /\ FailsFrom(job.state) => j.state = "FINAL_FAILED"
       /\ ~FailsFrom(job.state) => j = job /\ r = rows
  BY <1>5, <1>6, <1>7, Failed
<1>14. Sends(b) /\ WorkerGoes(w, b, BulkIdle)
  BY <1>1, <1>4, Done, PlaceNames
<1>15. CASE FailsFrom(job.state)
  <2>1. j.state = "FINAL_FAILED"
    BY <1>13, <1>15
  <2>2. bulkHolds[b].state = "HELD"
    BY <1>5, <1>15 DEF FailsFrom, HoldRule, TERMINAL_JOB_STATES
  <2>3. h \in HoldRecords /\ HoldRule(j, r, h)
    BY <1>5, <1>8, <1>13, <2>1, <2>2, Settled
  <2>4. Served(b)'
    BY <1>9, <2>1 DEF Served, WaitingStates
  <2> QED BY <1>4, <1>5, <1>12, <1>13, <2>1, <2>3, <2>4, Ended, PlaceNames
<1>16. CASE ~FailsFrom(job.state)
  <2>1. j = job /\ r = rows
    BY <1>13, <1>16
  <2>2. h \in HoldRecords /\ HoldRule(j, r, h)
    BY <1>5, <1>8, <2>1, SettledAgain
  <2>3. Served(b)'
    <3>1. bulkJobs'[b].state \notin WaitingStates
      BY <1>9, <1>16, <2>1 DEF FailsFrom, WaitingStates
    <3>2. SUFFICES ASSUME job.state = "CANCEL_REQUESTED" PROVE Served(b)'
      BY <3>1, <1>9, <2>1 DEF Served
    <3>3. \/ bulkMsgs[b] > 0 \/ bulkFaults > 0
          \/ \E v \in BulkWorkers : bulkWorker[v] = At(b, "prepare")
      BY <1>3, <1>4, <3>2, Unheld DEF Served
    <3>4. CASE bulkMsgs[b] > 0 \/ bulkFaults > 0
      <4>1. bulkMsgs[b] \in Nat /\ bulkMsgs'[b] \in Nat /\ bulkFaults \in Nat /\ bulkFaults' \in Nat
        BY <1>1, <1>14 DEF BulkTypes, Sends
      <4>2. bulkMsgs'[b] > 0 \/ bulkFaults' > 0
        BY <3>4, <4>1, <1>14 DEF Sends
      <4> QED BY <4>2, SentServes
    <3>5. CASE \E v \in BulkWorkers : bulkWorker[v] = At(b, "prepare")
      <4>1. PICK v \in BulkWorkers : bulkWorker[v] = At(b, "prepare")
        BY <3>5
      <4>2. bulkWorker'[v] = At(b, "prepare")
        BY <1>4, <1>14, <4>1, Apart DEF WorkerGoes
      <4> QED BY <4>2, <3>1 DEF Served
    <3> QED BY <3>3, <3>4, <3>5
  <2> QED BY <1>4, <1>5, <1>12, <1>13, <2>1, <2>2, <2>3, Ended, PlaceNames
<1> QED BY <1>15, <1>16

LEMMA StepExecutes ==
  ASSUME BulkInv, NEW w \in BulkWorkers, NEW b \in BulkIds, PrepareExecutes(w, b) PROVE BulkInv'
<1>1. BulkTypes
  BY DEF BulkInv
<1>2. PICK rows : rows = bulkRows[b]
  OBVIOUS
<1>3. PICK job : job = bulkJobs[b]
  OBVIOUS
<1>4. PICK k : k = [job EXCEPT !.state = PreparedState(@)]
  OBVIOUS
<1>5. PICK n : n = [job |-> job, rows |-> rows]
  OBVIOUS
<1>6. /\ bulkWorker[w] = At(b, "prepare") /\ BulkUnlocked(b) /\ BulkReady(b)
      /\ bulkWorker' = [bulkWorker EXCEPT ![w] = At(b, "executing")]
      /\ UNCHANGED <<bulkRows, bulkHolds, bulkMsgs, bulkRetried, bulkFaults>>
  BY DEF PrepareExecutes
<1>7. bulkJobs' = [bulkJobs EXCEPT ![b] = k] /\ bulkBefore' = [bulkBefore EXCEPT ![b] = n]
  BY <1>2, <1>3, <1>4, <1>5 DEF PrepareExecutes
<1>8. /\ job.state # "NONE" /\ JobOk(job, rows) /\ HoldRule(job, rows, bulkHolds[b])
      /\ job \in JobRecords /\ rows \in BulkTables /\ bulkHolds[b] \in HoldRecords
      /\ \A v \in BulkWorkers : bulkWorker[v] # At(b, "executing")
  BY <1>1, <1>2, <1>3, <1>6, Attended, Unheld, Unwritten, PlaceNames
<1>9. /\ Runnable(job) /\ Runnable(k) /\ k \in JobRecords /\ k.pause = FALSE /\ k.kill = FALSE
      /\ k.state \notin {"QUEUED", "WAITING_INPUT"} /\ JobOk(k, rows) /\ rows # <<>>
  BY <1>2, <1>3, <1>4, <1>6, <1>8, ReadyFacts
<1>10. n \in Snapshots /\ n.job = job /\ n.rows = rows
  BY <1>5, <1>8 DEF Snapshots
<1>11. RunOk(k, rows, n)
  BY <1>8, <1>9, <1>10 DEF RunOk
<1>12. WorkerGoes(w, b, At(b, "executing"))
  BY <1>1, <1>6, Goes, PlaceNames
<1>13. Writes(b, k, rows, bulkHolds[b], n)
  BY <1>1, <1>2, <1>6, <1>7, Unwritten DEF Writes
<1>14. Sends(b)
  BY <1>1, <1>6, Redelivered
<1>15. BulkTypes' /\ Elsewhere(b) /\ Written(b, k, rows, bulkHolds[b], n)
  BY <1>1, <1>6, <1>8, <1>9, <1>10, <1>12, <1>13, <1>14, Framed DEF Sends
<1>16. \A v \in BulkWorkers : bulkWorker'[v] = At(b, "executing") <=> v = w
  BY <1>8, <1>12 DEF WorkerGoes
<1>17. OkFor(b)'
  BY <1>8, <1>9, <1>10, <1>11, <1>15, <1>16, Snapshot, HeldOk DEF Written
<1> QED BY <1>15, <1>17, Together

-----------------------------------------------------------------------------
(* Execution.                                                              *)

LEMMA Running ==
  ASSUME BulkInv, NEW w \in BulkWorkers, NEW b \in BulkIds, bulkWorker[w] = At(b, "executing")
  PROVE  /\ ~BulkUnlocked(b) /\ bulkBefore[b] \in Snapshots /\ bulkBefore[b] # BulkCommitted
         /\ bulkBefore[b].job \in JobRecords /\ bulkBefore[b].rows \in BulkTables
         /\ bulkJobs[b] \in JobRecords /\ bulkRows[b] \in BulkTables /\ bulkHolds[b] \in HoldRecords
         /\ RunOk(bulkJobs[b], bulkRows[b], bulkBefore[b]) /\ JobOk(bulkJobs[b], bulkRows[b])
         /\ HoldRule(bulkBefore[b].job, bulkBefore[b].rows, bulkHolds[b])
         /\ bulkHolds[b].state = "HELD"
         /\ \A v \in BulkWorkers : bulkWorker[v] = At(b, "executing") <=> v = w
<1>1. ~BulkUnlocked(b)
  BY Unheld
<1>2. /\ bulkBefore[b] \in Snapshots /\ RunOk(bulkJobs[b], bulkRows[b], bulkBefore[b])
      /\ JobOk(bulkJobs[b], bulkRows[b])
      /\ HoldRule(bulkBefore[b].job, bulkBefore[b].rows, bulkHolds[b])
  BY <1>1, Held
<1>3. PICK u \in BulkWorkers : \A v \in BulkWorkers : bulkWorker[v] = At(b, "executing") <=> v = u
  BY <1>1, Held
<1>4. \A v \in BulkWorkers : bulkWorker[v] = At(b, "executing") <=> v = w
  BY <1>3
<1>5. bulkBefore[b].job \in JobRecords /\ bulkBefore[b].rows \in BulkTables
  BY <1>2 DEF Snapshots
<1>6. bulkHolds[b].state = "HELD"
  BY <1>2 DEF RunOk, Runnable, HoldRule
<1> QED BY <1>1, <1>2, <1>4, <1>5, <1>6, Snapshot, Unwritten DEF BulkInv

LEMMA RunChanged ==
  ASSUME BulkInv, NEW w \in BulkWorkers, NEW b \in BulkIds, bulkWorker[w] = At(b, "executing"),
         NEW j \in JobRecords, NEW r \in BulkTables,
         bulkJobs' = [bulkJobs EXCEPT ![b] = j], bulkRows' = [bulkRows EXCEPT ![b] = r],
         UNCHANGED <<bulkHolds, bulkBefore, bulkWorker, bulkMsgs, bulkRetried, bulkFaults>>,
         JobOk(j, r), RunOk(j, r, bulkBefore[b])
  PROVE  BulkInv'
<1>1. BulkTypes
  BY DEF BulkInv
<1>2. Writes(b, j, r, bulkHolds[b], bulkBefore[b])
  BY <1>1, Unwritten DEF Writes
<1>3. Sends(b)
  BY <1>1, Redelivered
<1>4. BulkTypes' /\ Elsewhere(b) /\ Written(b, j, r, bulkHolds[b], bulkBefore[b])
  BY <1>1, <1>2, <1>3, Unwritten, Framed DEF Sends
<1>5. \A v \in BulkWorkers : bulkWorker'[v] = At(b, "executing") <=> v = w
  BY Running
<1>6. OkFor(b)'
  BY <1>4, <1>5, Running, HeldOk DEF Written
<1> QED BY <1>4, <1>6, Together

LEMMA StepAuthorizes ==
  ASSUME BulkInv, NEW w \in BulkWorkers, NEW b \in BulkIds, AuthorizeNextRow(w, b) PROVE BulkInv'
<1>1. BulkTypes
  BY DEF BulkInv
<1>2. PICK job : job = bulkJobs[b]
  OBVIOUS
<1>3. PICK rows : rows = bulkRows[b]
  OBVIOUS
<1>4. PICK i \in DOMAIN rows :
        /\ bulkWorker[w] = At(b, "executing") /\ GateOpen(job)
        /\ \/ bulkJobs' = [bulkJobs EXCEPT ![b].kill = TRUE, ![b].pause = TRUE] /\ bulkRows' = bulkRows
           \/ /\ ~(job.actual + job.held + RowEstimate(i) > BulkMaximum)
              /\ rows[i].state \in {"READY", "QUEUED"}
              /\ bulkJobs' = [bulkJobs EXCEPT ![b].held = @ + RowEstimate(i)]
              /\ bulkRows' = [bulkRows EXCEPT ![b][i].state = "PROCESSING"]
        /\ UNCHANGED <<bulkHolds, bulkBefore, bulkWorker, bulkMsgs, bulkRetried, bulkFaults>>
  BY <1>2, <1>3 DEF AuthorizeNextRow
<1>5. PICK before : before = bulkBefore[b]
  OBVIOUS
<1>6. /\ job \in JobRecords /\ rows \in BulkTables /\ JobOk(job, rows) /\ RunOk(job, rows, before)
  BY <1>2, <1>3, <1>4, <1>5, Running
<1>7. CASE bulkJobs' = [bulkJobs EXCEPT ![b].kill = TRUE, ![b].pause = TRUE] /\ bulkRows' = bulkRows
  <2>1. PICK j : j = [job EXCEPT !.kill = TRUE, !.pause = TRUE]
    OBVIOUS
  <2>2. bulkJobs' = [bulkJobs EXCEPT ![b] = j]
    BY <1>1, <1>2, <1>7, <2>1 DEF BulkTypes
  <2>3. bulkRows' = [bulkRows EXCEPT ![b] = rows]
    BY <1>1, <1>3, <1>7, Unwritten
  <2>4. /\ j \in JobRecords /\ j.state = job.state /\ j.actual = job.actual /\ j.held = job.held
        /\ j.processed = job.processed /\ j.kill = TRUE /\ j.pause = TRUE
    BY <1>6, <2>1 DEF JobRecords
  <2>5. JobOk(j, rows)
    BY <1>6, <2>4, StateMoved
  <2>6. RunOk(j, rows, before)
    BY <1>6, <2>4 DEF RunOk, Runnable
  <2> QED BY <1>4, <1>5, <1>6, <2>2, <2>3, <2>4, <2>5, <2>6, RunChanged
<1>8. CASE /\ ~(job.actual + job.held + RowEstimate(i) > BulkMaximum)
           /\ rows[i].state \in {"READY", "QUEUED"}
           /\ bulkJobs' = [bulkJobs EXCEPT ![b].held = @ + RowEstimate(i)]
           /\ bulkRows' = [bulkRows EXCEPT ![b][i].state = "PROCESSING"]
  <2>1. PICK old : old = rows[i]
    OBVIOUS
  <2>2. PICK row : row = [old EXCEPT !.state = "PROCESSING"]
    OBVIOUS
  <2>3. PICK r : r = [rows EXCEPT ![i] = row]
    OBVIOUS
  <2>4. PICK j : j = [job EXCEPT !.held = @ + RowEstimate(i)]
    OBVIOUS
  <2>5. bulkJobs' = [bulkJobs EXCEPT ![b] = j]
    BY <1>2, <1>8, <2>4
  <2>6. bulkRows' = [bulkRows EXCEPT ![b] = r]
    BY <1>3, <1>8, <2>1, <2>2, <2>3
  <2>7. /\ RowOk(i, old) /\ old \in BulkRowRecords /\ old.attempt \in Nat /\ old.cost \in Nat
        /\ i \in 1..BulkTarget /\ RowEstimate(i) \in Nat /\ old.state \in {"READY", "QUEUED"}
    BY <1>6, <1>8, <2>1, RowTypes, Estimates DEF JobOk, RowsOk
  <2>8. ~old.approved
    BY <2>7 DEF RowOk
  <2>9. /\ row \in BulkRowRecords /\ row.state = "PROCESSING" /\ row.attempt = old.attempt
        /\ row.cost = old.cost /\ row.passed = old.passed /\ row.approved = old.approved
    BY <2>2, <2>7 DEF BulkRowRecords, BulkRowStates
  <2>10. RowOk(i, row)
    BY <2>7, <2>8, <2>9, Limits DEF RowOk, OpenRowStates, RETRYABLE_ROW_STATES
  <2>11. /\ r \in BulkTables /\ r # <<>> /\ DOMAIN r = DOMAIN rows /\ r[i] = row
         /\ \A k \in DOMAIN rows : k # i => r[k] = rows[k]
    <3>1. rows \in BulkTables /\ i \in DOMAIN rows /\ row \in BulkRowRecords
      BY <1>6, <2>9
    <3>2. rows \in [1..BulkTarget -> BulkRowRecords] /\ rows # <<>>
      BY <3>1, Tables DEF BulkTables
    <3>3. /\ r \in [1..BulkTarget -> BulkRowRecords] /\ DOMAIN r = DOMAIN rows /\ r[i] = row
          /\ \A k \in DOMAIN rows : k # i => r[k] = rows[k]
      BY <2>3, <3>1, <3>2
    <3>4. r # <<>>
      BY <3>1, <3>3
    <3> QED BY <3>3, <3>4 DEF BulkTables
  <2>12. row.attempt >= rows[i].attempt /\ RowsOk(rows)
    BY <1>6, <2>1, <2>7, <2>9 DEF JobOk
  <2>13. /\ RowsOk(r) /\ Cardinality(WorkedRows(rows)) <= Cardinality(WorkedRows(r))
         /\ RowCosts(r) = RowCosts(rows) - rows[i].cost + row.cost
         /\ Reserved(r) = Reserved(rows) - RowHeld(i, rows[i]) + RowHeld(i, row)
         /\ Ran(rows) /\ (row.state \in PROCESSED_ROW_STATES => Worked(i, row)) => Ran(r)
    BY <1>6, <2>9, <2>10, <2>11, <2>12, RowChanged
  <2>14. RowHeld(i, rows[i]) = 0 /\ RowHeld(i, row) = RowEstimate(i)
    BY <2>1, <2>7, <2>9 DEF RowHeld
  <2>15. job.actual \in Nat /\ job.held \in Nat /\ job.processed \in Nat /\ BulkMaximum \in Nat
    BY <1>6, JobTypes, Limits
  <2>16. /\ j \in JobRecords /\ j.state = job.state /\ j.actual = job.actual /\ j.pause = job.pause
         /\ j.held = job.held + RowEstimate(i) /\ j.processed = job.processed /\ j.kill = job.kill
    <3>1. job.held + RowEstimate(i) \in Nat
      BY <2>7, <2>15
    <3> QED BY <3>1, <1>6, <2>4 DEF JobRecords
  <2>17. SumsOk(j, r)
    <3>1. job.actual = RowCosts(rows) /\ job.held >= Reserved(rows) /\ Reserved(rows) \in Nat
      BY <1>6, SumTypes DEF JobOk, SumsOk
    <3>2. RowCosts(r) = RowCosts(rows) /\ Reserved(r) <= job.held + RowEstimate(i)
      BY <2>1, <2>7, <2>9, <2>13, <2>14, <2>15, <3>1
    <3>3. job.held + RowEstimate(i) <= BulkMaximum
      BY <1>8, <2>7, <2>15
    <3> QED BY <2>16, <3>1, <3>2, <3>3 DEF SumsOk
  <2>18. ProgressOk(j, r)
    <3>1. Cardinality(WorkedRows(rows)) \in Nat /\ Cardinality(WorkedRows(r)) \in Nat
      BY <1>6, <2>11, Counts
    <3>2. ProgressOk(job, rows)
      BY <1>6 DEF JobOk
    <3>3. row.state \notin PROCESSED_ROW_STATES
      BY <2>9 DEF PROCESSED_ROW_STATES
    <3> QED BY <3>1, <3>2, <3>3, <2>13, <2>15, <2>16 DEF ProgressOk
  <2>19. JobOk(j, r)
    BY <1>6, <2>13, <2>16, <2>17, <2>18 DEF JobOk
  <2>20. RunOk(j, r, before)
    <3>1. \A k \in DOMAIN before.rows : before.rows[k].approved => r[k] = before.rows[k]
      <4>1. DOMAIN before.rows = DOMAIN rows
        <5>1. before.rows # <<>> /\ rows # <<>> /\ before.rows \in BulkTables
          BY <1>4, <1>5, <1>6, Running DEF RunOk
        <5> QED BY <5>1, <1>6, Tables
      <4>2. \A k \in DOMAIN before.rows : before.rows[k].approved => rows[k] = before.rows[k]
        BY <1>6 DEF RunOk
      <4> QED BY <4>1, <4>2, <2>1, <2>8, <2>11
    <3> QED BY <3>1, <1>6, <2>11, <2>16 DEF RunOk, Runnable
  <2> QED BY <1>4, <1>5, <2>5, <2>6, <2>11, <2>16, <2>19, <2>20, RunChanged
<1> QED BY <1>4, <1>7, <1>8

\* What is recorded of an attempt.
LEMMA Recorded ==
  ASSUME NEW old \in BulkRowRecords, NEW i, RowOk(i, old), old.state = "PROCESSING",
         old.attempt < BulkRowAttempts, NEW o \in RowOutcomes, NEW cost \in BulkRowCosts,
         NEW row, row = RecordedRow(old, o, cost)
  PROVE  /\ row \in BulkRowRecords /\ RowOk(i, row) /\ row.state # "PROCESSING"
         /\ row.attempt >= old.attempt /\ row.cost = old.cost + cost /\ Worked(i, row)
<1>1. old.attempt \in Nat /\ old.cost \in Nat /\ cost \in Nat /\ BulkRowAttempts \in Nat
  BY BulkNumbers DEF BulkRowRecords
<1>2. /\ o.passed \in BOOLEAN /\ o.blocked \in BOOLEAN
      /\ o.outcome \in {"SUCCEEDED", "RETRYABLE_FAILED", "FINAL_FAILED"}
  BY DEF RowOutcomes
<1>3. RecordedState(o) \in {"QUALITY_BLOCKED", "RETRYABLE_FAILED", "FINAL_FAILED", "APPROVED", "WAITING_REVIEW"}
  BY <1>2 DEF RecordedState
<1>4. PICK s : s = RecordedState(o)
  OBVIOUS
<1>5. PICK a \in BOOLEAN : a <=> s = "APPROVED"
  OBVIOUS
<1>6. old.attempt + 1 \in Nat /\ old.cost + cost \in Nat
  BY <1>1
<1>7. row = [state |-> s, attempt |-> old.attempt + 1, passed |-> o.passed, blocked |-> o.blocked,
             approved |-> a, cost |-> old.cost + cost]
  BY <1>4, <1>5 DEF RecordedRow
<1>8. /\ row.state = s /\ row.attempt = old.attempt + 1 /\ row.cost = old.cost + cost
      /\ (row.approved <=> s = "APPROVED")
  BY <1>5, <1>7
<1>9. row \in BulkRowRecords
  BY <1>2, <1>3, <1>4, <1>6, <1>7 DEF BulkRowRecords, BulkRowStates
<1>10. RowOk(i, row)
  BY <1>1, <1>3, <1>4, <1>8 DEF RowOk, OpenRowStates, RETRYABLE_ROW_STATES
<1> QED BY <1>1, <1>3, <1>4, <1>8, <1>9, <1>10 DEF Worked

LEMMA StepRecords ==
  ASSUME BulkInv, NEW w \in BulkWorkers, NEW b \in BulkIds, RecordRowAttempt(w, b) PROVE BulkInv'
<1>1. BulkTypes
  BY DEF BulkInv
<1>2. PICK i \in DOMAIN bulkRows[b], o \in RowOutcomes, cost \in BulkRowCosts :
        LET paid == [bulkJobs[b] EXCEPT !.actual = @ + cost, !.held = HeldAfter(bulkJobs[b], i)]
            killed == BudgetReached(paid)
        IN  /\ bulkWorker[w] = At(b, "executing")
            /\ bulkRows[b][i].state = "PROCESSING" /\ ~bulkRows[b][i].approved
            /\ bulkRows[b][i].attempt < BulkRowAttempts
            /\ bulkRows' = [bulkRows EXCEPT ![b][i] = RecordedRow(@, o, cost)]
            /\ bulkJobs' = [bulkJobs EXCEPT ![b] =
                 RefreshProgress([paid EXCEPT !.kill = @ \/ killed, !.pause = @ \/ killed], bulkRows'[b])]
            /\ UNCHANGED <<bulkHolds, bulkBefore, bulkWorker, bulkMsgs, bulkRetried, bulkFaults>>
  BY DEF RecordRowAttempt, RowWasAuthorized
<1>3. PICK job : job = bulkJobs[b]
  OBVIOUS
<1>4. PICK rows : rows = bulkRows[b]
  OBVIOUS
<1>5. PICK before : before = bulkBefore[b]
  OBVIOUS
<1>6. PICK paid : paid = [job EXCEPT !.actual = @ + cost, !.held = HeldAfter(job, i)]
  OBVIOUS
<1>7. PICK killed \in BOOLEAN : killed <=> BudgetReached(paid)
  OBVIOUS
<1>8. PICK k : k = [paid EXCEPT !.kill = @ \/ killed, !.pause = @ \/ killed]
  OBVIOUS
<1>9. PICK old : old = rows[i]
  OBVIOUS
<1>10. PICK row : row = RecordedRow(old, o, cost)
  OBVIOUS
<1>11. PICK r : r = [rows EXCEPT ![i] = row]
  OBVIOUS
<1>12. PICK j : j = RefreshProgress(k, r)
  OBVIOUS
<1>13. bulkWorker[w] = At(b, "executing") /\ old.state = "PROCESSING" /\ ~old.approved /\ old.attempt < BulkRowAttempts
  BY <1>4, <1>2, <1>9
<1>14. UNCHANGED <<bulkHolds, bulkBefore, bulkWorker, bulkMsgs, bulkRetried, bulkFaults>>
  BY <1>2
<1>15. bulkRows' = [bulkRows EXCEPT ![b] = r] /\ bulkRows'[b] = r
  <2>1. bulkRows' = [bulkRows EXCEPT ![b][i] = RecordedRow(@, o, cost)]
    BY <1>2
  <2>2. bulkRows' = [bulkRows EXCEPT ![b] = r]
    BY <2>1, <1>4, <1>9, <1>10, <1>11
  <2> QED BY <2>2, <1>1 DEF BulkTypes
<1>16. bulkJobs' = [bulkJobs EXCEPT ![b] = j]
  <2>1. k = [paid EXCEPT !.kill = @ \/ BudgetReached(paid), !.pause = @ \/ BudgetReached(paid)]
    BY <1>7, <1>8
  <2>2. bulkJobs' = [bulkJobs EXCEPT ![b] = RefreshProgress(k, bulkRows'[b])]
    BY <1>3, <1>2, <1>6, <2>1
  <2> QED BY <2>2, <1>12, <1>15
<1>17. /\ job \in JobRecords /\ rows \in BulkTables /\ JobOk(job, rows) /\ RunOk(job, rows, before)
       /\ before.rows \in BulkTables
  BY <1>3, <1>4, <1>5, <1>13, Running
<1>18. /\ RowOk(i, old) /\ old \in BulkRowRecords /\ old.attempt \in Nat /\ old.cost \in Nat
       /\ i \in 1..BulkTarget /\ RowEstimate(i) \in Nat /\ i \in DOMAIN rows
  BY <1>4, <1>9, <1>17, RowTypes, Estimates DEF JobOk, RowsOk
<1>19. cost \in Nat /\ job.actual \in Nat /\ job.held \in Nat
  BY <1>17, JobTypes, BulkNumbers
<1>20. /\ row \in BulkRowRecords /\ RowOk(i, row) /\ row.state # "PROCESSING"
       /\ row.attempt >= old.attempt /\ row.cost = old.cost + cost /\ Worked(i, row)
  BY <1>10, <1>13, <1>18, Recorded
<1>21. /\ r \in BulkTables /\ r # <<>> /\ DOMAIN r = DOMAIN rows /\ r[i] = row
       /\ \A n \in DOMAIN rows : n # i => r[n] = rows[n]
  <2>1. rows \in [1..BulkTarget -> BulkRowRecords] /\ rows # <<>>
    BY <1>17, <1>18, Tables DEF BulkTables
  <2>2. /\ r \in [1..BulkTarget -> BulkRowRecords] /\ DOMAIN r = DOMAIN rows /\ r[i] = row
        /\ \A n \in DOMAIN rows : n # i => r[n] = rows[n]
    BY <1>11, <1>18, <1>20, <2>1
  <2>3. r # <<>>
    BY <1>18, <2>2
  <2> QED BY <2>2, <2>3 DEF BulkTables
<1>22. RowsOk(rows) /\ row.attempt >= rows[i].attempt
  BY <1>9, <1>17, <1>20 DEF JobOk
<1>23. /\ RowsOk(r) /\ RowCosts(r) = RowCosts(rows) - rows[i].cost + row.cost
       /\ Reserved(r) = Reserved(rows) - RowHeld(i, rows[i]) + RowHeld(i, row)
       /\ Ran(rows) /\ (row.state \in PROCESSED_ROW_STATES => Worked(i, row)) => Ran(r)
  BY <1>17, <1>18, <1>20, <1>21, <1>22, RowChanged
<1>24. RowHeld(i, rows[i]) = RowEstimate(i) /\ RowHeld(i, row) = 0
  BY <1>9, <1>13, <1>20 DEF RowHeld
<1>25. /\ job.actual = RowCosts(rows) /\ job.held >= Reserved(rows) /\ job.held <= BulkMaximum
       /\ Reserved(rows) \in Nat
  BY <1>17, SumTypes DEF JobOk, SumsOk
<1>26. job.held >= RowEstimate(i)
  <2>1. Reserved(rows) >= RowEstimate(i)
    BY <1>17, <1>18, <1>24, ReservedCovers
  <2> QED BY <2>1, <1>18, <1>19, <1>25
<1>27. HeldAfter(job, i) = job.held - RowEstimate(i) /\ HeldAfter(job, i) \in Nat
  BY <1>18, <1>19, <1>26 DEF HeldAfter
<1>28. /\ paid \in JobRecords /\ paid.state = job.state /\ paid.actual = job.actual + cost
       /\ paid.held = job.held - RowEstimate(i) /\ paid.kill = job.kill /\ paid.pause = job.pause
  <2>1. job.actual + cost \in Nat
    BY <1>19
  <2> QED BY <2>1, <1>6, <1>17, <1>27 DEF JobRecords
<1>29. (job.pause <=> job.kill) /\ Runnable(job)
  BY <1>17 DEF RunOk
<1>30. /\ k \in JobRecords /\ k.state = job.state /\ k.actual = job.actual + cost
       /\ k.held = job.held - RowEstimate(i) /\ (k.kill <=> k.pause)
  BY <1>8, <1>28, <1>29 DEF JobRecords
<1>31. Ran(r)
  <2>1. Ran(rows)
    BY <1>17, <1>29 DEF JobOk, ProgressOk, Runnable, TERMINAL_JOB_STATES
  <2> QED BY <2>1, <1>20, <1>23
<1>32. /\ j \in JobRecords /\ j.state = k.state /\ j.pause = k.pause /\ j.kill = k.kill
       /\ j.actual = k.actual /\ j.held = k.held /\ ProgressOk(j, r)
  BY <1>12, <1>21, <1>30, <1>31, Refreshed
<1>33. SumsOk(j, r)
  <2>1. RowCosts(r) = job.actual + cost
    BY <1>9, <1>18, <1>19, <1>20, <1>23, <1>25
  <2>2. Reserved(r) <= job.held - RowEstimate(i)
    BY <1>18, <1>19, <1>23, <1>24, <1>25
  <2>3. job.held - RowEstimate(i) <= BulkMaximum
    BY <1>18, <1>19, <1>25, Limits
  <2> QED BY <2>1, <2>2, <2>3, <1>30, <1>32 DEF SumsOk
<1>34. JobOk(j, r)
  BY <1>23, <1>30, <1>32, <1>33 DEF JobOk
<1>35. RunOk(j, r, before)
  <2>1. \A n \in DOMAIN before.rows : before.rows[n].approved => r[n] = before.rows[n]
    <3>1. DOMAIN before.rows = DOMAIN rows
      <4>1. before.rows # <<>> /\ rows # <<>>
        BY <1>17 DEF RunOk
      <4> QED BY <4>1, <1>17, Tables
    <3>2. \A n \in DOMAIN before.rows : before.rows[n].approved => rows[n] = before.rows[n]
      BY <1>17 DEF RunOk
    <3> QED BY <3>1, <3>2, <1>9, <1>13, <1>21
  <2> QED BY <2>1, <1>17, <1>21, <1>30, <1>32 DEF RunOk, Runnable
<1> QED BY <1>5, <1>13, <1>14, <1>15, <1>16, <1>21, <1>32, <1>34, <1>35, RunChanged

LEMMA StepReturns ==
  ASSUME BulkInv, NEW w \in BulkWorkers, NEW b \in BulkIds, ExecutorReturns(w, b) PROVE BulkInv'
<1>1. BulkTypes
  BY DEF BulkInv
<1>2. PICK state \in {bulkJobs[b].state, "SUCCEEDED", "WAITING_REVIEW", "RETRYABLE_FAILED"} :
        LET job == [bulkJobs[b] EXCEPT !.state = state]
            stops == job.pause \/ job.kill
            ended == IF stops \/ state # "VALIDATING" THEN job ELSE FailedJob(job, bulkRows[b])
        IN  /\ bulkWorker[w] = At(b, "executing")
            /\ ~stops /\ state = "SUCCEEDED" => ValidateBulkSuccess(job)
            /\ bulkJobs' = [bulkJobs EXCEPT ![b] = ended]
            /\ bulkRows' = IF stops \/ state # "VALIDATING" THEN bulkRows
                           ELSE [bulkRows EXCEPT ![b] = FailedRows(job, @)]
            /\ bulkHolds' = IF stops THEN bulkHolds
                            ELSE [bulkHolds EXCEPT ![b] = SettledBulkHold(b, ended)]
            /\ bulkBefore' = [bulkBefore EXCEPT ![b] = BulkCommitted]
            /\ BulkDone(w, b)
            /\ UNCHANGED bulkRetried
  BY DEF ExecutorReturns
<1>3. PICK job : job = bulkJobs[b]
  OBVIOUS
<1>4. PICK rows : rows = bulkRows[b]
  OBVIOUS
<1>5. PICK k : k = [job EXCEPT !.state = state]
  OBVIOUS
<1>6. PICK stops \in BOOLEAN : stops <=> k.pause \/ k.kill
  OBVIOUS
<1>7. PICK j : j = IF stops \/ state # "VALIDATING" THEN k ELSE FailedJob(k, rows)
  OBVIOUS
<1>8. /\ bulkWorker[w] = At(b, "executing") /\ BulkDone(w, b) /\ bulkRetried' = bulkRetried
      /\ bulkBefore' = [bulkBefore EXCEPT ![b] = BulkCommitted]
  BY <1>2, <1>4
<1>9. ~stops /\ state = "SUCCEEDED" => ValidateBulkSuccess(k)
  BY <1>2, <1>3, <1>5, <1>6
<1>10. bulkJobs' = [bulkJobs EXCEPT ![b] = j] /\ bulkJobs'[b] = j
  <2>1. bulkJobs' = [bulkJobs EXCEPT ![b] = j]
    BY <1>2, <1>3, <1>4, <1>5, <1>6, <1>7
  <2> QED BY <2>1, <1>1 DEF BulkTypes
<1>11. bulkRows' = IF stops \/ state # "VALIDATING" THEN bulkRows ELSE [bulkRows EXCEPT ![b] = FailedRows(k, rows)]
  BY <1>2, <1>3, <1>4, <1>5, <1>6
<1>12. bulkHolds' = IF stops THEN bulkHolds ELSE [bulkHolds EXCEPT ![b] = SettledBulkHold(b, j)]
  BY <1>2, <1>3, <1>4, <1>5, <1>6, <1>7
<1>13. /\ job \in JobRecords /\ rows \in BulkTables /\ JobOk(job, rows) /\ Runnable(job)
       /\ (job.pause <=> job.kill) /\ job.state \notin {"QUEUED", "WAITING_INPUT"}
       /\ bulkHolds[b] \in HoldRecords /\ bulkHolds[b].state = "HELD"
       /\ \A v \in BulkWorkers : v # w => bulkWorker[v] # At(b, "executing")
  BY <1>3, <1>4, <1>8, Running DEF RunOk
<1>14. state \in {job.state, "SUCCEEDED", "WAITING_REVIEW", "RETRYABLE_FAILED"}
  BY <1>2, <1>3
<1>15. /\ k \in JobRecords /\ k.state = state /\ k.actual = job.actual /\ k.held = job.held
       /\ k.processed = job.processed /\ k.kill = job.kill /\ k.pause = job.pause
  <2>1. state \in BulkStates
    BY <1>13, <1>14, JobTypes DEF BulkStates
  <2> QED BY <2>1, <1>5, <1>13 DEF JobRecords
<1>16. JobOk(k, rows)
  BY <1>13, <1>15, StateMoved DEF Runnable, TERMINAL_JOB_STATES
<1>17. k.state \notin {"CANCELLED", "FINAL_FAILED", "EXPIRED", "CANCEL_REQUESTED", "NONE", "QUEUED", "WAITING_INPUT"}
  BY <1>13, <1>14, <1>15 DEF Runnable, TERMINAL_JOB_STATES
<1>18. CASE stops
  <2>1. j = k /\ bulkRows' = bulkRows /\ bulkHolds' = bulkHolds
    BY <1>7, <1>11, <1>12, <1>18
  <2>2. Writes(b, k, rows, bulkHolds[b], BulkCommitted)
    BY <1>1, <1>4, <1>8, <1>10, <2>1, Unwritten DEF Writes
  <2>3. k.kill /\ k.pause
    BY <1>6, <1>13, <1>15, <1>18
  <2>4. HoldRule(k, rows, bulkHolds[b])
    BY <1>13, <1>17, <2>3 DEF HoldRule
  <2>5. Served(b)'
    BY <1>10, <1>17, <2>1, <2>3 DEF Served
  <2> QED BY <1>8, <1>13, <1>15, <1>16, <1>17, <2>2, <2>4, <2>5, Ended, PlaceNames
<1>19. CASE ~stops /\ state # "VALIDATING"
  <2>1. PICK h : h = SettledBulkHold(b, j)
    OBVIOUS
  <2>2. j = k /\ bulkRows' = bulkRows /\ bulkHolds' = [bulkHolds EXCEPT ![b] = h]
    BY <1>7, <1>11, <1>12, <1>19, <2>1
  <2>3. Writes(b, k, rows, h, BulkCommitted)
    BY <1>1, <1>4, <1>8, <1>10, <2>2, Unwritten DEF Writes
  <2>4. h \in HoldRecords /\ HoldRule(k, rows, h)
    BY <1>9, <1>13, <1>15, <1>16, <1>17, <1>19, <2>1, <2>2, Settled
  <2>5. Served(b)'
    BY <1>10, <1>15, <1>17, <1>19, <2>2 DEF Served, WaitingStates
  <2> QED BY <1>8, <1>13, <1>15, <1>16, <1>17, <2>3, <2>4, <2>5, Ended, PlaceNames
<1>20. CASE ~stops /\ state = "VALIDATING"
  <2>1. PICK h : h = SettledBulkHold(b, j)
    OBVIOUS
  <2>2. PICK r : r = FailedRows(k, rows)
    OBVIOUS
  <2>3. /\ j = FailedJob(k, rows) /\ bulkRows' = [bulkRows EXCEPT ![b] = r]
        /\ bulkHolds' = [bulkHolds EXCEPT ![b] = h]
    BY <1>7, <1>11, <1>12, <1>20, <2>1, <2>2
  <2>4. FailsFrom(k.state)
    BY <1>15, <1>20 DEF FailsFrom
  <2>5. /\ j \in JobRecords /\ r \in BulkTables /\ JobOk(j, r) /\ j.state = "FINAL_FAILED"
    BY <1>8, <1>13, <1>15, <1>16, <2>2, <2>3, <2>4, Failed
  <2>6. Writes(b, j, r, h, BulkCommitted)
    BY <1>8, <1>10, <2>3 DEF Writes
  <2>7. h \in HoldRecords /\ HoldRule(j, r, h)
    BY <1>13, <2>1, <2>5, Settled
  <2>8. Served(b)'
    BY <1>10, <2>5 DEF Served, WaitingStates
  <2> QED BY <1>8, <1>13, <2>5, <2>6, <2>7, <2>8, Ended, PlaceNames
<1> QED BY <1>18, <1>19, <1>20

\* What a run changed is undone.
LEMMA RolledBack ==
  ASSUME BulkInv, NEW w \in BulkWorkers, NEW b \in BulkIds, bulkWorker[w] = At(b, "executing"),
         bulkJobs' = [bulkJobs EXCEPT ![b] = bulkBefore[b].job],
         bulkRows' = [bulkRows EXCEPT ![b] = bulkBefore[b].rows],
         bulkBefore' = [bulkBefore EXCEPT ![b] = BulkCommitted], UNCHANGED <<bulkHolds, bulkRetried>>,
         NEW x, WorkerGoes(w, b, x), x # At(b, "executing"), Sends(b),
         bulkFaults' > 0 \/ x = At(b, "failing")
  PROVE  BulkInv'
<1>1. BulkTypes
  BY DEF BulkInv
<1>2. PICK n : n = bulkBefore[b]
  OBVIOUS
<1>3. /\ n.job \in JobRecords /\ n.rows \in BulkTables /\ JobOk(n.job, n.rows)
      /\ Runnable(n.job) /\ HoldRule(n.job, n.rows, bulkHolds[b]) /\ bulkHolds[b] \in HoldRecords
  BY <1>2, Running DEF RunOk
<1>4. Writes(b, n.job, n.rows, bulkHolds[b], BulkCommitted)
  BY <1>1, <1>2, Unwritten DEF Writes
<1>5. BulkTypes' /\ Elsewhere(b) /\ Written(b, n.job, n.rows, bulkHolds[b], BulkCommitted)
  BY <1>1, <1>3, <1>4, Framed DEF Sends
<1>6. \A v \in BulkWorkers : bulkWorker'[v] # At(b, "executing")
  BY Running DEF WorkerGoes
<1>7. n.job.state # "CANCEL_REQUESTED" /\ n.job.state # "NONE"
  BY <1>3 DEF Runnable
<1>8. Served(b)'
  <2>1. CASE bulkFaults' > 0
    BY <2>1, SentServes
  <2>2. CASE x = At(b, "failing")
    <3>1. bulkWorker'[w] = At(b, "failing") /\ bulkJobs'[b].state # "CANCEL_REQUESTED"
      BY <1>5, <1>7, <2>2 DEF WorkerGoes, Written
    <3> QED BY <3>1 DEF Served
  <2> QED BY <2>1, <2>2
<1>9. OkFor(b)'
  BY <1>3, <1>5, <1>6, <1>7, <1>8, OpenOk DEF Written
<1> QED BY <1>5, <1>9, Together

LEMMA StepExecutorRaises ==
  ASSUME BulkInv, NEW w \in BulkWorkers, NEW b \in BulkIds, ExecutorRaises(w, b) PROVE BulkInv'
<1>1. BulkTypes
  BY DEF BulkInv
<1>2. /\ bulkWorker[w] = At(b, "executing") /\ bulkWorker' = [bulkWorker EXCEPT ![w] = At(b, "failing")]
      /\ bulkJobs' = [bulkJobs EXCEPT ![b] = bulkBefore[b].job]
      /\ bulkRows' = [bulkRows EXCEPT ![b] = bulkBefore[b].rows]
      /\ bulkBefore' = [bulkBefore EXCEPT ![b] = BulkCommitted]
      /\ UNCHANGED <<bulkHolds, bulkMsgs, bulkRetried, bulkFaults>>
  BY DEF ExecutorRaises
<1>3. WorkerGoes(w, b, At(b, "failing"))
  BY <1>1, <1>2, Goes, PlaceNames
<1>4. Sends(b)
  BY <1>1, <1>2, Redelivered
<1> QED BY <1>2, <1>3, <1>4, Apart, RolledBack

LEMMA StepLost ==
  ASSUME BulkInv, NEW w \in BulkWorkers, NEW b \in BulkIds, BulkWorkerLost(w, b) PROVE BulkInv'
<1>1. BulkTypes
  BY DEF BulkInv
<1>2. PICK p : p = bulkWorker[w].at
  OBVIOUS
<1>3. bulkWorker[w] # BulkIdle /\ bulkWorker[w].job = b
  BY DEF BulkWorkerLost
<1>4. p \in BulkPlaces /\ bulkWorker[w] = At(b, p)
  <2>1. bulkWorker[w] \in Deliveries
    BY <1>1, <1>3 DEF BulkTypes
  <2> QED BY <2>1, <1>2, <1>3 DEF Deliveries, At
<1>5. /\ BulkFault /\ bulkMsgs' = [bulkMsgs EXCEPT ![b] = @ + 1]
      /\ bulkWorker' = [bulkWorker EXCEPT ![w] = BulkIdle] /\ UNCHANGED <<bulkHolds, bulkRetried>>
  BY DEF BulkWorkerLost
<1>6. WorkerGoes(w, b, BulkIdle)
  BY <1>1, <1>4, <1>5, Goes
<1>7. Sends(b)
  BY <1>1, <1>5, Redelivered
<1>8. bulkFaults' > 0
  BY <1>1, <1>5 DEF BulkFault, BulkTypes
<1>9. CASE p = "executing"
  <2>1. /\ bulkJobs' = [bulkJobs EXCEPT ![b] = bulkBefore[b].job]
        /\ bulkRows' = [bulkRows EXCEPT ![b] = bulkBefore[b].rows]
        /\ bulkBefore' = [bulkBefore EXCEPT ![b] = BulkCommitted]
    BY <1>2, <1>9 DEF BulkWorkerLost
  <2> QED BY <1>4, <1>5, <1>6, <1>7, <1>8, <1>9, <2>1, Apart, RolledBack
<1>10. CASE p # "executing"
  <2>1. UNCHANGED <<bulkJobs, bulkRows, bulkBefore>>
    BY <1>2, <1>10 DEF BulkWorkerLost
  <2>2. bulkWorker[w] # At(b, "executing")
    BY <1>4, <1>10, AtFacts, PlaceNames
  <2>3. bulkJobs[b].state # "NONE"
    BY <1>4, Attended
  <2>4. Served(b)'
    BY <1>8, SentServes
  <2> QED BY <1>5, <1>6, <1>7, <2>1, <2>2, <2>3, <2>4, Apart, Moved DEF Sends
<1> QED BY <1>9, <1>10

-----------------------------------------------------------------------------
(* Theorems.                                                               *)

LEMMA BulkInitially == ASSUME BulkInit PROVE BulkInv
<1>1. NoBulkJob \in JobRecords /\ NoBulkJob.state = "NONE" /\ NoBulkJob.kill = FALSE
      /\ NoBulkJob.actual = 0 /\ NoBulkJob.held = 0 /\ NoBulkJob.processed = 0
  BY DEF NoBulkJob, JobRecords, BulkStates
<1>2. BulkTypes
  BY <1>1 DEF BulkInit, BulkTypes, BulkTables, HoldRecords
<1>3. ASSUME NEW b \in BulkIds PROVE OkFor(b)
  <2>1. /\ bulkJobs[b] = NoBulkJob /\ bulkRows[b] = <<>> /\ bulkBefore[b] = BulkCommitted
        /\ bulkMsgs[b] = 0 /\ bulkRetried = {} /\ \A w \in BulkWorkers : bulkWorker[w] = BulkIdle
    BY DEF BulkInit
  <2>2. bulkHolds[b].state = "NONE"
    BY DEF BulkInit
  <2>3. BulkUnlocked(b) /\ CommittedJob(b) = NoBulkJob /\ CommittedRows(b) = <<>>
    BY <2>1 DEF BulkUnlocked, CommittedJob, CommittedRows
  <2>4. JobOk(NoBulkJob, <<>>)
    <3>1. <<>> \in BulkTables /\ RowCosts(<<>>) = 0 /\ Reserved(<<>>) = 0
      BY NoRows, NothingReserved
    <3>2. RowsOk(<<>>) /\ Ran(<<>>)
      BY DEF RowsOk, Ran
    <3>3. Cardinality(WorkedRows(<<>>)) \in Nat
      BY <3>1, Counts
    <3> QED BY <1>1, <3>1, <3>2, <3>3, Limits DEF JobOk, SumsOk, ProgressOk
  <2>5. LockOk(b)
    BY <2>1, <2>3, NoRows, Apart DEF LockOk
  <2>6. HoldOk(b)
    BY <1>1, <2>2, <2>3 DEF HoldOk, HoldRule
  <2>7. NotCreated(b)
    BY <2>1, <2>3, Apart DEF NotCreated
  <2>8. Served(b)
    BY <1>1, <2>1 DEF Served, WaitingStates
  <2> QED BY <2>1, <2>4, <2>5, <2>6, <2>7, <2>8 DEF OkFor
<1> QED BY <1>2, <1>3 DEF BulkInv

LEMMA BulkStep == ASSUME BulkInv, [BulkNext]_bulkVars PROVE BulkInv'
<1>1. CASE UNCHANGED bulkVars
  BY <1>1 DEF bulkVars, BulkInv, BulkTypes, OkFor, LockOk, HoldOk, NotCreated, Served, BulkUnlocked,
              CommittedJob, CommittedRows
<1>2. ASSUME NEW b \in BulkIds, BulkRequest(b) PROVE BulkInv'
  BY <1>2, StepCreate, StepPause, StepResume, StepCancel, StepRetry, StepApprove DEF BulkRequest
<1>3. ASSUME NEW b \in BulkIds, NEW w \in BulkWorkers, BulkRun(w, b) PROVE BulkInv'
  BY <1>3, StepBegins, StepMaterialize, StepRaises, StepNotReady, StepUnavailable, StepExecutes,
     StepAuthorizes, StepRecords, StepReturns, StepExecutorRaises, StepPersists, StepLost DEF BulkRun
<1> QED BY <1>1, <1>2, <1>3 DEF BulkNext

LEMMA BulkAlways == BulkSpec => []BulkInv
BY BulkInitially, BulkStep, PTL DEF BulkSpec

\* What is committed agrees, whoever holds the job.
LEMMA AsCommitted ==
  ASSUME BulkInv, NEW b \in BulkIds
  PROVE  /\ CommittedJob(b) \in JobRecords /\ CommittedRows(b) \in BulkTables
         /\ JobOk(CommittedJob(b), CommittedRows(b))
<1>1. BulkTypes /\ OkFor(b)
  BY DEF BulkInv
<1>2. CASE BulkUnlocked(b)
  <2>1. CommittedJob(b) = bulkJobs[b] /\ CommittedRows(b) = bulkRows[b]
    BY <1>2 DEF CommittedJob, CommittedRows
  <2>2. bulkJobs[b] \in JobRecords /\ bulkRows[b] \in BulkTables
    BY <1>1 DEF BulkTypes
  <2>3. JobOk(bulkJobs[b], bulkRows[b])
    BY <1>1, <1>2 DEF OkFor, LockOk
  <2> QED BY <2>1, <2>2, <2>3
<1>3. CASE ~BulkUnlocked(b)
  <2>1. CommittedJob(b) = bulkBefore[b].job /\ CommittedRows(b) = bulkBefore[b].rows
    BY <1>3 DEF CommittedJob, CommittedRows
  <2>2. bulkBefore[b] \in Snapshots
    BY <1>1, <1>3 DEF BulkTypes, BulkUnlocked
  <2>3. RunOk(bulkJobs[b], bulkRows[b], bulkBefore[b])
    BY <1>1, <1>3 DEF OkFor, LockOk
  <2> QED BY <2>1, <2>2, <2>3 DEF Snapshots, RunOk
<1> QED BY <1>2, <1>3

\* Of equal rows at most one is ever executed.
LEMMA ExecutedOnce ==
  ASSUME BulkInv, NEW b \in BulkIds, NEW i \in DOMAIN bulkRows[b], NEW k \in DOMAIN bulkRows[b],
         i < k, BulkInput[i].digest = BulkInput[k].digest
  PROVE  bulkRows[b][k].attempt = 0
<1>1. PICK rows : rows = bulkRows[b]
  OBVIOUS
<1>2. rows \in BulkTables /\ RowsOk(rows) /\ i \in DOMAIN rows /\ k \in DOMAIN rows
  BY <1>1 DEF BulkInv, BulkTypes, OkFor, JobOk
<1>3. i \in 1..BulkTarget /\ k \in 1..BulkTarget /\ rows[k].attempt \in Nat
  BY <1>2, RowTypes
<1>4. i \in 1..(k - 1)
  BY <1>3, Limits
<1>5. MaterializedState(k) # "READY"
  BY <1>4 DEF MaterializedState
<1>6. ~(rows[k].attempt > 0)
  BY <1>2, <1>5 DEF RowsOk, RowOk
<1> QED BY <1>1, <1>3, <1>6

\* The invariant implies what bulk jobs promise.
LEMMA PromiseFollows == ASSUME BulkInv PROVE BulkPromise
<1>1. BulkTypes /\ \A b \in BulkIds : OkFor(b)
  BY DEF BulkInv
<1>2. BulkTypeOK
  <2>1. ASSUME NEW b \in BulkIds
        PROVE  /\ bulkJobs[b].state \in JobStates \cup {"NONE"}
               /\ bulkJobs[b].held \in 0..BulkMaximum
               /\ bulkJobs[b].processed \in 0..BulkTarget
    <3>1. PICK job : job = bulkJobs[b]
      OBVIOUS
    <3>2. job \in JobRecords /\ JobOk(job, bulkRows[b])
      BY <1>1, <3>1 DEF BulkTypes, OkFor
    <3>3. job.state \in BulkStates /\ job.held \in Nat /\ job.processed \in Nat
      BY <3>2, JobTypes
    <3>4. job.held <= BulkMaximum /\ job.processed <= BulkTarget
      BY <3>2 DEF JobOk, SumsOk, ProgressOk
    <3>5. BulkStates \subseteq JobStates \cup {"NONE"}
      BY DEF BulkStates, JobStates, ALLOWED_JOB_TRANSITIONS
    <3> QED BY <3>1, <3>3, <3>4, <3>5, Limits
  <2>2. ASSUME NEW b \in BulkIds
        PROVE  bulkHolds[b].state \in {"NONE", "HELD", "FINALIZED", "RELEASED"}
    BY <1>1 DEF BulkTypes, HoldRecords
  <2>3. ASSUME NEW b \in BulkIds, NEW i \in DOMAIN bulkRows[b]
        PROVE  /\ bulkRows[b][i].state \in BulkRowStates
               /\ bulkRows[b][i].attempt \in 0..BulkRowAttempts
               /\ bulkRows[b][i].state = "PROCESSING" => bulkRows[b][i].attempt < BulkRowAttempts
    <3>1. PICK rows : rows = bulkRows[b]
      OBVIOUS
    <3>2. rows \in BulkTables /\ RowsOk(rows) /\ i \in DOMAIN rows
      BY <1>1, <3>1 DEF BulkTypes, OkFor, JobOk
    <3>3. rows[i].state \in BulkRowStates /\ rows[i].attempt \in Nat
      BY <3>2, RowTypes
    <3>4. RowOk(i, rows[i])
      BY <3>2 DEF RowsOk
    <3> QED BY <3>1, <3>3, <3>4, Limits DEF RowOk, OpenRowStates
  <2>4. bulkMsgs \in [BulkIds -> Nat]
    BY <1>1 DEF BulkTypes
  <2> QED BY <2>1, <2>2, <2>3, <2>4 DEF BulkTypeOK
<1>3. BulkHoldFollowsJob
  <2>1. ASSUME NEW b \in BulkIds
        PROVE  IF CommittedJob(b).state = "NONE" THEN bulkHolds[b].state = "NONE"
               ELSE IF CommittedJob(b).state \notin TERMINAL_JOB_STATES
                    THEN bulkHolds[b].state = "HELD"
               ELSE IF CommittedJob(b).state = "SUCCEEDED"
                    THEN bulkHolds[b].state = "FINALIZED" \/ CommittedJob(b).kill
               ELSE bulkHolds[b].state = "RELEASED"
    <3>1. PICK job : job = CommittedJob(b)
      OBVIOUS
    <3>2. HoldRule(job, CommittedRows(b), bulkHolds[b]) /\ job.state \in BulkStates
      BY <1>1, <3>1, AsCommitted, JobTypes DEF OkFor, HoldOk
    <3> QED BY <3>1, <3>2 DEF HoldRule, TERMINAL_JOB_STATES, BulkStates
  <2> QED BY <2>1 DEF BulkHoldFollowsJob
<1>4. ChargedForRows
  <2>1. ASSUME NEW b \in BulkIds
        PROVE  /\ CommittedJob(b).actual = RowCosts(CommittedRows(b))
               /\ bulkHolds[b].state = "FINALIZED" =>
                    /\ bulkHolds[b].charged <= BulkMaximum
                    /\ bulkHolds[b].charged = RowCosts(CommittedRows(b))
                    /\ \A i \in 1..BulkTarget :
                         MaterializedState(i) = "READY" => CommittedRows(b)[i].attempt > 0
    <3>1. CommittedJob(b).actual = RowCosts(CommittedRows(b))
      BY AsCommitted DEF JobOk, SumsOk
    <3>2. HoldRule(CommittedJob(b), CommittedRows(b), bulkHolds[b])
      BY <1>1 DEF OkFor, HoldOk
    <3> QED BY <3>1, <3>2 DEF HoldRule, Worked
  <2> QED BY <2>1 DEF ChargedForRows
<1>5. RunningRowsAreHeld
  <2>1. ASSUME NEW b \in BulkIds
        PROVE  /\ bulkJobs[b].held >= Reserved(bulkRows[b])
               /\ CommittedJob(b).held >= Reserved(CommittedRows(b))
               /\ bulkHolds[b].state = "FINALIZED" => CommittedJob(b).held = 0
    <3>1. bulkJobs[b].held >= Reserved(bulkRows[b])
      BY <1>1 DEF OkFor, JobOk, SumsOk
    <3>2. CommittedJob(b).held >= Reserved(CommittedRows(b))
      BY AsCommitted DEF JobOk, SumsOk
    <3>3. HoldRule(CommittedJob(b), CommittedRows(b), bulkHolds[b])
      BY <1>1 DEF OkFor, HoldOk
    <3> QED BY <3>1, <3>2, <3>3 DEF HoldRule
  <2> QED BY <2>1 DEF RunningRowsAreHeld
<1>6. RepeatedRowsNotExecuted
  <2>1. ASSUME NEW b \in BulkIds, NEW i \in DOMAIN bulkRows[b], NEW k \in DOMAIN bulkRows[b], i # k,
               BulkInput[i].digest = BulkInput[k].digest
        PROVE  bulkRows[b][i].attempt = 0 \/ bulkRows[b][k].attempt = 0
    <3>1. bulkRows[b] \in BulkTables
      BY <1>1 DEF BulkTypes
    <3>2. i \in 1..BulkTarget /\ k \in 1..BulkTarget
      BY <3>1, RowTypes
    <3>3. i < k \/ k < i
      BY <2>1, <3>2, Limits
    <3> QED BY <2>1, <3>3, ExecutedOnce
  <2> QED BY <2>1 DEF RepeatedRowsNotExecuted
<1>7. NoBulkJobForgotten
  <2>1. ASSUME NEW b \in BulkIds,
               \/ bulkJobs[b].state = "CANCEL_REQUESTED"
               \/ bulkJobs[b].state \in {"QUEUED", "WAITING_INPUT", "VALIDATING"} /\ ~bulkJobs[b].pause
        PROVE  \/ bulkMsgs[b] > 0 \/ bulkFaults > 0
               \/ \E w \in BulkWorkers : bulkWorker[w] # BulkIdle /\ bulkWorker[w].job = b
    <3>1. ASSUME NEW w \in BulkWorkers, NEW p \in BulkPlaces, bulkWorker[w] = At(b, p)
          PROVE  bulkWorker[w] # BulkIdle /\ bulkWorker[w].job = b
      <4>1. At(b, p).job = b
        BY DEF At
      <4> QED BY <3>1, <4>1, AtFacts
    <3>2. CASE BulkUnlocked(b)
      <4>1. Served(b)
        BY <1>1 DEF OkFor
      <4> QED BY <2>1, <3>1, <3>2, <4>1, PlaceNames DEF Served, WaitingStates
    <3>3. CASE ~BulkUnlocked(b)
      <4>1. PICK w \in BulkWorkers : bulkWorker[w] = At(b, "executing")
        BY <1>1, <3>3 DEF OkFor, LockOk
      <4> QED BY <3>1, <4>1, PlaceNames
    <3> QED BY <3>2, <3>3
  <2> QED BY <2>1 DEF NoBulkJobForgotten
<1> QED BY <1>2, <1>3, <1>4, <1>5, <1>6, <1>7 DEF BulkPromise

\* Bulk jobs keep their promise, for any number of jobs, rows, workers and messages:
\* the charge is the cost of the rows that ran and lies within the budget, no row runs
\* twice, nothing stays held between runs, and a job that waits has a message or a
\* worker (domain/bulk/tasks.py _run_job, service.py record_row_attempt, retry_rows).
THEOREM BulkKeepsItsPromise == BulkSpec => []BulkPromise
<1>1. BulkInv => BulkPromise
  BY PromiseFollows
<1> QED BY <1>1, BulkAlways, PTL

-----------------------------------------------------------------------------
(* What no step takes back.                                                *)

RowsKept(old, new) == \A i \in DOMAIN old : old[i].approved => new[i] = old[i]

EndKept(from, to) ==
  /\ from \in TERMINAL_JOB_STATES => to = from
  /\ from = "CANCEL_REQUESTED" => to \in {from, "CANCELLED"}

Keeps == ApprovedRowsKept /\ BulkEndIsFinal

\* A step that keeps what is committed of one job keeps everything.
LEMMA OneKept ==
  ASSUME BulkTypes, NEW b \in BulkIds, NEW j, NEW r, NEW n,
         bulkJobs' = [bulkJobs EXCEPT ![b] = j], bulkRows' = [bulkRows EXCEPT ![b] = r],
         bulkBefore' = [bulkBefore EXCEPT ![b] = n],
         RowsKept(CommittedRows(b), IF n = BulkCommitted THEN r ELSE n.rows),
         EndKept(CommittedJob(b).state, (IF n = BulkCommitted THEN j ELSE n.job).state)
  PROVE  Keeps
<1>1. bulkJobs'[b] = j /\ bulkRows'[b] = r /\ bulkBefore'[b] = n
  BY DEF BulkTypes
<1>2. ASSUME NEW c \in BulkIds, c # b
      PROVE  bulkJobs'[c] = bulkJobs[c] /\ bulkRows'[c] = bulkRows[c] /\ bulkBefore'[c] = bulkBefore[c]
  BY <1>2 DEF BulkTypes
<1>3. /\ CommittedRows(b)' = IF n = BulkCommitted THEN r ELSE n.rows
      /\ CommittedJob(b)' = IF n = BulkCommitted THEN j ELSE n.job
  BY <1>1 DEF CommittedRows, CommittedJob, BulkUnlocked
<1>4. ASSUME NEW c \in BulkIds, c # b
      PROVE  CommittedRows(c)' = CommittedRows(c) /\ CommittedJob(c)' = CommittedJob(c)
  BY <1>2, <1>4 DEF CommittedRows, CommittedJob, BulkUnlocked
<1>5. ASSUME NEW c \in BulkIds
      PROVE  /\ RowsKept(CommittedRows(c), CommittedRows(c)')
             /\ EndKept(CommittedJob(c).state, CommittedJob(c)'.state)
  <2>1. CASE c = b
    BY <1>3, <2>1
  <2>2. CASE c # b
    BY <1>4, <2>2 DEF RowsKept, EndKept
  <2> QED BY <2>1, <2>2
<1>6. ApprovedRowsKept
  BY <1>5 DEF ApprovedRowsKept, RowsKept
<1>7. BulkEndIsFinal
  BY <1>5 DEF BulkEndIsFinal, EndKept
<1> QED BY <1>6, <1>7 DEF Keeps

\* Nothing is committed by this step.
LEMMA AllKept ==
  ASSUME BulkTypes, UNCHANGED <<bulkJobs, bulkRows, bulkBefore>> PROVE Keeps
<1>1. ASSUME NEW c \in BulkIds
      PROVE  CommittedRows(c)' = CommittedRows(c) /\ CommittedJob(c)' = CommittedJob(c)
  BY DEF CommittedRows, CommittedJob, BulkUnlocked
<1>2. ApprovedRowsKept
  BY <1>1 DEF ApprovedRowsKept
<1>3. BulkEndIsFinal
  BY <1>1 DEF BulkEndIsFinal
<1> QED BY <1>2, <1>3 DEF Keeps

\* A step on a job no run holds.
LEMMA OpenKept ==
  ASSUME BulkTypes, NEW b \in BulkIds, BulkUnlocked(b), NEW j, NEW r,
         bulkJobs' = [bulkJobs EXCEPT ![b] = j], bulkRows' = [bulkRows EXCEPT ![b] = r],
         bulkBefore' = bulkBefore, RowsKept(bulkRows[b], r), EndKept(bulkJobs[b].state, j.state)
  PROVE  Keeps
<1>1. bulkBefore' = [bulkBefore EXCEPT ![b] = BulkCommitted]
  BY Unwritten DEF BulkUnlocked
<1>2. CommittedRows(b) = bulkRows[b] /\ CommittedJob(b) = bulkJobs[b]
  BY DEF CommittedRows, CommittedJob
<1> QED BY <1>1, <1>2, OneKept

\* A step inside a run's transaction.
LEMMA RunKept ==
  ASSUME BulkInv, NEW w \in BulkWorkers, NEW b \in BulkIds, bulkWorker[w] = At(b, "executing"),
         \A c \in BulkIds : c # b => bulkJobs'[c] = bulkJobs[c] /\ bulkRows'[c] = bulkRows[c],
         bulkBefore' = bulkBefore
  PROVE  Keeps
<1>1. ~BulkUnlocked(b)
  BY Running
<1>2. ASSUME NEW c \in BulkIds
      PROVE  CommittedRows(c)' = CommittedRows(c) /\ CommittedJob(c)' = CommittedJob(c)
  <2>1. CASE c = b
    BY <1>1, <2>1 DEF CommittedRows, CommittedJob, BulkUnlocked
  <2>2. CASE c # b
    BY <2>2 DEF CommittedRows, CommittedJob, BulkUnlocked
  <2> QED BY <2>1, <2>2
<1>3. ApprovedRowsKept
  BY <1>2 DEF ApprovedRowsKept
<1>4. BulkEndIsFinal
  BY <1>2 DEF BulkEndIsFinal
<1> QED BY <1>3, <1>4 DEF Keeps

LEMMA SameKept == (\A rows : RowsKept(rows, rows)) /\ (\A s : EndKept(s, s))
BY DEF RowsKept, EndKept

\* Ending the open rows keeps the approved ones.
LEMMA MovedKept ==
  ASSUME NEW rows \in BulkTables, RowsOk(rows), NEW from, from \subseteq OpenRowStates, NEW to
  PROVE  RowsKept(rows, RowsTo(rows, from, to))
<1>1. ASSUME NEW i \in DOMAIN rows, rows[i].approved PROVE RowsTo(rows, from, to)[i] = rows[i]
  <2>1. rows[i].state = "APPROVED"
    BY <1>1 DEF RowsOk, RowOk
  <2>2. rows[i].state \notin from
    BY <2>1 DEF OpenRowStates
  <2> QED BY <2>2 DEF RowsTo
<1> QED BY <1>1 DEF RowsKept

\* So does a failure, and it ends no job that is over or asked to stop.
LEMMA FailureKeeps ==
  ASSUME NEW job \in JobRecords, NEW rows \in BulkTables, JobOk(job, rows)
  PROVE  /\ RowsKept(rows, FailedRows(job, rows))
         /\ EndKept(job.state, FailedJob(job, rows).state)
<1>1. PICK j : j = FailedJob(job, rows)
  OBVIOUS
<1>2. PICK r : r = FailedRows(job, rows)
  OBVIOUS
<1>3. /\ FailsFrom(job.state) => j.state = "FINAL_FAILED"
      /\ ~FailsFrom(job.state) => j = job
      /\ \A i \in DOMAIN rows : rows[i].approved => r[i] = rows[i]
  BY <1>1, <1>2, Failed
<1>4. EndKept(job.state, j.state)
  BY <1>3 DEF EndKept, FailsFrom, TERMINAL_JOB_STATES
<1> QED BY <1>1, <1>2, <1>3, <1>4 DEF RowsKept

LEMMA KeepsCreate == ASSUME BulkInv, NEW b \in BulkIds, CreateBulkJob(b) PROVE Keeps
<1>1. BulkTypes
  BY DEF BulkInv
<1>2. bulkJobs[b].state = "NONE"
  BY DEF CreateBulkJob, NoBulkJob
<1>3. BulkUnlocked(b)
  BY <1>2 DEF BulkInv, OkFor, NotCreated
<1>4. PICK j : j = [bulkJobs[b] EXCEPT !.state = "QUEUED"]
  OBVIOUS
<1>5. bulkJobs' = [bulkJobs EXCEPT ![b] = j] /\ bulkRows' = bulkRows /\ bulkBefore' = bulkBefore
  BY <1>4 DEF CreateBulkJob
<1>6. bulkRows' = [bulkRows EXCEPT ![b] = bulkRows[b]]
  BY <1>1, <1>5, Unwritten
<1>7. EndKept(bulkJobs[b].state, j.state)
  BY <1>2 DEF EndKept, TERMINAL_JOB_STATES
<1> QED BY <1>1, <1>3, <1>5, <1>6, <1>7, SameKept, OpenKept

\* A request for an open job writes the job only.
LEMMA CommandKeeps ==
  ASSUME BulkInv, NEW b \in BulkIds, Commandable(b), NEW j, bulkJobs' = [bulkJobs EXCEPT ![b] = j],
         UNCHANGED <<bulkRows, bulkBefore>>, j.state \in {bulkJobs[b].state, "CANCEL_REQUESTED"}
  PROVE  Keeps
<1>1. BulkTypes
  BY DEF BulkInv
<1>2. BulkUnlocked(b) /\ bulkJobs[b].state \notin TERMINAL_JOB_STATES
  BY DEF Commandable
<1>3. bulkRows' = [bulkRows EXCEPT ![b] = bulkRows[b]]
  BY <1>1, Unwritten
<1>4. EndKept(bulkJobs[b].state, j.state)
  BY <1>2 DEF EndKept
<1> QED BY <1>1, <1>2, <1>3, <1>4, SameKept, OpenKept

LEMMA KeepsPause == ASSUME BulkInv, NEW b \in BulkIds, PauseBulkJob(b) PROVE Keeps
<1>1. bulkJobs[b] \in JobRecords
  BY DEF BulkInv, BulkTypes
<1>2. PICK j : j = [bulkJobs[b] EXCEPT !.pause = TRUE]
  OBVIOUS
<1>3. bulkJobs' = [bulkJobs EXCEPT ![b] = j] /\ j.state = bulkJobs[b].state
  BY <1>1, <1>2 DEF PauseBulkJob, JobRecords
<1> QED BY <1>3, CommandKeeps DEF PauseBulkJob

LEMMA KeepsResume == ASSUME BulkInv, NEW b \in BulkIds, ResumeBulkJob(b) PROVE Keeps
<1>1. bulkJobs[b] \in JobRecords
  BY DEF BulkInv, BulkTypes
<1>2. PICK j : j = [bulkJobs[b] EXCEPT !.pause = FALSE]
  OBVIOUS
<1>3. bulkJobs' = [bulkJobs EXCEPT ![b] = j] /\ j.state = bulkJobs[b].state
  BY <1>1, <1>2 DEF ResumeBulkJob, JobRecords
<1> QED BY <1>3, CommandKeeps DEF ResumeBulkJob

LEMMA KeepsCancel == ASSUME BulkInv, NEW b \in BulkIds, CancelBulkJob(b) PROVE Keeps
<1>1. bulkJobs[b] \in JobRecords /\ BulkTypes
  BY DEF BulkInv, BulkTypes
<1>2. Commandable(b) /\ UNCHANGED <<bulkRows, bulkBefore>>
  BY DEF CancelBulkJob
<1>3. CASE bulkJobs' = bulkJobs
  BY <1>1, <1>2, <1>3, AllKept
<1>4. CASE bulkJobs' = [bulkJobs EXCEPT ![b].state = "CANCEL_REQUESTED", ![b].pause = TRUE]
  <2>1. PICK j : j = [bulkJobs[b] EXCEPT !.state = "CANCEL_REQUESTED", !.pause = TRUE]
    OBVIOUS
  <2>2. bulkJobs' = [bulkJobs EXCEPT ![b] = j] /\ j.state = "CANCEL_REQUESTED"
    BY <1>1, <1>4, <2>1 DEF JobRecords
  <2> QED BY <1>2, <2>2, CommandKeeps
<1> QED BY <1>3, <1>4 DEF CancelBulkJob

\* One row of a job no run holds is written.
LEMMA RowKept ==
  ASSUME NEW rows \in BulkTables, NEW i \in DOMAIN rows, NEW row, rows[i].approved => row = rows[i]
  PROVE  RowsKept(rows, [rows EXCEPT ![i] = row])
BY DEF RowsKept

LEMMA KeepsRetry == ASSUME BulkInv, NEW b \in BulkIds, RetryRows(b) PROVE Keeps
<1>1. BulkTypes
  BY DEF BulkInv
<1>2. CASE UNCHANGED <<bulkJobs, bulkRows, bulkBefore>>
  BY <1>1, <1>2, AllKept
<1>3. ASSUME NEW i \in DOMAIN bulkRows[b], NEW regenerate \in BOOLEAN,
             Commandable(b), RowMayRetry(bulkRows[b][i]),
             bulkRows' = [bulkRows EXCEPT ![b][i].state = "QUEUED",
                                          ![b][i].passed = @ /\ ~regenerate],
             UNCHANGED <<bulkJobs, bulkBefore>>
      PROVE  Keeps
  <2>1. PICK row : row = [bulkRows[b][i] EXCEPT !.state = "QUEUED", !.passed = @ /\ ~regenerate]
    OBVIOUS
  <2>2. PICK r : r = [bulkRows[b] EXCEPT ![i] = row]
    OBVIOUS
  <2>3. bulkRows' = [bulkRows EXCEPT ![b] = r]
    BY <1>3, <2>1, <2>2
  <2>4. ~bulkRows[b][i].approved /\ BulkUnlocked(b)
    BY <1>3 DEF RowMayRetry, Commandable
  <2>5. RowsKept(bulkRows[b], r)
    BY <1>1, <2>2, <2>4, RowKept, Unwritten
  <2>6. bulkJobs' = [bulkJobs EXCEPT ![b] = bulkJobs[b]]
    BY <1>1, <1>3, Unwritten
  <2> QED BY <1>1, <1>3, <2>3, <2>4, <2>5, <2>6, SameKept, OpenKept
<1> QED BY <1>2, <1>3 DEF RetryRows

LEMMA KeepsApprove == ASSUME BulkInv, NEW b \in BulkIds, ApproveRows(b) PROVE Keeps
<1>1. BulkTypes
  BY DEF BulkInv
<1>2. PICK i \in DOMAIN bulkRows[b] :
        /\ BulkUnlocked(b) /\ bulkRows[b][i].passed /\ ~bulkRows[b][i].blocked
        /\ bulkRows' = [bulkRows EXCEPT ![b][i].state = "APPROVED", ![b][i].approved = TRUE]
        /\ bulkJobs' = [bulkJobs EXCEPT ![b] = RefreshProgress(@, bulkRows'[b])]
        /\ UNCHANGED <<bulkHolds, bulkBefore, bulkWorker, bulkMsgs, bulkRetried, bulkFaults>>
  BY DEF ApproveRows
<1>3. PICK old : old = bulkRows[b][i]
  OBVIOUS
<1>4. PICK row : row = [old EXCEPT !.state = "APPROVED", !.approved = TRUE]
  OBVIOUS
<1>5. PICK r : r = [bulkRows[b] EXCEPT ![i] = row]
  OBVIOUS
<1>6. bulkRows' = [bulkRows EXCEPT ![b] = r]
  BY <1>2, <1>3, <1>4, <1>5
<1>7. PICK j : j = RefreshProgress(bulkJobs[b], bulkRows'[b])
  OBVIOUS
<1>8. bulkJobs' = [bulkJobs EXCEPT ![b] = j] /\ bulkBefore' = bulkBefore
  BY <1>2, <1>7
<1>9. j.state = bulkJobs[b].state
  <2>1. bulkJobs[b] \in JobRecords
    BY <1>1 DEF BulkTypes
  <2> QED BY <1>7, <2>1 DEF RefreshProgress, JobRecords
<1>10. old.approved => row = old
  <2>1. RowOk(i, old) /\ old \in BulkRowRecords
    BY <1>1, <1>2, <1>3, Unheld, Unwritten, RowTypes DEF JobOk, RowsOk
  <2>2. ASSUME old.approved PROVE old.state = "APPROVED" /\ old.approved = TRUE
    BY <2>1, <2>2 DEF RowOk, BulkRowRecords
  <2> QED BY <1>4, <2>1, <2>2 DEF BulkRowRecords
<1>11. RowsKept(bulkRows[b], r)
  BY <1>1, <1>3, <1>5, <1>10, RowKept, Unwritten
<1> QED BY <1>1, <1>2, <1>6, <1>8, <1>9, <1>11, SameKept, OpenKept

LEMMA KeepsMaterialize ==
  ASSUME BulkInv, NEW w \in BulkWorkers, NEW b \in BulkIds, MaterializeRows(w, b) PROVE Keeps
<1>1. BulkTypes
  BY DEF BulkInv
<1>2. BulkUnlocked(b) /\ bulkBefore' = bulkBefore
  BY DEF MaterializeRows
<1>3. CASE UNCHANGED <<bulkJobs, bulkRows>>
  BY <1>1, <1>2, <1>3, AllKept
<1>4. CASE /\ bulkRows' = [bulkRows EXCEPT ![b] =
                IF @ = <<>> THEN [i \in 1..BulkTarget |-> MaterializedRow(i)] ELSE @]
           /\ bulkJobs' = [bulkJobs EXCEPT ![b] = RefreshProgress(@, bulkRows'[b])]
  <2>1. PICK r : r = IF bulkRows[b] = <<>> THEN [i \in 1..BulkTarget |-> MaterializedRow(i)]
                     ELSE bulkRows[b]
    OBVIOUS
  <2>2. PICK j : j = RefreshProgress(bulkJobs[b], bulkRows'[b])
    OBVIOUS
  <2>3. bulkRows' = [bulkRows EXCEPT ![b] = r] /\ bulkJobs' = [bulkJobs EXCEPT ![b] = j]
    BY <1>4, <2>1, <2>2
  <2>4. j.state = bulkJobs[b].state
    <3>1. bulkJobs[b] \in JobRecords
      BY <1>1 DEF BulkTypes
    <3> QED BY <2>2, <3>1 DEF RefreshProgress, JobRecords
  <2>5. RowsKept(bulkRows[b], r)
    BY <2>1 DEF RowsKept
  <2> QED BY <1>1, <1>2, <2>3, <2>4, <2>5, SameKept, OpenKept
<1> QED BY <1>3, <1>4 DEF MaterializeRows

LEMMA KeepsNotReady ==
  ASSUME BulkInv, NEW w \in BulkWorkers, NEW b \in BulkIds, PrepareNotReady(w, b) PROVE Keeps
<1>1. BulkTypes
  BY DEF BulkInv
<1>2. BulkUnlocked(b) /\ bulkBefore' = bulkBefore
  BY DEF PrepareNotReady
<1>3. PICK job : job = bulkJobs[b]
  OBVIOUS
<1>4. PICK rows : rows = bulkRows[b]
  OBVIOUS
<1>5. PICK j : j = PreparedJob(b)
  OBVIOUS
<1>6. bulkJobs' = [bulkJobs EXCEPT ![b] = j]
  BY <1>5 DEF PrepareNotReady
<1>7. job \in JobRecords /\ rows \in BulkTables /\ RowsOk(rows)
  BY <1>1, <1>3, <1>4 DEF BulkInv, BulkTypes, OkFor, JobOk
<1>8. CASE job.state = "CANCEL_REQUESTED"
  <2>1. PICK r : r = RowsTo(rows, {"READY", "QUEUED"}, "CANCELLED")
    OBVIOUS
  <2>2. bulkRows' = [bulkRows EXCEPT ![b] = r]
    BY <1>3, <1>4, <1>8, <2>1 DEF PrepareNotReady
  <2>3. PICK k : k = [job EXCEPT !.state = "CANCELLED"]
    OBVIOUS
  <2>4. j = RefreshProgress(k, rows)
    BY <1>3, <1>4, <1>5, <1>8, <2>3 DEF PreparedJob, TERMINAL_JOB_STATES
  <2>5. k \in JobRecords /\ k.state = "CANCELLED"
    BY <1>7, <2>3 DEF JobRecords, BulkStates
  <2>6. j.state = "CANCELLED"
    BY <2>4, <2>5 DEF RefreshProgress, JobRecords
  <2>7. EndKept(job.state, j.state)
    BY <1>8, <2>6 DEF EndKept, TERMINAL_JOB_STATES
  <2>8. {"READY", "QUEUED"} \subseteq OpenRowStates
    BY DEF OpenRowStates
  <2>9. RowsKept(rows, r)
    BY <1>7, <2>1, <2>8, MovedKept
  <2> QED BY <1>1, <1>2, <1>3, <1>4, <1>6, <2>2, <2>7, <2>9, OpenKept
<1>9. CASE job.state # "CANCEL_REQUESTED"
  <2>1. bulkRows' = [bulkRows EXCEPT ![b] = rows]
    BY <1>1, <1>3, <1>4, <1>9, Unwritten DEF PrepareNotReady
  <2>2. job.state \in TERMINAL_JOB_STATES => j = job
    BY <1>3, <1>5 DEF PreparedJob
  <2>3. EndKept(job.state, j.state)
    BY <1>9, <2>2 DEF EndKept
  <2> QED BY <1>1, <1>2, <1>3, <1>4, <1>6, <2>1, <2>3, SameKept, OpenKept
<1> QED BY <1>8, <1>9

LEMMA KeepsUnavailable ==
  ASSUME BulkInv, NEW w \in BulkWorkers, NEW b \in BulkIds, PrepareUnavailable(w, b) PROVE Keeps
<1>1. BulkTypes
  BY DEF BulkInv
<1>2. BulkUnlocked(b) /\ BulkReady(b) /\ bulkBefore' = bulkBefore /\ bulkWorker[w] = At(b, "prepare")
  BY DEF PrepareUnavailable
<1>3. PICK k : k = [bulkJobs[b] EXCEPT !.state = PreparedState(@)]
  OBVIOUS
<1>4. PICK r : r = FailedRows(k, bulkRows[b])
  OBVIOUS
<1>5. PICK j : j = FailedJob(k, bulkRows[b])
  OBVIOUS
<1>6. bulkJobs' = [bulkJobs EXCEPT ![b] = j] /\ bulkRows' = [bulkRows EXCEPT ![b] = r]
  BY <1>3, <1>4, <1>5 DEF PrepareUnavailable
<1>7. Runnable(bulkJobs[b]) /\ k \in JobRecords /\ JobOk(k, bulkRows[b])
  BY <1>2, <1>3, ReadyFacts, Attended, PlaceNames
<1>8. bulkRows[b] \in BulkTables
  BY <1>1, <1>2, Unheld, Unwritten
<1>9. RowsKept(bulkRows[b], r)
  BY <1>4, <1>7, <1>8, FailureKeeps
<1>10. EndKept(bulkJobs[b].state, j.state)
  BY <1>7 DEF EndKept, Runnable
<1> QED BY <1>1, <1>2, <1>6, <1>9, <1>10, OpenKept

LEMMA KeepsPersists ==
  ASSUME BulkInv, NEW w \in BulkWorkers, NEW b \in BulkIds, PersistBulkFailure(w, b) PROVE Keeps
<1>1. BulkTypes
  BY DEF BulkInv
<1>2. BulkUnlocked(b) /\ bulkBefore' = bulkBefore
  BY DEF PersistBulkFailure
<1>3. PICK job : job = bulkJobs[b]
  OBVIOUS
<1>4. PICK rows : rows = bulkRows[b]
  OBVIOUS
<1>5. PICK r : r = FailedRows(job, rows)
  OBVIOUS
<1>6. PICK j : j = FailedJob(job, rows)
  OBVIOUS
<1>7. bulkJobs' = [bulkJobs EXCEPT ![b] = j] /\ bulkRows' = [bulkRows EXCEPT ![b] = r]
  BY <1>3, <1>4, <1>5, <1>6 DEF PersistBulkFailure
<1>8. job \in JobRecords /\ rows \in BulkTables /\ JobOk(job, rows)
  BY <1>1, <1>2, <1>3, <1>4, Unheld, Unwritten
<1>9. RowsKept(rows, r) /\ EndKept(job.state, j.state)
  BY <1>5, <1>6, <1>8, FailureKeeps
<1> QED BY <1>1, <1>2, <1>3, <1>4, <1>7, <1>9, OpenKept

LEMMA KeepsExecutes ==
  ASSUME BulkInv, NEW w \in BulkWorkers, NEW b \in BulkIds, PrepareExecutes(w, b) PROVE Keeps
<1>1. BulkTypes
  BY DEF BulkInv
<1>2. PICK n : n = [job |-> bulkJobs[b], rows |-> bulkRows[b]]
  OBVIOUS
<1>3. PICK j : j = [bulkJobs[b] EXCEPT !.state = PreparedState(@)]
  OBVIOUS
<1>4. /\ bulkJobs' = [bulkJobs EXCEPT ![b] = j] /\ bulkBefore' = [bulkBefore EXCEPT ![b] = n]
      /\ bulkRows' = bulkRows /\ BulkUnlocked(b)
  BY <1>2, <1>3 DEF PrepareExecutes
<1>5. bulkRows' = [bulkRows EXCEPT ![b] = bulkRows[b]]
  BY <1>1, <1>4, Unwritten
<1>6. n \in Snapshots
  BY <1>1, <1>2, Unwritten DEF Snapshots
<1>7. n # BulkCommitted /\ n.job = CommittedJob(b) /\ n.rows = CommittedRows(b)
  BY <1>2, <1>4, <1>6, Snapshot DEF CommittedJob, CommittedRows
<1>8. RowsKept(CommittedRows(b), IF n = BulkCommitted THEN bulkRows[b] ELSE n.rows)
  BY <1>7, SameKept
<1>9. EndKept(CommittedJob(b).state, (IF n = BulkCommitted THEN j ELSE n.job).state)
  BY <1>7, SameKept
<1> QED BY <1>1, <1>4, <1>5, <1>8, <1>9, OneKept

LEMMA KeepsAuthorizes ==
  ASSUME BulkInv, NEW w \in BulkWorkers, NEW b \in BulkIds, AuthorizeNextRow(w, b) PROVE Keeps
<1>1. BulkTypes
  BY DEF BulkInv
<1>2. bulkWorker[w] = At(b, "executing") /\ bulkBefore' = bulkBefore
  BY DEF AuthorizeNextRow
<1>3. \A c \in BulkIds : c # b => bulkJobs'[c] = bulkJobs[c] /\ bulkRows'[c] = bulkRows[c]
  BY <1>1 DEF AuthorizeNextRow, BulkTypes
<1> QED BY <1>2, <1>3, RunKept

LEMMA KeepsRecords ==
  ASSUME BulkInv, NEW w \in BulkWorkers, NEW b \in BulkIds, RecordRowAttempt(w, b) PROVE Keeps
<1>1. BulkTypes
  BY DEF BulkInv
<1>2. bulkWorker[w] = At(b, "executing") /\ bulkBefore' = bulkBefore
  BY DEF RecordRowAttempt
<1>3. \A c \in BulkIds : c # b => bulkJobs'[c] = bulkJobs[c] /\ bulkRows'[c] = bulkRows[c]
  BY <1>1 DEF RecordRowAttempt, BulkTypes
<1> QED BY <1>2, <1>3, RunKept

\* A run that ends its transaction began with a job that was neither over nor asked
\* to stop, so that any end will do, and has kept the approved rows.
LEMMA EndsKept ==
  ASSUME BulkInv, NEW w \in BulkWorkers, NEW b \in BulkIds, bulkWorker[w] = At(b, "executing"),
         NEW j, NEW r, bulkJobs' = [bulkJobs EXCEPT ![b] = j], bulkRows' = [bulkRows EXCEPT ![b] = r],
         bulkBefore' = [bulkBefore EXCEPT ![b] = BulkCommitted], RowsKept(bulkBefore[b].rows, r)
  PROVE  Keeps
<1>1. BulkTypes
  BY DEF BulkInv
<1>2. ~BulkUnlocked(b) /\ RunOk(bulkJobs[b], bulkRows[b], bulkBefore[b])
  BY Running
<1>3. CommittedJob(b) = bulkBefore[b].job /\ CommittedRows(b) = bulkBefore[b].rows
  BY <1>2 DEF CommittedJob, CommittedRows
<1>4. Runnable(CommittedJob(b))
  BY <1>2, <1>3 DEF RunOk
<1>5. EndKept(CommittedJob(b).state, j.state)
  BY <1>4 DEF Runnable, EndKept
<1>6. RowsKept(CommittedRows(b), r)
  BY <1>3
<1> QED BY <1>1, <1>5, <1>6, OneKept

LEMMA KeepsReturns ==
  ASSUME BulkInv, NEW w \in BulkWorkers, NEW b \in BulkIds, ExecutorReturns(w, b) PROVE Keeps
<1>1. BulkTypes
  BY DEF BulkInv
<1>2. PICK state \in {bulkJobs[b].state, "SUCCEEDED", "WAITING_REVIEW", "RETRYABLE_FAILED"} :
        LET job == [bulkJobs[b] EXCEPT !.state = state]
            stops == job.pause \/ job.kill
            ended == IF stops \/ state # "VALIDATING" THEN job ELSE FailedJob(job, bulkRows[b])
        IN  /\ bulkWorker[w] = At(b, "executing")
            /\ ~stops /\ state = "SUCCEEDED" => ValidateBulkSuccess(job)
            /\ bulkJobs' = [bulkJobs EXCEPT ![b] = ended]
            /\ bulkRows' = IF stops \/ state # "VALIDATING" THEN bulkRows
                           ELSE [bulkRows EXCEPT ![b] = FailedRows(job, @)]
            /\ bulkHolds' = IF stops THEN bulkHolds
                            ELSE [bulkHolds EXCEPT ![b] = SettledBulkHold(b, ended)]
            /\ bulkBefore' = [bulkBefore EXCEPT ![b] = BulkCommitted]
            /\ BulkDone(w, b)
            /\ UNCHANGED bulkRetried
  BY DEF ExecutorReturns
<1>3. PICK k : k = [bulkJobs[b] EXCEPT !.state = state]
  OBVIOUS
<1>4. PICK j : j = bulkJobs'[b]
  OBVIOUS
<1>5. PICK rows : rows = bulkRows[b]
  OBVIOUS
<1>6. PICK r : r \in {rows, FailedRows(k, rows)} /\ bulkRows' = [bulkRows EXCEPT ![b] = r]
  <2>1. bulkRows = [bulkRows EXCEPT ![b] = rows]
    BY <1>1, <1>5, Unwritten
  <2>2. bulkRows' = bulkRows \/ bulkRows' = [bulkRows EXCEPT ![b] = FailedRows(k, rows)]
    BY <1>2, <1>3, <1>5
  <2> QED BY <2>1, <2>2
<1>7. bulkJobs' = [bulkJobs EXCEPT ![b] = j]
  BY <1>1, <1>2, <1>4 DEF BulkTypes
<1>8. bulkWorker[w] = At(b, "executing") /\ bulkBefore' = [bulkBefore EXCEPT ![b] = BulkCommitted]
  BY <1>2
<1>9. PICK old : old = bulkBefore[b].rows
  OBVIOUS
<1>10. /\ rows \in BulkTables /\ RowsOk(rows) /\ old \in BulkTables
       /\ \A i \in DOMAIN old : old[i].approved => rows[i] = old[i]
       /\ old # <<>> /\ rows # <<>>
  BY <1>5, <1>8, <1>9, Running DEF RunOk, JobOk
<1>11. DOMAIN old = DOMAIN rows
  BY <1>10, Tables
<1>12. RowsKept(rows, r)
  <2>1. CASE r = rows
    BY <2>1, SameKept
  <2>2. CASE r = FailedRows(k, rows)
    <3>1. {"READY", "QUEUED", "PROCESSING"} \subseteq OpenRowStates
      BY DEF OpenRowStates
    <3>2. RowsKept(rows, RowsTo(rows, {"READY", "QUEUED", "PROCESSING"}, "FINAL_FAILED"))
      BY <1>10, <3>1, MovedKept
    <3> QED BY <2>2, <3>2, SameKept DEF FailedRows
  <2> QED BY <1>6, <2>1, <2>2
<1>13. RowsKept(old, r)
  BY <1>10, <1>11, <1>12 DEF RowsKept
<1> QED BY <1>6, <1>7, <1>8, <1>9, <1>13, EndsKept

LEMMA KeepsRollback ==
  ASSUME BulkInv, NEW w \in BulkWorkers, NEW b \in BulkIds, bulkWorker[w] = At(b, "executing"),
         bulkJobs' = [bulkJobs EXCEPT ![b] = bulkBefore[b].job],
         bulkRows' = [bulkRows EXCEPT ![b] = bulkBefore[b].rows],
         bulkBefore' = [bulkBefore EXCEPT ![b] = BulkCommitted]
  PROVE  Keeps
BY SameKept, EndsKept

LEMMA KeepsLost ==
  ASSUME BulkInv, NEW w \in BulkWorkers, NEW b \in BulkIds, BulkWorkerLost(w, b) PROVE Keeps
<1>1. BulkTypes
  BY DEF BulkInv
<1>2. CASE bulkWorker[w].at = "executing"
  <2>1. bulkWorker[w] \in Deliveries
    BY <1>1 DEF BulkWorkerLost, BulkTypes
  <2>2. bulkWorker[w] = At(b, "executing")
    BY <1>2, <2>1 DEF BulkWorkerLost, Deliveries, At
  <2> QED BY <1>2, <2>2, KeepsRollback DEF BulkWorkerLost
<1>3. CASE bulkWorker[w].at # "executing"
  <2>1. UNCHANGED <<bulkJobs, bulkRows, bulkBefore>>
    BY <1>3 DEF BulkWorkerLost
  <2> QED BY <1>1, <2>1, AllKept
<1> QED BY <1>2, <1>3

LEMMA StepKeeps == ASSUME BulkInv, [BulkNext]_bulkVars PROVE [Keeps]_bulkVars
<1>1. BulkTypes
  BY DEF BulkInv
<1>2. ASSUME NEW b \in BulkIds, BulkRequest(b) PROVE Keeps
  BY <1>2, KeepsCreate, KeepsPause, KeepsResume, KeepsCancel, KeepsRetry, KeepsApprove DEF BulkRequest
<1>3. ASSUME NEW b \in BulkIds, NEW w \in BulkWorkers, BulkRun(w, b) PROVE Keeps
  <2>1. ASSUME RunBegins(w, b) \/ MaterializeRaises(w, b) PROVE Keeps
    <3>1. UNCHANGED <<bulkJobs, bulkRows, bulkBefore>>
      BY <2>1 DEF RunBegins, MaterializeRaises
    <3> QED BY <1>1, <3>1, AllKept
  <2>2. ASSUME ExecutorRaises(w, b) PROVE Keeps
    BY <2>2, KeepsRollback DEF ExecutorRaises
  <2> QED BY <1>3, <2>1, <2>2, KeepsMaterialize, KeepsNotReady, KeepsUnavailable, KeepsExecutes,
             KeepsAuthorizes, KeepsRecords, KeepsReturns, KeepsPersists, KeepsLost DEF BulkRun
<1> QED BY <1>2, <1>3 DEF BulkNext

\* Whatever is retried, rolled back, lost or fails late, an approved row stays as it was
\* approved, a job that is over stays as it ended, and one that was asked to stop is
\* cancelled and nothing else (retry_rows, _fail_job, finalize_cancellation).
THEOREM BulkJobsKeepTheirEnds == BulkSpec => BulkKeeps
<1>1. BulkInv /\ [BulkNext]_bulkVars => [ApprovedRowsKept /\ BulkEndIsFinal]_bulkVars
  BY StepKeeps DEF Keeps
<1> QED BY <1>1, BulkAlways, PTL DEF BulkSpec, BulkKeeps

-----------------------------------------------------------------------------
(* Repurposing jobs.                                                       *)

RpStates == {"NONE", "QUEUED", "RETRYABLE_FAILED", "WAITING_REVIEW", "CANCEL_REQUESTED", "CANCELLED",
             "FINAL_FAILED"}
RpRows == [state : RpStates, attempt : 0..RpMaxAttempts, actual : 0..RpReserved]
RpItemRows == [RpItems -> {"PENDING", "SUCCEEDED", "FAILED", "CANCELLED"}]
RpHoldRows == [state : {"NONE", "HELD", "FINALIZED", "RELEASED"},
               event : {"none", "WAITING_REVIEW", "FINAL_FAILED", "CANCELLED"}, charged : Nat]

RpTypes ==
  /\ rpJobs \in [RpJobs -> RpRows] /\ rpItems \in [RpJobs -> RpItemRows]
  /\ rpVariants \in [RpJobs -> SUBSET RpSlots] /\ rpHolds \in [RpJobs -> RpHoldRows]
  /\ rpMsgs \in [RpJobs -> 0..RpMaxMsgs] /\ rpFaults \in Nat
  /\ rpApprovals \in [RpJobs -> [RpReviewed -> Seq({"APPROVE", "REJECT"})]]
  /\ rpDeliveries \in [RpDeliveryKeys -> {"NONE", "SUCCEEDED", "FAILED"}]
  /\ rpPosts \in [RpDeliveryKeys -> {0, 1}]

\* An item has succeeded when, and only when, all its variants are there, which are
\* written in their order.
ItemsDone(items, V) ==
  \A i \in RpItems :
    /\ items[i] = "SUCCEEDED" <=> \A n \in 1..RpCounts[i] : <<i, n>> \in V
    /\ \A n, m \in 1..RpCounts[i] : m < n /\ <<i, n>> \in V => <<i, m>> \in V

\* The hold as the variants and the end of the job demand.
HoldOfJob(job, V, hold) ==
  IF V = RpSlots
  THEN /\ job.state \in {"WAITING_REVIEW", "CANCEL_REQUESTED", "CANCELLED"}
       /\ hold.state = "FINALIZED" /\ hold.event = "WAITING_REVIEW" /\ hold.charged = job.actual
  ELSE \/ job = NoRpJob /\ hold.state = "NONE"
       \/ job.state \in {"QUEUED", "RETRYABLE_FAILED", "CANCEL_REQUESTED"} /\ hold.state = "HELD"
       \/ job.state \in {"CANCELLED", "FINAL_FAILED"} /\ hold.state = "RELEASED" /\ hold.event = job.state

RpJobOk(job, items, V, hold) == ItemsDone(items, V) /\ HoldOfJob(job, V, hold)

RpServed(state, messages, faults) == state \in {"QUEUED", "CANCEL_REQUESTED"} /\ messages = 0 => faults > 0

RpInv ==
  /\ RpTypes
  /\ \A j \in RpJobs : RpJobOk(rpJobs[j], rpItems[j], rpVariants[j], rpHolds[j])
  /\ \A j \in RpJobs : RpServed(rpJobs[j].state, rpMsgs[j], rpFaults)
  /\ OutputsWereApproved /\ OnePostPerKey

RpStepKept == RpInv' /\ VariantsAreKept

LEMMA RpCountsFacts ==
  /\ RpItems = 1..Len(RpCounts) /\ Len(RpCounts) \in Nat \ {0}
  /\ \A i \in RpItems : RpCounts[i] \in Nat \ {0}
  /\ \A i, n : <<i, n>> \in RpSlots <=> i \in RpItems /\ n \in 1..RpCounts[i]
  /\ \A s \in RpSlots : s = <<s[1], s[2]>> /\ s[1] \in RpItems /\ s[2] \in 1..RpCounts[s[1]]
<1>1. RpItems = 1..Len(RpCounts) /\ Len(RpCounts) \in Nat \ {0}
  BY RpNumbers DEF RpItems
<1>2. \A i \in RpItems : RpCounts[i] \in Nat \ {0}
  BY <1>1, RpNumbers
<1>3. \A s : s \in RpSlots <=> \E i \in RpItems : s \in {i} \X (1..RpCounts[i])
  BY DEF RpSlots
<1> QED BY <1>1, <1>2, <1>3

LEMMA RpInitially == ASSUME RpInit PROVE RpInv
<1>1. NoRpJob \in RpRows /\ NoRpJob.state = "NONE"
  BY RpNumbers DEF NoRpJob, RpRows, RpStates
<1>2. NoRpHold \in RpHoldRows
  BY DEF NoRpHold, RpHoldRows
<1>3. RpTypes
  BY <1>1, <1>2, RpNumbers DEF RpInit, RpTypes, RpItemRows
<1>4. <<1, 1>> \in RpSlots
  BY RpCountsFacts
<1>5. ASSUME NEW j \in RpJobs PROVE RpJobOk(rpJobs[j], rpItems[j], rpVariants[j], rpHolds[j])
  <2>1. rpVariants[j] = {} /\ rpJobs[j] = NoRpJob /\ \A i \in RpItems : rpItems[j][i] = "PENDING"
    BY DEF RpInit
  <2>2. \A i \in RpItems : 1 \in 1..RpCounts[i]
    BY RpCountsFacts
  <2>3. ItemsDone(rpItems[j], rpVariants[j])
    BY <2>1, <2>2 DEF ItemsDone
  <2>4. rpHolds[j].state = "NONE"
    BY DEF RpInit, NoRpHold
  <2> QED BY <1>4, <2>1, <2>3, <2>4 DEF RpJobOk, HoldOfJob
<1>6. \A j \in RpJobs : RpServed(rpJobs[j].state, rpMsgs[j], rpFaults)
  BY <1>1 DEF RpInit, RpServed
<1>7. OutputsWereApproved
  <2>1. \A j \in RpJobs, s \in RpReviewed : rpApprovals[j][s] = <<>>
    BY DEF RpInit
  <2>2. \A p \in RpJobs \X RpReviewed : p[1] \in RpJobs /\ p[2] \in RpReviewed
    OBVIOUS
  <2>3. "APPROVE" \notin ToSet(<<>>)
    BY DEF ToSet
  <2>4. \A p \in RpJobs \X RpReviewed : ~("APPROVE" \in ToSet(rpApprovals[p[1]][p[2]]))
    BY <2>1, <2>2, <2>3
  <2>5. rpArtifacts = {} /\ \A k \in RpDeliveryKeys : rpPosts[k] = 0
    BY DEF RpInit
  <2> QED BY <2>4, <2>5 DEF OutputsWereApproved
<1>8. OnePostPerKey
  BY DEF RpInit, OnePostPerKey
<1> QED BY <1>3, <1>5, <1>6, <1>7, <1>8 DEF RpInv

\* The rows of one job change, and its messages with them.
LEMMA RpJobMoved ==
  ASSUME RpInv, NEW j \in RpJobs, NEW job \in RpRows, NEW items \in RpItemRows, NEW V \in SUBSET RpSlots,
         NEW hold \in RpHoldRows,
         rpJobs' = [rpJobs EXCEPT ![j] = job], rpItems' = [rpItems EXCEPT ![j] = items],
         rpVariants' = [rpVariants EXCEPT ![j] = V], rpHolds' = [rpHolds EXCEPT ![j] = hold],
         rpMsgs' \in [RpJobs -> 0..RpMaxMsgs], \A k \in RpJobs : k # j => rpMsgs'[k] = rpMsgs[k],
         rpFaults' \in Nat, rpFaults' >= rpFaults,
         RpJobOk(job, items, V, hold), RpServed(job.state, rpMsgs'[j], rpFaults'),
         rpVariants[j] \subseteq V, \A i \in RpItems : rpItems[j][i] = "SUCCEEDED" => items[i] = "SUCCEEDED",
         rpVariants[j] = RpSlots => job.actual = rpJobs[j].actual,
         UNCHANGED rpReviewVars
  PROVE  RpStepKept
<1>1. /\ rpJobs'[j] = job /\ rpItems'[j] = items /\ rpVariants'[j] = V /\ rpHolds'[j] = hold
      /\ \A k \in RpJobs : k # j =>
           /\ rpJobs'[k] = rpJobs[k] /\ rpItems'[k] = rpItems[k] /\ rpVariants'[k] = rpVariants[k]
           /\ rpHolds'[k] = rpHolds[k]
  BY DEF RpInv, RpTypes
<1>2. rpApprovals' = rpApprovals /\ rpArtifacts' = rpArtifacts /\ rpDeliveries' = rpDeliveries
      /\ rpPosts' = rpPosts
  BY DEF rpReviewVars
<1>3. RpTypes'
  BY <1>2 DEF RpInv, RpTypes
<1>4. (\A k \in RpJobs : RpJobOk(rpJobs[k], rpItems[k], rpVariants[k], rpHolds[k]))'
  BY <1>1 DEF RpInv
<1>5. (\A k \in RpJobs : RpServed(rpJobs[k].state, rpMsgs[k], rpFaults))'
  <2>1. ASSUME NEW k \in RpJobs, k # j PROVE RpServed(rpJobs'[k].state, rpMsgs'[k], rpFaults')
    BY <1>1, <2>1 DEF RpInv, RpTypes, RpServed
  <2> QED BY <1>1, <2>1
<1>6. \A k \in RpJobs : rpVariants[k] \subseteq rpVariants'[k]
  BY <1>1
<1>7. OutputsWereApproved' /\ OnePostPerKey'
  <2>1. \A p \in RpJobs \X RpReviewed : p[1] \in RpJobs
    OBVIOUS
  <2>2. OutputsWereApproved'
    BY <1>2, <1>6, <2>1 DEF RpInv, OutputsWereApproved
  <2> QED BY <1>2, <2>2 DEF RpInv, OnePostPerKey
<1>8. VariantsAreKept
  BY <1>1, <1>6 DEF VariantsAreKept
<1> QED BY <1>3, <1>4, <1>5, <1>7, <1>8 DEF RpStepKept, RpInv

LEMMA AllSucceeded ==
  ASSUME NEW items, NEW V \in SUBSET RpSlots, ItemsDone(items, V)
  PROVE  (\A i \in RpItems : items[i] = "SUCCEEDED") <=> V = RpSlots
<1>1. ASSUME \A i \in RpItems : items[i] = "SUCCEEDED" PROVE V = RpSlots
  <2>1. ASSUME NEW s \in RpSlots PROVE s \in V
    BY <1>1, RpCountsFacts DEF ItemsDone
  <2> QED BY <2>1
<1>2. ASSUME V = RpSlots, NEW i \in RpItems PROVE items[i] = "SUCCEEDED"
  BY <1>2, RpCountsFacts DEF ItemsDone
<1> QED BY <1>1, <1>2

\* A job that is over: its hold was open and is closed as its end demands, or it was closed so.
LEMMA RpSettles ==
  ASSUME RpInv, NEW j \in RpJobs, NEW job \in RpRows, NEW items \in RpItemRows, NEW V \in SUBSET RpSlots,
         ItemsDone(items, V), job.state \in {"WAITING_REVIEW", "CANCELLED", "FINAL_FAILED"},
         job.state = "WAITING_REVIEW" => V = RpSlots, job.state = "FINAL_FAILED" => V # RpSlots,
         rpHolds[j].state = "HELD" \/ HoldOfJob(job, V, rpHolds[j]),
         SettleRpTerminal(j, job, items)
  PROVE  \E hold \in RpHoldRows : rpHolds' = [rpHolds EXCEPT ![j] = hold] /\ HoldOfJob(job, V, hold)
<1>1. PICK event : event = CostSettlementState(job.state, items)
  OBVIOUS
<1>2. event = IF V = RpSlots THEN "WAITING_REVIEW" ELSE job.state
  BY <1>1, AllSucceeded DEF CostSettlementState
<1>3. PICK hold : hold = RpClosedHold(rpHolds[j], event, job.actual)
  OBVIOUS
<1>4. rpHolds' = [rpHolds EXCEPT ![j] = hold]
  BY <1>1, <1>3 DEF SettleRpTerminal, RpSuccessStates, RpReleaseStates, RpInv, RpTypes
<1>5. rpHolds[j] \in RpHoldRows /\ job.actual \in Nat
  BY RpNumbers DEF RpInv, RpTypes, RpRows
<1>6. job # NoRpJob
  BY DEF NoRpJob
<1>7. CASE rpHolds[j].state = "HELD"
  <2>1. CASE V = RpSlots
    <3>1. hold = [state |-> "FINALIZED", event |-> "WAITING_REVIEW", charged |-> job.actual]
      BY <1>2, <1>3, <1>7, <2>1 DEF RpClosedHold, RpSuccessStates
    <3>2. hold \in RpHoldRows
      BY <1>5, <3>1 DEF RpHoldRows
    <3> QED BY <1>4, <2>1, <3>1, <3>2 DEF HoldOfJob
  <2>2. CASE V # RpSlots
    <3>1. job.state \in {"CANCELLED", "FINAL_FAILED"} /\ event = job.state
      BY <1>2, <2>2
    <3>2. hold = [state |-> "RELEASED", event |-> event, charged |-> 0]
      BY <1>3, <1>7, <3>1 DEF RpClosedHold, RpSuccessStates
    <3>3. hold \in RpHoldRows
      BY <3>1, <3>2 DEF RpHoldRows
    <3> QED BY <1>4, <2>2, <3>1, <3>2, <3>3 DEF HoldOfJob
  <2> QED BY <2>1, <2>2
<1>8. CASE rpHolds[j].state # "HELD"
  BY <1>3, <1>4, <1>5, <1>8 DEF RpClosedHold
<1> QED BY <1>7, <1>8

LEMMA RpAcknowledged ==
  ASSUME RpInv, NEW j \in RpJobs, rpMsgs[j] > 0, AcknowledgeRp(j)
  PROVE  /\ rpMsgs' \in [RpJobs -> 0..RpMaxMsgs] /\ \A k \in RpJobs : k # j => rpMsgs'[k] = rpMsgs[k]
         /\ rpFaults' \in Nat /\ rpFaults' >= rpFaults
<1>1. rpMsgs \in [RpJobs -> 0..RpMaxMsgs] /\ rpMsgs[j] - 1 \in 0..RpMaxMsgs /\ rpFaults \in Nat
  BY RpNumbers DEF RpInv, RpTypes
<1> QED BY <1>1 DEF AcknowledgeRp, RpFault

LEMMA RpEnqueued ==
  ASSUME RpInv, NEW j \in RpJobs, EnqueueRepurposeJob(j)
  PROVE  /\ rpMsgs' \in [RpJobs -> 0..RpMaxMsgs] /\ \A k \in RpJobs : k # j => rpMsgs'[k] = rpMsgs[k]
         /\ rpFaults' \in Nat /\ rpFaults' >= rpFaults
         /\ \A state : RpServed(state, rpMsgs'[j], rpFaults')
<1>1. rpMsgs \in [RpJobs -> 0..RpMaxMsgs] /\ rpMsgs[j] \in 0..RpMaxMsgs /\ rpFaults \in Nat
  BY DEF RpInv, RpTypes
<1>2. CASE rpMsgs[j] < RpMaxMsgs /\ rpMsgs' = [rpMsgs EXCEPT ![j] = @ + 1] /\ rpFaults' = rpFaults
  <2>1. rpMsgs[j] + 1 \in 0..RpMaxMsgs /\ rpMsgs'[j] = rpMsgs[j] + 1
    BY <1>1, <1>2, RpNumbers
  <2> QED BY <1>1, <1>2, <2>1 DEF RpServed
<1>3. CASE RpFault /\ rpMsgs' = rpMsgs
  BY <1>1, <1>3 DEF RpFault, RpServed
<1> QED BY <1>2, <1>3 DEF EnqueueRepurposeJob

LEMMA RpRowsOf ==
  ASSUME RpInv, NEW j \in RpJobs
  PROVE  /\ rpJobs[j] \in RpRows /\ rpItems[j] \in RpItemRows /\ rpVariants[j] \in SUBSET RpSlots
         /\ rpHolds[j] \in RpHoldRows /\ ItemsDone(rpItems[j], rpVariants[j])
         /\ HoldOfJob(rpJobs[j], rpVariants[j], rpHolds[j])
         /\ rpJobs = [rpJobs EXCEPT ![j] = rpJobs[j]] /\ rpItems = [rpItems EXCEPT ![j] = rpItems[j]]
         /\ rpVariants = [rpVariants EXCEPT ![j] = rpVariants[j]]
         /\ rpHolds = [rpHolds EXCEPT ![j] = rpHolds[j]]
BY DEF RpInv, RpTypes, RpJobOk

\* Another state, the rest of the row as it was.
LEMMA RpStateSet ==
  ASSUME NEW row \in RpRows, NEW state \in RpStates
  PROVE  /\ [row EXCEPT !.state = state] \in RpRows /\ [row EXCEPT !.state = state].state = state
         /\ [row EXCEPT !.state = state].actual = row.actual
BY DEF RpRows

\* What is not done is set to another end.
LEMMA RpItemsSet ==
  ASSUME NEW items \in RpItemRows, NEW state \in {"PENDING", "FAILED", "CANCELLED"}
  PROVE  /\ ItemsTo(items, state) \in RpItemRows
         /\ \A i \in RpItems : ItemsTo(items, state)[i] = "SUCCEEDED" <=> items[i] = "SUCCEEDED"
         /\ ResetItemsForRetry(items) \in RpItemRows
         /\ \A i \in RpItems : ResetItemsForRetry(items)[i] = "SUCCEEDED" <=> items[i] = "SUCCEEDED"
BY DEF ItemsTo, ResetItemsForRetry, RpItemRows

LEMMA CreateRpKept == ASSUME RpInv, NEW j \in RpJobs, CreateRpJob(j) PROVE RpStepKept
<1>1. /\ rpJobs[j] \in RpRows /\ rpItems[j] \in RpItemRows /\ rpVariants[j] \in SUBSET RpSlots
      /\ rpHolds[j] \in RpHoldRows /\ ItemsDone(rpItems[j], rpVariants[j])
      /\ HoldOfJob(rpJobs[j], rpVariants[j], rpHolds[j])
  BY RpRowsOf
<1>2. PICK job : job = [rpJobs[j] EXCEPT !.state = "QUEUED"]
  OBVIOUS
<1>3. PICK hold : hold = [rpHolds[j] EXCEPT !.state = "HELD"]
  OBVIOUS
<1>4. job \in RpRows /\ job.state = "QUEUED" /\ job.actual = rpJobs[j].actual
  BY <1>1, <1>2, RpStateSet DEF RpStates
<1>5. hold \in RpHoldRows /\ hold.state = "HELD"
  BY <1>1, <1>3 DEF RpHoldRows
<1>6. rpVariants[j] # RpSlots
  BY <1>1 DEF CreateRpJob, NoRpJob, HoldOfJob
<1>7. RpJobOk(job, rpItems[j], rpVariants[j], hold)
  BY <1>1, <1>4, <1>5, <1>6 DEF RpJobOk, HoldOfJob
<1>8. /\ rpJobs' = [rpJobs EXCEPT ![j] = job] /\ rpHolds' = [rpHolds EXCEPT ![j] = hold]
      /\ rpItems' = [rpItems EXCEPT ![j] = rpItems[j]]
      /\ rpVariants' = [rpVariants EXCEPT ![j] = rpVariants[j]] /\ EnqueueRepurposeJob(j)
      /\ UNCHANGED rpReviewVars
  BY <1>2, <1>3, RpRowsOf DEF CreateRpJob
<1>9. /\ rpMsgs' \in [RpJobs -> 0..RpMaxMsgs] /\ \A k \in RpJobs : k # j => rpMsgs'[k] = rpMsgs[k]
      /\ rpFaults' \in Nat /\ rpFaults' >= rpFaults /\ RpServed(job.state, rpMsgs'[j], rpFaults')
  BY <1>8, RpEnqueued
<1> QED BY <1>1, <1>4, <1>5, <1>7, <1>8, <1>9, RpJobMoved

LEMMA RpCommandsAllowed ==
  ASSUME NEW state \in RpStates, state # "NONE", NEW target \in {"CANCEL_REQUESTED", "QUEUED"},
         EnsureJobTransition(state, target)
  PROVE  /\ target = "QUEUED" => state = "RETRYABLE_FAILED"
         /\ state \in {"QUEUED", "RETRYABLE_FAILED", "WAITING_REVIEW"}
<1>1. /\ ALLOWED_JOB_TRANSITIONS["CANCEL_REQUESTED"] = {"CANCELLED", "PARTIAL"}
      /\ ALLOWED_JOB_TRANSITIONS["FINAL_FAILED"] = {} /\ ALLOWED_JOB_TRANSITIONS["CANCELLED"] = {}
      /\ ALLOWED_JOB_TRANSITIONS["QUEUED"] = {"VALIDATING", "CANCEL_REQUESTED"}
      /\ ALLOWED_JOB_TRANSITIONS["WAITING_REVIEW"] =
           {"APPROVED", "REVISION_REQUESTED", "CANCEL_REQUESTED", "EXPIRED"}
  BY DEF ALLOWED_JOB_TRANSITIONS
<1> QED BY <1>1 DEF RpStates, EnsureJobTransition

LEMMA CommandRpKept ==
  ASSUME RpInv, NEW j \in RpJobs, NEW key, NEW command \in {"CANCEL", "RETRY"}, CommandRpJob(j, command, key)
  PROVE  RpStepKept
<1>1. /\ rpJobs[j] \in RpRows /\ rpItems[j] \in RpItemRows /\ rpVariants[j] \in SUBSET RpSlots
      /\ rpHolds[j] \in RpHoldRows /\ ItemsDone(rpItems[j], rpVariants[j])
      /\ HoldOfJob(rpJobs[j], rpVariants[j], rpHolds[j])
  BY RpRowsOf
<1>2. EnqueueRepurposeJob(j) /\ rpVariants' = [rpVariants EXCEPT ![j] = rpVariants[j]]
      /\ rpHolds' = [rpHolds EXCEPT ![j] = rpHolds[j]] /\ UNCHANGED rpReviewVars
  BY RpRowsOf DEF CommandRpJob
<1>3. /\ rpMsgs' \in [RpJobs -> 0..RpMaxMsgs] /\ \A k \in RpJobs : k # j => rpMsgs'[k] = rpMsgs[k]
      /\ rpFaults' \in Nat /\ rpFaults' >= rpFaults /\ \A state : RpServed(state, rpMsgs'[j], rpFaults')
  BY <1>2, RpEnqueued
<1>4. CASE UNCHANGED <<rpJobs, rpItems>>
  <2>1. rpJobs' = [rpJobs EXCEPT ![j] = rpJobs[j]] /\ rpItems' = [rpItems EXCEPT ![j] = rpItems[j]]
    BY <1>4, RpRowsOf
  <2>2. RpJobOk(rpJobs[j], rpItems[j], rpVariants[j], rpHolds[j])
    BY <1>1 DEF RpJobOk
  <2> QED BY <1>1, <1>2, <1>3, <2>1, <2>2, RpJobMoved
<1>5. CASE <<j, command, key>> \notin rpCommands
  <2>1. PICK target \in {"CANCEL_REQUESTED", "QUEUED"} :
          target = IF command = "CANCEL" THEN "CANCEL_REQUESTED" ELSE "QUEUED"
    OBVIOUS
  <2>2. PICK items : items = IF target = "QUEUED" THEN ResetItemsForRetry(rpItems[j]) ELSE rpItems[j]
    OBVIOUS
  <2>3. PICK job : job = [rpJobs[j] EXCEPT !.state = target]
    OBVIOUS
  <2>4. /\ EnsureJobTransition(rpJobs[j].state, target) /\ rpJobs[j] # NoRpJob
        /\ rpJobs' = [rpJobs EXCEPT ![j] = job]
        /\ rpItems' = [rpItems EXCEPT ![j] = items]
    BY <1>5, <2>1, <2>2, <2>3 DEF CommandRpJob
  <2>5. job \in RpRows /\ job.state = target /\ job.actual = rpJobs[j].actual
    <3>1. target \in RpStates
      BY <2>1 DEF RpStates
    <3> QED BY <1>1, <2>3, <3>1, RpStateSet
  <2>6. items \in RpItemRows /\ \A i \in RpItems : items[i] = "SUCCEEDED" <=> rpItems[j][i] = "SUCCEEDED"
    BY <1>1, <2>2, RpItemsSet
  <2>7. rpJobs[j].state \in RpStates /\ rpJobs[j].state # "NONE"
    BY <1>1, <2>4 DEF RpRows, HoldOfJob
  <2>8. /\ target = "QUEUED" => rpJobs[j].state = "RETRYABLE_FAILED"
        /\ rpJobs[j].state \in {"QUEUED", "RETRYABLE_FAILED", "WAITING_REVIEW"}
    BY <2>1, <2>4, <2>7, RpCommandsAllowed
  <2>9. HoldOfJob(job, rpVariants[j], rpHolds[j])
    BY <1>1, <2>1, <2>4, <2>5, <2>8 DEF HoldOfJob
  <2>10. RpJobOk(job, items, rpVariants[j], rpHolds[j])
    BY <1>1, <2>6, <2>9 DEF RpJobOk, ItemsDone
  <2> QED BY <1>1, <1>2, <1>3, <2>4, <2>5, <2>6, <2>10, RpJobMoved
<1> QED BY <1>4, <1>5 DEF CommandRpJob

LEMMA CancellationRpKept == ASSUME RpInv, NEW j \in RpJobs, FinalizeRpCancellation(j) PROVE RpStepKept
<1>1. /\ rpJobs[j] \in RpRows /\ rpItems[j] \in RpItemRows /\ rpVariants[j] \in SUBSET RpSlots
      /\ rpHolds[j] \in RpHoldRows /\ ItemsDone(rpItems[j], rpVariants[j])
      /\ HoldOfJob(rpJobs[j], rpVariants[j], rpHolds[j])
  BY RpRowsOf
<1>2. PICK job : job = [rpJobs[j] EXCEPT !.state = "CANCELLED"]
  OBVIOUS
<1>3. job \in RpRows /\ job.state = "CANCELLED" /\ job.actual = rpJobs[j].actual
  BY <1>1, <1>2, RpStateSet DEF RpStates
<1>4. PICK items : items = ItemsTo(rpItems[j], "CANCELLED")
  OBVIOUS
<1>5. items \in RpItemRows /\ \A i \in RpItems : items[i] = "SUCCEEDED" <=> rpItems[j][i] = "SUCCEEDED"
  BY <1>1, <1>4, RpItemsSet
<1>6. /\ rpMsgs[j] > 0 /\ rpJobs[j].state = "CANCEL_REQUESTED" /\ SettleRpTerminal(j, job, items)
      /\ AcknowledgeRp(j) /\ rpVariants' = [rpVariants EXCEPT ![j] = rpVariants[j]] /\ UNCHANGED rpReviewVars
  BY <1>2, <1>4, RpRowsOf DEF FinalizeRpCancellation
<1>7. ItemsDone(items, rpVariants[j])
  BY <1>1, <1>5 DEF ItemsDone
<1>8. rpHolds[j].state = "HELD" \/ HoldOfJob(job, rpVariants[j], rpHolds[j])
  BY <1>1, <1>3, <1>6 DEF HoldOfJob, NoRpJob
<1>9. PICK hold \in RpHoldRows : rpHolds' = [rpHolds EXCEPT ![j] = hold] /\ HoldOfJob(job, rpVariants[j], hold)
  BY <1>1, <1>3, <1>5, <1>6, <1>7, <1>8, RpSettles
<1>10. rpJobs' = [rpJobs EXCEPT ![j] = job] /\ rpItems' = [rpItems EXCEPT ![j] = items]
  BY <1>6 DEF SettleRpTerminal
<1>11. /\ rpMsgs' \in [RpJobs -> 0..RpMaxMsgs] /\ \A k \in RpJobs : k # j => rpMsgs'[k] = rpMsgs[k]
       /\ rpFaults' \in Nat /\ rpFaults' >= rpFaults
  BY <1>6, RpAcknowledged
<1>12. RpJobOk(job, items, rpVariants[j], hold) /\ RpServed(job.state, rpMsgs'[j], rpFaults')
  BY <1>3, <1>7, <1>9 DEF RpJobOk, RpServed
<1> QED BY <1>1, <1>3, <1>5, <1>6, <1>9, <1>10, <1>11, <1>12, RpJobMoved

LEMMA SettledOnlyKept == ASSUME RpInv, NEW j \in RpJobs, RunSettledOnly(j) PROVE RpStepKept
<1>1. /\ rpJobs[j] \in RpRows /\ rpItems[j] \in RpItemRows /\ rpVariants[j] \in SUBSET RpSlots
      /\ rpHolds[j] \in RpHoldRows /\ ItemsDone(rpItems[j], rpVariants[j])
      /\ HoldOfJob(rpJobs[j], rpVariants[j], rpHolds[j])
  BY RpRowsOf
<1>2. /\ rpMsgs[j] > 0 /\ rpJobs[j].state \notin {"NONE", "QUEUED", "CANCEL_REQUESTED"}
      /\ SettleRpTerminal(j, rpJobs[j], rpItems[j])
      /\ AcknowledgeRp(j) /\ rpVariants' = [rpVariants EXCEPT ![j] = rpVariants[j]] /\ UNCHANGED rpReviewVars
  BY RpRowsOf DEF RunSettledOnly
<1>3. PICK hold \in RpHoldRows :
        rpHolds' = [rpHolds EXCEPT ![j] = hold] /\ HoldOfJob(rpJobs[j], rpVariants[j], hold)
  <2>1. CASE rpJobs[j].state = "RETRYABLE_FAILED"
    <3>1. rpHolds' = [rpHolds EXCEPT ![j] = rpHolds[j]]
      BY <1>2, <2>1, RpRowsOf DEF SettleRpTerminal, RpSuccessStates, RpReleaseStates
    <3> QED BY <1>1, <3>1
  <2>2. CASE rpJobs[j].state # "RETRYABLE_FAILED"
    <3>1. rpJobs[j].state \in {"WAITING_REVIEW", "CANCELLED", "FINAL_FAILED"}
      BY <1>1, <1>2, <2>2 DEF RpRows, RpStates
    <3>2. /\ rpJobs[j].state = "WAITING_REVIEW" => rpVariants[j] = RpSlots
          /\ rpJobs[j].state = "FINAL_FAILED" => rpVariants[j] # RpSlots
      BY <1>1 DEF HoldOfJob, NoRpJob
    <3> QED BY <1>1, <1>2, <3>1, <3>2, RpSettles
  <2> QED BY <2>1, <2>2
<1>4. rpJobs' = [rpJobs EXCEPT ![j] = rpJobs[j]] /\ rpItems' = [rpItems EXCEPT ![j] = rpItems[j]]
  BY <1>2 DEF SettleRpTerminal
<1>5. /\ rpMsgs' \in [RpJobs -> 0..RpMaxMsgs] /\ \A k \in RpJobs : k # j => rpMsgs'[k] = rpMsgs[k]
      /\ rpFaults' \in Nat /\ rpFaults' >= rpFaults
  BY <1>2, RpAcknowledged
<1>6. /\ RpJobOk(rpJobs[j], rpItems[j], rpVariants[j], hold)
      /\ RpServed(rpJobs[j].state, rpMsgs'[j], rpFaults')
  BY <1>1, <1>2, <1>3 DEF RpJobOk, RpServed
<1> QED BY <1>1, <1>2, <1>3, <1>4, <1>5, <1>6, RpJobMoved

\* No executor is configured.
LEMMA WithoutExecutorKept == ASSUME RpInv, NEW j \in RpJobs, RunWithoutExecutor(j) PROVE RpStepKept
<1>1. /\ rpJobs[j] \in RpRows /\ rpItems[j] \in RpItemRows /\ rpVariants[j] \in SUBSET RpSlots
      /\ rpHolds[j] \in RpHoldRows /\ ItemsDone(rpItems[j], rpVariants[j])
      /\ HoldOfJob(rpJobs[j], rpVariants[j], rpHolds[j])
  BY RpRowsOf
<1>2. PICK job : job = [rpJobs[j] EXCEPT !.state = "RETRYABLE_FAILED"]
  OBVIOUS
<1>3. job \in RpRows /\ job.state = "RETRYABLE_FAILED" /\ job.actual = rpJobs[j].actual
  BY <1>1, <1>2, RpStateSet DEF RpStates
<1>4. PICK items : items = ItemsTo(rpItems[j], "FAILED")
  OBVIOUS
<1>5. items \in RpItemRows /\ \A i \in RpItems : items[i] = "SUCCEEDED" <=> rpItems[j][i] = "SUCCEEDED"
  BY <1>1, <1>4, RpItemsSet
<1>6. /\ rpMsgs[j] > 0 /\ rpJobs[j].state = "QUEUED" /\ SettleRpTerminal(j, job, items)
      /\ AcknowledgeRp(j) /\ rpVariants' = [rpVariants EXCEPT ![j] = rpVariants[j]] /\ UNCHANGED rpReviewVars
  BY <1>2, <1>4, RpRowsOf DEF RunWithoutExecutor, RunStarts
<1>7. /\ rpJobs' = [rpJobs EXCEPT ![j] = job] /\ rpItems' = [rpItems EXCEPT ![j] = items]
      /\ rpHolds' = [rpHolds EXCEPT ![j] = rpHolds[j]]
  BY <1>3, <1>6, RpRowsOf DEF SettleRpTerminal, RpSuccessStates, RpReleaseStates
<1>8. /\ rpMsgs' \in [RpJobs -> 0..RpMaxMsgs] /\ \A k \in RpJobs : k # j => rpMsgs'[k] = rpMsgs[k]
      /\ rpFaults' \in Nat /\ rpFaults' >= rpFaults
  BY <1>6, RpAcknowledged
<1>9. HoldOfJob(job, rpVariants[j], rpHolds[j])
  BY <1>1, <1>3, <1>6 DEF HoldOfJob, NoRpJob
<1>10. RpJobOk(job, items, rpVariants[j], rpHolds[j]) /\ RpServed(job.state, rpMsgs'[j], rpFaults')
  BY <1>1, <1>3, <1>5, <1>9 DEF RpJobOk, RpServed, ItemsDone
<1> QED BY <1>1, <1>3, <1>5, <1>6, <1>7, <1>8, <1>10, RpJobMoved

\* What is written follows what was written.
LEMMA SlotsWritten ==
  ASSUME RpInv, NEW j \in RpJobs, NEW W \in WrittenFirst(j) \cup {SlotsToWrite(j)}
  PROVE  /\ VariantsAfter(j, W) \in SUBSET RpSlots /\ rpVariants[j] \subseteq VariantsAfter(j, W)
         /\ ItemsAfter(j, W) \in RpItemRows /\ ItemsDone(ItemsAfter(j, W), VariantsAfter(j, W))
         /\ \A i \in RpItems : rpItems[j][i] = "SUCCEEDED" => ItemsAfter(j, W)[i] = "SUCCEEDED"
         /\ VariantsAfter(j, W) = RpSlots <=> W = SlotsToWrite(j)
<1>1. rpItems[j] \in RpItemRows /\ rpVariants[j] \in SUBSET RpSlots /\ ItemsDone(rpItems[j], rpVariants[j])
  BY RpRowsOf
<1>2. PICK V : V = VariantsAfter(j, W)
  OBVIOUS
<1>3. PICK todo : todo = SlotsToWrite(j)
  OBVIOUS
<1>4. /\ \A i \in RpItems : \A n \in 1..RpCounts[i] : <<i, n>> \in todo <=> rpItems[j][i] # "SUCCEEDED"
      /\ todo \subseteq RpSlots
  BY <1>3, RpCountsFacts DEF SlotsToWrite
<1>5. W \in SUBSET todo /\ \A s \in W, t \in todo : RpBefore(t, s) => t \in W
  BY <1>3 DEF WrittenFirst
<1>6. V = rpVariants[j] \cup W /\ V \in SUBSET RpSlots
  BY <1>1, <1>2, <1>4, <1>5 DEF VariantsAfter
<1>7. ASSUME NEW i \in RpItems, NEW n \in 1..RpCounts[i], NEW m \in 1..RpCounts[i], m < n, <<i, n>> \in V
      PROVE  <<i, m>> \in V
  <2>1. CASE <<i, n>> \in rpVariants[j]
    BY <1>1, <1>6, <1>7, <2>1 DEF ItemsDone
  <2>2. CASE <<i, n>> \in W
    <3>1. <<i, m>> \in todo
      BY <1>4, <1>5, <2>2
    <3>2. RpBefore(<<i, m>>, <<i, n>>)
      BY <1>7 DEF RpBefore
    <3> QED BY <1>5, <1>6, <2>2, <3>1, <3>2
  <2> QED BY <1>6, <1>7, <2>1, <2>2
<1>8. PICK items : items = ItemsAfter(j, W)
  OBVIOUS
<1>9. items = [i \in RpItems |->
                 IF \A n \in 1..RpCounts[i] : <<i, n>> \in V THEN "SUCCEEDED" ELSE rpItems[j][i]]
  BY <1>2, <1>8 DEF ItemsAfter, SucceededItems
<1>10. items \in RpItemRows
  BY <1>1, <1>9 DEF RpItemRows
<1>11. ASSUME NEW i \in RpItems
       PROVE  /\ items[i] = "SUCCEEDED" <=> \A n \in 1..RpCounts[i] : <<i, n>> \in V
              /\ rpItems[j][i] = "SUCCEEDED" => items[i] = "SUCCEEDED"
  BY <1>1, <1>6, <1>9 DEF ItemsDone
<1>12. ItemsDone(items, V)
  BY <1>7, <1>11 DEF ItemsDone
<1>13. W = todo => V = RpSlots
  <2>1. ASSUME W = todo, NEW s \in RpSlots PROVE s \in V
    <3>1. s = <<s[1], s[2]>> /\ s[1] \in RpItems /\ s[2] \in 1..RpCounts[s[1]]
      BY RpCountsFacts
    <3> QED BY <1>1, <1>4, <1>6, <2>1, <3>1 DEF ItemsDone
  <2> QED BY <1>6, <2>1
<1>14. ASSUME W # todo PROVE V # RpSlots
  <2>1. PICK t \in todo : t \notin W
    BY <1>5, <1>14
  <2>2. /\ t = <<t[1], t[2]>> /\ t[1] \in RpItems /\ t[2] \in 1..RpCounts[t[1]]
        /\ RpCounts[t[1]] \in Nat \ {0} /\ RpCounts[t[1]] \in 1..RpCounts[t[1]]
    BY <1>4, <2>1, RpCountsFacts
  <2>3. PICK i \in RpItems : i = t[1]
    BY <2>2
  <2>4. PICK c \in 1..RpCounts[i] : c = RpCounts[i]
    BY <2>2, <2>3
  <2>5. rpItems[j][i] # "SUCCEEDED" /\ <<i, c>> \in todo
    BY <1>4, <2>1, <2>2, <2>3, <2>4
  <2>6. <<i, c>> \notin W
    <3>1. t = <<i, c>> \/ RpBefore(t, <<i, c>>)
      BY <2>2, <2>3, <2>4 DEF RpBefore
    <3> QED BY <1>5, <2>1, <3>1
  <2>7. <<i, c>> \notin rpVariants[j]
    <3>1. PICK n \in 1..RpCounts[i] : <<i, n>> \notin rpVariants[j]
      BY <1>1, <2>5 DEF ItemsDone
    <3>2. n = c \/ n < c
      BY <2>4, <2>2, <2>3
    <3> QED BY <1>1, <3>1, <3>2 DEF ItemsDone
  <2>8. <<i, c>> \in RpSlots
    BY <1>4, <2>5
  <2> QED BY <1>6, <2>6, <2>7, <2>8
<1> QED BY <1>2, <1>3, <1>6, <1>8, <1>10, <1>11, <1>12, <1>13, <1>14

\* A run of the executor, which ends the job as what was written demands.
LEMMA ExecutorKept ==
  ASSUME RpInv, NEW j \in RpJobs, RunStarts(j), NEW W \in WrittenFirst(j) \cup {SlotsToWrite(j)},
         NEW cost \in RunCosts(j, W), WithinReserved(j, cost), NEW state,
         IF W = SlotsToWrite(j) THEN state = "WAITING_REVIEW" ELSE state \in {"RETRYABLE_FAILED", "FINAL_FAILED"},
         RunExecutor(j, W, cost, state)
  PROVE  RpStepKept
<1>1. /\ rpJobs[j] \in RpRows /\ rpItems[j] \in RpItemRows /\ rpVariants[j] \in SUBSET RpSlots
      /\ rpHolds[j] \in RpHoldRows /\ ItemsDone(rpItems[j], rpVariants[j])
      /\ HoldOfJob(rpJobs[j], rpVariants[j], rpHolds[j])
  BY RpRowsOf
<1>2. PICK V : V = VariantsAfter(j, W)
  OBVIOUS
<1>3. PICK done : done = ItemsAfter(j, W)
  OBVIOUS
<1>4. /\ V \in SUBSET RpSlots /\ rpVariants[j] \subseteq V /\ done \in RpItemRows /\ ItemsDone(done, V)
      /\ \A i \in RpItems : rpItems[j][i] = "SUCCEEDED" => done[i] = "SUCCEEDED"
      /\ V = RpSlots <=> W = SlotsToWrite(j)
  BY <1>2, <1>3, SlotsWritten
<1>5. PICK items : items = IF state \in {"RETRYABLE_FAILED", "FINAL_FAILED"} THEN ItemsTo(done, "FAILED") ELSE done
  OBVIOUS
<1>6. items \in RpItemRows /\ \A i \in RpItems : items[i] = "SUCCEEDED" <=> done[i] = "SUCCEEDED"
  BY <1>4, <1>5, RpItemsSet
<1>7. PICK job : job = [rpJobs[j] EXCEPT !.state = state, !.attempt = rpJobs[j].attempt + 1,
                                          !.actual = rpJobs[j].actual + cost]
  OBVIOUS
<1>8. rpJobs[j].state = "QUEUED" /\ rpMsgs[j] > 0 /\ rpJobs[j].attempt < RpMaxAttempts
  BY DEF RunStarts
<1>9. job \in RpRows /\ job.state = state
  <2>1. cost \in Int /\ cost >= 0 /\ rpJobs[j].actual + cost <= RpReserved
    BY DEF RunCosts, WithinReserved
  <2>2. /\ rpJobs[j] = [state |-> rpJobs[j].state, attempt |-> rpJobs[j].attempt, actual |-> rpJobs[j].actual]
        /\ rpJobs[j].attempt \in 0..RpMaxAttempts /\ rpJobs[j].actual \in 0..RpReserved
    BY <1>1 DEF RpRows
  <2>3. job = [state |-> state, attempt |-> rpJobs[j].attempt + 1, actual |-> rpJobs[j].actual + cost]
    BY <1>7, <2>2
  <2>4. rpJobs[j].attempt + 1 \in 0..RpMaxAttempts /\ rpJobs[j].actual + cost \in 0..RpReserved
    BY <1>8, <2>1, <2>2, RpNumbers
  <2>5. state \in RpStates
    BY DEF RpStates
  <2> QED BY <2>3, <2>4, <2>5 DEF RpRows
<1>10. /\ SettleRpTerminal(j, job, items) /\ AcknowledgeRp(j)
       /\ rpVariants' = [rpVariants EXCEPT ![j] = V] /\ UNCHANGED rpReviewVars
  BY <1>2, <1>3, <1>5, <1>7 DEF RunExecutor
<1>11. ItemsDone(items, V)
  BY <1>4, <1>6 DEF ItemsDone
<1>12. rpVariants[j] # RpSlots /\ rpHolds[j].state = "HELD"
  BY <1>1, <1>8 DEF HoldOfJob, NoRpJob
<1>13. PICK hold \in RpHoldRows : rpHolds' = [rpHolds EXCEPT ![j] = hold] /\ HoldOfJob(job, V, hold)
  <2>1. CASE state = "RETRYABLE_FAILED"
    <3>1. rpHolds' = [rpHolds EXCEPT ![j] = rpHolds[j]]
      BY <1>9, <1>10, <2>1, RpRowsOf DEF SettleRpTerminal, RpSuccessStates, RpReleaseStates
    <3>2. V # RpSlots
      BY <1>4, <2>1
    <3>3. HoldOfJob(job, V, rpHolds[j])
      BY <1>9, <1>12, <2>1, <3>2 DEF HoldOfJob
    <3> QED BY <1>1, <3>1, <3>3
  <2>2. CASE state # "RETRYABLE_FAILED"
    <3>1. job.state \in {"WAITING_REVIEW", "CANCELLED", "FINAL_FAILED"}
      BY <1>4, <1>9, <2>2
    <3>2. job.state = "WAITING_REVIEW" => V = RpSlots
      BY <1>4, <1>9, <2>2
    <3>3. job.state = "FINAL_FAILED" => V # RpSlots
      BY <1>4, <1>9, <2>2
    <3> QED BY <1>4, <1>6, <1>9, <1>10, <1>11, <1>12, <3>1, <3>2, <3>3, RpSettles
  <2> QED BY <2>1, <2>2
<1>14. rpJobs' = [rpJobs EXCEPT ![j] = job] /\ rpItems' = [rpItems EXCEPT ![j] = items]
  BY <1>10 DEF SettleRpTerminal
<1>15. /\ rpMsgs' \in [RpJobs -> 0..RpMaxMsgs] /\ \A k \in RpJobs : k # j => rpMsgs'[k] = rpMsgs[k]
       /\ rpFaults' \in Nat /\ rpFaults' >= rpFaults
  BY <1>8, <1>10, RpAcknowledged
<1>16. RpJobOk(job, items, V, hold) /\ RpServed(job.state, rpMsgs'[j], rpFaults')
  BY <1>9, <1>11, <1>13 DEF RpJobOk, RpServed
<1> QED BY <1>4, <1>6, <1>9, <1>10, <1>12, <1>13, <1>14, <1>15, <1>16, RpJobMoved

LEMMA SucceedsKept == ASSUME RpInv, NEW j \in RpJobs, RunSucceeds(j) PROVE RpStepKept
<1>1. PICK W \in WrittenFirst(j) \cup {SlotsToWrite(j)} : W = SlotsToWrite(j)
  OBVIOUS
<1>2. PICK cost \in RunCosts(j, W) :
        WithinReserved(j, cost) /\ RunExecutor(j, W, cost, CompleteRpJob(ItemsAfter(j, W)))
  BY <1>1 DEF RunSucceeds
<1>3. /\ VariantsAfter(j, W) \in SUBSET RpSlots /\ VariantsAfter(j, W) = RpSlots
      /\ ItemsDone(ItemsAfter(j, W), VariantsAfter(j, W))
  BY <1>1, SlotsWritten
<1>4. \A i \in RpItems : ItemsAfter(j, W)[i] = "SUCCEEDED"
  BY <1>3, AllSucceeded
<1>5. CompleteRpJob(ItemsAfter(j, W)) = "WAITING_REVIEW"
  BY <1>4 DEF CompleteRpJob
<1>6. RunStarts(j) /\ RunExecutor(j, W, cost, "WAITING_REVIEW")
  BY <1>2, <1>5 DEF RunSucceeds
<1> QED BY <1>1, <1>2, <1>6, ExecutorKept

LEMMA RefusedKept == ASSUME RpInv, NEW j \in RpJobs, RunRefused(j) PROVE RpStepKept
<1>1. PICK W \in WrittenFirst(j) \ {SlotsToWrite(j)}, retryable \in BOOLEAN :
        \E cost \in RunCosts(j, W) :
          WithinReserved(j, cost) /\ RunExecutor(j, W, cost, FailedRpState(retryable))
  BY DEF RunRefused
<1>2. PICK cost \in RunCosts(j, W) :
        WithinReserved(j, cost) /\ RunExecutor(j, W, cost, FailedRpState(retryable))
  BY <1>1
<1>3. PICK state : state = FailedRpState(retryable)
  OBVIOUS
<1>4. state \in {"RETRYABLE_FAILED", "FINAL_FAILED"}
  BY <1>3 DEF FailedRpState
<1>5. RunStarts(j) /\ RunExecutor(j, W, cost, state) /\ W # SlotsToWrite(j)
      /\ W \in WrittenFirst(j) \cup {SlotsToWrite(j)}
  BY <1>1, <1>2, <1>3 DEF RunRefused
<1> QED BY <1>2, <1>4, <1>5, ExecutorKept

\* What was approved, one variant at a time.
LEMMA OutputsByVariant ==
  ASSUME RpInv
  PROVE  /\ \A o \in rpArtifacts : o \in RpJobs \X RpReviewed /\ "APPROVE" \in ToSet(rpApprovals[o[1]][o[2]])
         /\ (\E k \in RpDeliveryKeys : rpPosts[k] > 0) =>
              \E o \in RpJobs \X RpReviewed : "APPROVE" \in ToSet(rpApprovals[o[1]][o[2]])
         /\ \A o \in RpJobs \X RpReviewed :
              "APPROVE" \in ToSet(rpApprovals[o[1]][o[2]]) => o[2] \in rpVariants[o[1]]
BY DEF RpInv, OutputsWereApproved

\* The job's own rows stay; what was approved before is approved still.
LEMMA RpReviewMoved ==
  ASSUME RpInv, UNCHANGED rpJobVars, rpFaults' \in Nat, rpFaults' >= rpFaults,
         rpApprovals' \in [RpJobs -> [RpReviewed -> Seq({"APPROVE", "REJECT"})]],
         rpDeliveries' \in [RpDeliveryKeys -> {"NONE", "SUCCEEDED", "FAILED"}],
         rpPosts' \in [RpDeliveryKeys -> {0, 1}],
         OutputsWereApproved', \A k \in RpDeliveryKeys : rpDeliveries'[k] = "SUCCEEDED" => rpPosts'[k] = 1
  PROVE  RpStepKept
<1>1. /\ rpJobs' = rpJobs /\ rpItems' = rpItems /\ rpVariants' = rpVariants /\ rpHolds' = rpHolds
      /\ rpMsgs' = rpMsgs
  BY DEF rpJobVars
<1>2. RpTypes'
  BY <1>1 DEF RpInv, RpTypes
<1>3. (\A j \in RpJobs : RpJobOk(rpJobs[j], rpItems[j], rpVariants[j], rpHolds[j]))'
  BY <1>1 DEF RpInv
<1>4. (\A j \in RpJobs : RpServed(rpJobs[j].state, rpMsgs[j], rpFaults))'
  BY <1>1 DEF RpInv, RpTypes, RpServed
<1>5. OnePostPerKey'
  BY DEF OnePostPerKey
<1>6. VariantsAreKept
  BY <1>1 DEF VariantsAreKept
<1> QED BY <1>2, <1>3, <1>4, <1>5, <1>6 DEF RpStepKept, RpInv

LEMMA ApproveVariantKept ==
  ASSUME RpInv, NEW j \in RpJobs, NEW s \in RpReviewed, NEW decision \in {"APPROVE", "REJECT"},
         ApproveVariant(j, s, decision)
  PROVE  RpStepKept
<1>1. PICK old : old = rpApprovals[j][s]
  OBVIOUS
<1>2. old \in Seq({"APPROVE", "REJECT"})
  BY <1>1 DEF RpInv, RpTypes
<1>3. PICK new : new = Append(old, decision)
  OBVIOUS
<1>4. new \in Seq({"APPROVE", "REJECT"})
  BY <1>2, <1>3
<1>5. "APPROVE" \in ToSet(old) => "APPROVE" \in ToSet(new)
  <2>1. ASSUME "APPROVE" \in ToSet(old) PROVE "APPROVE" \in ToSet(new)
    <3>1. PICK n \in DOMAIN old : old[n] = "APPROVE"
      BY <2>1 DEF ToSet
    <3>2. n \in DOMAIN new /\ new[n] = "APPROVE"
      BY <1>2, <1>3, <3>1
    <3> QED BY <3>2 DEF ToSet
  <2> QED BY <2>1
<1>6. s \in rpVariants[j] /\ UNCHANGED <<rpJobVars, rpArtifacts, rpDeliveries, rpPosts, rpFaults>>
  BY DEF ApproveVariant
<1>7. rpApprovals' = [rpApprovals EXCEPT ![j] = [rpApprovals[j] EXCEPT ![s] = new]]
  BY <1>1, <1>3 DEF ApproveVariant, RpInv, RpTypes
<1>8. rpApprovals' \in [RpJobs -> [RpReviewed -> Seq({"APPROVE", "REJECT"})]]
  BY <1>4, <1>7 DEF RpInv, RpTypes
<1>9. /\ rpApprovals'[j][s] = new
      /\ \A k \in RpJobs, t \in RpReviewed : k # j \/ t # s => rpApprovals'[k][t] = rpApprovals[k][t]
  BY <1>7 DEF RpInv, RpTypes
<1>10. \A p \in RpJobs \X RpReviewed : p[1] \in RpJobs /\ p[2] \in RpReviewed
  OBVIOUS
<1>11. ASSUME NEW p \in RpJobs \X RpReviewed, "APPROVE" \in ToSet(rpApprovals[p[1]][p[2]])
       PROVE  "APPROVE" \in ToSet(rpApprovals'[p[1]][p[2]])
  BY <1>1, <1>5, <1>9, <1>10, <1>11
<1>12. ASSUME NEW p \in RpJobs \X RpReviewed, "APPROVE" \in ToSet(rpApprovals'[p[1]][p[2]])
       PROVE  p[2] \in rpVariants'[p[1]]
  <2>1. rpVariants' = rpVariants
    BY <1>6 DEF rpJobVars
  <2>2. CASE p[1] = j /\ p[2] = s
    BY <1>6, <2>1, <2>2
  <2>3. CASE ~(p[1] = j /\ p[2] = s)
    <3>1. "APPROVE" \in ToSet(rpApprovals[p[1]][p[2]])
      BY <1>9, <1>10, <1>12, <2>3
    <3> QED BY <2>1, <3>1, OutputsByVariant
  <2> QED BY <2>2, <2>3
<1>13. OutputsWereApproved'
  BY <1>6, <1>11, <1>12, OutputsByVariant DEF OutputsWereApproved
<1>14. rpFaults' \in Nat /\ rpFaults' >= rpFaults
  BY <1>6 DEF RpInv, RpTypes
<1>15. /\ rpDeliveries' \in [RpDeliveryKeys -> {"NONE", "SUCCEEDED", "FAILED"}]
       /\ rpPosts' \in [RpDeliveryKeys -> {0, 1}]
       /\ \A k \in RpDeliveryKeys : rpDeliveries'[k] = "SUCCEEDED" => rpPosts'[k] = 1
  BY <1>6 DEF RpInv, RpTypes, OnePostPerKey
<1>16. UNCHANGED rpJobVars
  BY <1>6
<1> QED BY <1>8, <1>13, <1>14, <1>15, <1>16, RpReviewMoved

LEMMA ExportVariantKept ==
  ASSUME RpInv, NEW j \in RpJobs, NEW s \in RpReviewed, ExportVariant(j, s) PROVE RpStepKept
<1>1. /\ ApprovedVariant(j, s) /\ rpArtifacts' = rpArtifacts \cup {<<j, s>>}
      /\ UNCHANGED <<rpJobVars, rpApprovals, rpDeliveries, rpPosts, rpFaults>>
  BY DEF ExportVariant
<1>2. "APPROVE" \in ToSet(rpApprovals[j][s])
  <2>1. rpApprovals[j][s] \in Seq({"APPROVE", "REJECT"})
    BY DEF RpInv, RpTypes
  <2>2. PICK list \in Seq({"APPROVE", "REJECT"}) : list = rpApprovals[j][s]
    BY <2>1
  <2>3. list # <<>> /\ list[Len(list)] = "APPROVE"
    BY <1>1, <2>2 DEF ApprovedVariant, Last
  <2>4. Len(list) \in DOMAIN list
    BY <2>3
  <2> QED BY <2>2, <2>3, <2>4 DEF ToSet
<1>3. <<j, s>> \in RpJobs \X RpReviewed /\ <<j, s>>[1] = j /\ <<j, s>>[2] = s
  OBVIOUS
<1>4. rpVariants' = rpVariants
  BY <1>1 DEF rpJobVars
<1>5. OutputsWereApproved'
  BY <1>1, <1>2, <1>3, <1>4, OutputsByVariant DEF OutputsWereApproved
<1>6. rpFaults' \in Nat /\ rpFaults' >= rpFaults
  BY <1>1 DEF RpInv, RpTypes
<1>7. /\ rpDeliveries' \in [RpDeliveryKeys -> {"NONE", "SUCCEEDED", "FAILED"}]
      /\ rpPosts' \in [RpDeliveryKeys -> {0, 1}]
      /\ rpApprovals' \in [RpJobs -> [RpReviewed -> Seq({"APPROVE", "REJECT"})]]
      /\ \A k \in RpDeliveryKeys : rpDeliveries'[k] = "SUCCEEDED" => rpPosts'[k] = 1
  BY <1>1 DEF RpInv, RpTypes, OnePostPerKey
<1>8. UNCHANGED rpJobVars
  BY <1>1
<1> QED BY <1>5, <1>6, <1>7, <1>8, RpReviewMoved

\* A delivery, answered or lost: the network is asked for what was approved.
LEMMA DeliveryKept ==
  ASSUME RpInv, NEW j \in RpJobs, NEW s \in RpReviewed, NEW key \in RpDeliveryKeys,
         DeliverVariant(j, s, key) \/ DeliveryLost(j, s, key)
  PROVE  RpStepKept
<1>1. /\ "APPROVE" \in ToSet(rpApprovals[j][s]) /\ rpDeliveries[key] = "NONE"
      /\ UNCHANGED <<rpJobVars, rpApprovals, rpArtifacts>>
  BY DEF DeliverVariant, DeliveryLost, DeliverableVariant
<1>2. PICK posted : posted = SocialPublish(rpPosts, key)
  OBVIOUS
<1>3. /\ posted \in [RpDeliveryKeys -> {0, 1}] /\ posted[key] = 1
      /\ \A k \in RpDeliveryKeys : k # key => posted[k] = rpPosts[k]
  BY <1>2 DEF SocialPublish, RpInv, RpTypes
<1>4. rpPosts' \in {rpPosts, posted}
  BY <1>2 DEF DeliverVariant, DeliveryLost
<1>5. \/ rpDeliveries' = [rpDeliveries EXCEPT ![key] = "SUCCEEDED"] /\ rpPosts' = posted
      \/ rpDeliveries' = [rpDeliveries EXCEPT ![key] = "FAILED"]
      \/ rpDeliveries' = rpDeliveries
  BY <1>2 DEF DeliverVariant, DeliveryLost
<1>6. rpFaults' \in Nat /\ rpFaults' >= rpFaults
  BY DEF DeliverVariant, DeliveryLost, RpFault, RpInv, RpTypes
<1>7. rpDeliveries \in [RpDeliveryKeys -> {"NONE", "SUCCEEDED", "FAILED"}] /\ rpPosts \in [RpDeliveryKeys -> {0, 1}]
      /\ rpApprovals' \in [RpJobs -> [RpReviewed -> Seq({"APPROVE", "REJECT"})]]
  BY <1>1 DEF RpInv, RpTypes
<1>8. rpDeliveries' \in [RpDeliveryKeys -> {"NONE", "SUCCEEDED", "FAILED"}] /\ rpPosts' \in [RpDeliveryKeys -> {0, 1}]
  BY <1>3, <1>4, <1>5, <1>7
<1>9. ASSUME NEW k \in RpDeliveryKeys, rpDeliveries'[k] = "SUCCEEDED" PROVE rpPosts'[k] = 1
  <2>1. CASE k = key
    BY <1>1, <1>3, <1>5, <1>7, <1>9, <2>1
  <2>2. CASE k # key
    <3>1. rpDeliveries[k] = "SUCCEEDED"
      BY <1>5, <1>7, <1>9, <2>2
    <3>2. rpPosts[k] = 1
      BY <3>1 DEF RpInv, OnePostPerKey
    <3> QED BY <1>3, <1>4, <2>2, <3>2
  <2> QED BY <2>1, <2>2
<1>10. rpApprovals' = rpApprovals /\ rpArtifacts' = rpArtifacts /\ rpVariants' = rpVariants
  BY <1>1 DEF rpJobVars
<1>11. <<j, s>> \in RpJobs \X RpReviewed /\ <<j, s>>[1] = j /\ <<j, s>>[2] = s
  OBVIOUS
<1>12. OutputsWereApproved'
  BY <1>1, <1>10, <1>11, OutputsByVariant DEF OutputsWereApproved
<1>13. UNCHANGED rpJobVars
  BY <1>1
<1> QED BY <1>6, <1>7, <1>8, <1>9, <1>12, <1>13, RpReviewMoved

LEMMA RpStutters == ASSUME RpInv, UNCHANGED rpVars PROVE RpStepKept
<1>1. UNCHANGED rpJobVars /\ UNCHANGED rpReviewVars /\ rpFaults' = rpFaults
  BY DEF rpVars
<1>2. rpApprovals' = rpApprovals /\ rpArtifacts' = rpArtifacts /\ rpDeliveries' = rpDeliveries
      /\ rpPosts' = rpPosts /\ rpVariants' = rpVariants
  BY <1>1 DEF rpReviewVars, rpJobVars
<1>3. OutputsWereApproved'
  BY <1>2 DEF RpInv, OutputsWereApproved
<1>4. rpFaults' \in Nat /\ rpFaults' >= rpFaults
  BY <1>1 DEF RpInv, RpTypes
<1>5. /\ rpDeliveries' \in [RpDeliveryKeys -> {"NONE", "SUCCEEDED", "FAILED"}]
      /\ rpPosts' \in [RpDeliveryKeys -> {0, 1}]
      /\ rpApprovals' \in [RpJobs -> [RpReviewed -> Seq({"APPROVE", "REJECT"})]]
      /\ \A k \in RpDeliveryKeys : rpDeliveries'[k] = "SUCCEEDED" => rpPosts'[k] = 1
  BY <1>2 DEF RpInv, RpTypes, OnePostPerKey
<1> QED BY <1>1, <1>3, <1>4, <1>5, RpReviewMoved

LEMMA RpStep == ASSUME RpInv, [RpNext]_rpVars PROVE RpStepKept
<1>1. ASSUME RpNext PROVE RpStepKept
  <2>1. PICK j \in RpJobs : RpRequest(j) \/ RpRunJob(j) \/ \E s \in RpReviewed : VariantRequest(j, s)
    BY <1>1 DEF RpNext
  <2>2. CASE RpRequest(j)
    BY <2>2, CreateRpKept, CommandRpKept DEF RpRequest
  <2>3. CASE RpRunJob(j)
    BY <2>3, CancellationRpKept, SettledOnlyKept, SucceedsKept, RefusedKept, WithoutExecutorKept DEF RpRunJob
  <2>4. CASE \E s \in RpReviewed : VariantRequest(j, s)
    BY <2>4, ApproveVariantKept, ExportVariantKept, DeliveryKept DEF VariantRequest
  <2> QED BY <2>1, <2>2, <2>3, <2>4
<1> QED BY <1>1, RpStutters

LEMMA RpConsequences ==
  ASSUME RpInv
  PROVE  RpTypeOK /\ CompleteSetsAreCharged /\ NoRepurposeForgotten /\ OutputsWereApproved /\ OnePostPerKey
<1>1. RpStates \subseteq JobStates \cup {"NONE"}
  BY DEF RpStates, JobStates, ALLOWED_JOB_TRANSITIONS
<1>2. RpTypeOK
  <2>1. rpJobs \in [RpJobs -> [state : JobStates \cup {"NONE"}, attempt : 0..RpMaxAttempts,
                               actual : 0..RpReserved]]
    BY <1>1 DEF RpInv, RpTypes, RpRows
  <2>2. \A j \in RpJobs : rpHolds[j].state \in {"NONE", "HELD", "FINALIZED", "RELEASED"}
    BY DEF RpInv, RpTypes, RpHoldRows
  <2> QED BY <2>1, <2>2 DEF RpInv, RpTypes, RpTypeOK, RpItemRows
<1>3. ASSUME NEW j \in RpJobs
      PROVE  /\ rpHolds[j].state = "FINALIZED" =>
                  rpVariants[j] = RpSlots /\ rpHolds[j].charged = rpJobs[j].actual
             /\ rpVariants[j] = RpSlots => rpHolds[j].state = "FINALIZED"
             /\ rpJobs[j].state \in TERMINAL_JOB_STATES => rpHolds[j].state \in {"FINALIZED", "RELEASED"}
             /\ rpJobs[j].state \in {"QUEUED", "RETRYABLE_FAILED", "PARTIAL"} => rpHolds[j].state = "HELD"
             /\ rpJobs[j].state = "CANCEL_REQUESTED" =>
                  MaySettleRp(rpHolds[j], CostSettlementState("CANCELLED", rpItems[j]))
  <2>1. HoldOfJob(rpJobs[j], rpVariants[j], rpHolds[j]) /\ ItemsDone(rpItems[j], rpVariants[j])
        /\ rpVariants[j] \in SUBSET RpSlots
    BY RpRowsOf
  <2>2. CASE rpVariants[j] = RpSlots
    <3>1. CostSettlementState("CANCELLED", rpItems[j]) = "WAITING_REVIEW"
      BY <2>1, <2>2, AllSucceeded DEF CostSettlementState
    <3>2. /\ rpJobs[j].state \in {"WAITING_REVIEW", "CANCEL_REQUESTED", "CANCELLED"}
          /\ rpHolds[j].state = "FINALIZED" /\ rpHolds[j].event = "WAITING_REVIEW"
          /\ rpHolds[j].charged = rpJobs[j].actual
      BY <2>1, <2>2 DEF HoldOfJob
    <3> QED BY <2>2, <3>1, <3>2 DEF MaySettleRp
  <2>3. CASE rpVariants[j] # RpSlots
    <3>1. \/ rpJobs[j].state = "NONE" /\ rpHolds[j].state = "NONE"
          \/ rpJobs[j].state \in {"QUEUED", "RETRYABLE_FAILED", "CANCEL_REQUESTED"} /\ rpHolds[j].state = "HELD"
          \/ rpJobs[j].state \in {"CANCELLED", "FINAL_FAILED"} /\ rpHolds[j].state = "RELEASED"
      BY <2>1, <2>3 DEF HoldOfJob, NoRpJob
    <3> QED BY <2>3, <3>1 DEF MaySettleRp, TERMINAL_JOB_STATES
  <2> QED BY <2>2, <2>3
<1>4. CompleteSetsAreCharged
  BY <1>3 DEF CompleteSetsAreCharged
<1>5. NoRepurposeForgotten
  BY <1>3 DEF NoRepurposeForgotten, RpInv, RpServed
<1> QED BY <1>2, <1>4, <1>5 DEF RpInv

\* Repurposing keeps its promise, for any items, reservation and bounds: a run
\* writes slots in their order, so that what a retry finds is what was written,
\* and the end of a job and of its hold is decided by whether the set is
\* complete (repurpose/services.py: command_job, _settle_terminal,
\* _cost_settlement_state, record_variant; execute's loop; deliver_variant).
THEOREM RepurposeKeepsItsPromise == RpSpec => RepurposePromise
<1>1. RpInit => RpInv
  BY RpInitially
<1>2. RpInv /\ [RpNext]_rpVars => RpInv' /\ VariantsAreKept
  BY RpStep DEF RpStepKept
<1>3. RpInv => RpTypeOK /\ CompleteSetsAreCharged /\ NoRepurposeForgotten /\ OutputsWereApproved /\ OnePostPerKey
  BY RpConsequences
<1> QED BY <1>1, <1>2, <1>3, PTL DEF RpSpec, RepurposePromise

-----------------------------------------------------------------------------
(* Generation jobs.                                                        *)

RunningStates == {"VALIDATING", "RESEARCHING", "PLANNING", "GENERATING", "VERIFYING", "OPTIMIZING"}
GenStates == {"NONE", "QUEUED", "WAITING_REVIEW", "QUALITY_BLOCKED", "RETRYABLE_FAILED",
              "CANCEL_REQUESTED", "CANCELLED", "FINAL_FAILED"} \cup RunningStates
GenEvents == {"none", "success"} \cup GenFailureStates
GenEvidence == [event : GenEvents, cost : 0..GenMaxRuns]
GenRows == [state : GenStates, attempt : 0..GenMaxAttempts, evidence : GenEvidence]
GenStepRows == [StepOrdinals -> GenStepStates]
GenHoldRows == [state : {"NONE", "HELD", "FINALIZED", "RELEASED"}, event : GenEvents, charged : 0..GenBudget]

GenTypes ==
  /\ genJobs \in [GenJobs -> GenRows] /\ genSteps \in [GenJobs -> GenStepRows]
  /\ genHolds \in [GenJobs -> GenHoldRows] /\ genRuns \in [GenJobs -> 0..GenMaxRuns]
  /\ genResults \in [GenJobs -> 0..1] /\ genMsgs \in [GenJobs -> Nat]
  /\ genLost \in Nat /\ genCommands \subseteq GenJobs \X {"CANCEL", "RETRY"} \X GenKeys

Steps == GenSections + 7

\* The first n steps succeeded, no other was begun, and the job is where step n brought it.
OnPlan(state, steps, n) ==
  /\ state = IF n = 0 THEN "QUEUED" ELSE StepJobState(PlanGenerationSteps[n])
  /\ \A i \in StepOrdinals : steps[i] = IF i <= n THEN "SUCCEEDED" ELSE "PENDING"

\* A job on its first way through the plan; nobody has retried it.
UnderWay(job) == job.state \in RunningStates \/ (job.state = "QUEUED" /\ job.attempt = 0)

GenFollowed(job, steps) ==
  /\ \A i \in StepOrdinals : steps[i] = "SUCCEEDED" => \A k \in 1..(i - 1) : steps[k] = "SUCCEEDED"
  /\ job.state = "NONE" => \A i \in StepOrdinals : steps[i] = "PENDING"
  /\ UnderWay(job) => \E n \in 0..(Steps - 1) : OnPlan(job.state, steps, n)
  /\ job.state \in {"QUEUED", "RETRYABLE_FAILED", "QUALITY_BLOCKED"} /\ ~UnderWay(job) => steps[1] = "SUCCEEDED"

\* The evidence, the hold, the model runs and the draft, as the end of the job demands.
GenSettled(job, steps, hold, runs, results) ==
  IF job.evidence = NoEvidence
  THEN /\ job.state \notin {"WAITING_REVIEW", "CANCELLED", "FINAL_FAILED"} /\ results = 0
       /\ IF job.state = "NONE" THEN job = NoGenJob /\ hold.state = "NONE" ELSE hold.state = "HELD"
  ELSE /\ hold.event = job.evidence.event /\ job.evidence.cost = runs
       /\ IF hold.event = "success"
          THEN /\ job.state \in {"WAITING_REVIEW", "CANCEL_REQUESTED", "CANCELLED"}
               /\ hold.state = "FINALIZED" /\ results = 1 /\ runs <= GenBudget
               /\ \A i \in StepOrdinals : steps[i] = "SUCCEEDED"
          ELSE /\ job.state \in {"CANCELLED", "FINAL_FAILED"} /\ hold.event = job.state
               /\ hold.state = "RELEASED" /\ results = 0

\* Who carries the job on.
GenCarried(job, messages, lost) ==
  /\ UnderWay(job) \/ job.state = "CANCEL_REQUESTED" => messages > 0 \/ lost > 0
  /\ job.state = "NONE" => messages = 0

GenJobOk(j) ==
  /\ GenFollowed(genJobs[j], genSteps[j])
  /\ GenSettled(genJobs[j], genSteps[j], genHolds[j], genRuns[j], genResults[j])
  /\ GenCarried(genJobs[j], genMsgs[j], genLost)

GenInv == GenTypes /\ \A j \in GenJobs : GenJobOk(j)

GenStepKept == GenInv' /\ PlanIsFollowed

GenKinds == {"VALIDATE_INPUT", "RESEARCH", "PLAN_OUTLINE", "GENERATE_SECTION", "VERIFY_CLAIMS",
             "VERIFY_POLICY", "OPTIMIZE", "PREPARE_REVIEW"}

\* The plan, step by step.
LEMMA PlanFacts ==
  /\ Steps \in Nat /\ Steps >= 8 /\ StepOrdinals = 1..Steps
  /\ \A i \in StepOrdinals :
       PlanGenerationSteps[i] = IF i = 1 THEN "VALIDATE_INPUT" ELSE IF i = 2 THEN "RESEARCH"
                                ELSE IF i = 3 THEN "PLAN_OUTLINE"
                                ELSE IF i <= 3 + GenSections THEN "GENERATE_SECTION"
                                ELSE IF i = 4 + GenSections THEN "VERIFY_CLAIMS"
                                ELSE IF i = 5 + GenSections THEN "VERIFY_POLICY"
                                ELSE IF i = 6 + GenSections THEN "OPTIMIZE" ELSE "PREPARE_REVIEW"
<1>1. PICK first \in Seq(GenKinds) : first = <<"VALIDATE_INPUT", "RESEARCH", "PLAN_OUTLINE">>
  <2>1. "VALIDATE_INPUT" \in GenKinds /\ "RESEARCH" \in GenKinds /\ "PLAN_OUTLINE" \in GenKinds
    BY DEF GenKinds
  <2>2. \A a, b, c \in GenKinds : <<a, b, c>> \in Seq(GenKinds)
    OBVIOUS
  <2> QED BY <2>1, <2>2
<1>2. PICK middle \in Seq(GenKinds) : middle = [i \in 1..GenSections |-> "GENERATE_SECTION"]
  <2>1. [i \in 1..GenSections |-> "GENERATE_SECTION"] \in Seq(GenKinds)
    BY GenNumbers DEF GenKinds
  <2> QED BY <2>1
<1>3. PICK last \in Seq(GenKinds) : last = <<"VERIFY_CLAIMS", "VERIFY_POLICY", "OPTIMIZE", "PREPARE_REVIEW">>
  <2>1. /\ "VERIFY_CLAIMS" \in GenKinds /\ "VERIFY_POLICY" \in GenKinds /\ "OPTIMIZE" \in GenKinds
        /\ "PREPARE_REVIEW" \in GenKinds
    BY DEF GenKinds
  <2>2. \A a, b, c, d \in GenKinds : <<a, b, c, d>> \in Seq(GenKinds)
    OBVIOUS
  <2> QED BY <2>1, <2>2
<1>4. /\ Len(first) = 3 /\ first[1] = "VALIDATE_INPUT" /\ first[2] = "RESEARCH" /\ first[3] = "PLAN_OUTLINE"
      /\ Len(middle) = GenSections /\ \A i \in 1..GenSections : middle[i] = "GENERATE_SECTION"
      /\ Len(last) = 4 /\ last[1] = "VERIFY_CLAIMS" /\ last[2] = "VERIFY_POLICY" /\ last[3] = "OPTIMIZE"
      /\ last[4] = "PREPARE_REVIEW"
  <2>1. /\ Len(first) = 3 /\ first[1] = "VALIDATE_INPUT" /\ first[2] = "RESEARCH" /\ first[3] = "PLAN_OUTLINE"
    BY <1>1
  <2>2. Len(middle) = GenSections /\ \A i \in 1..GenSections : middle[i] = "GENERATE_SECTION"
    BY <1>2, GenNumbers
  <2>3. /\ Len(last) = 4 /\ last[1] = "VERIFY_CLAIMS" /\ last[2] = "VERIFY_POLICY" /\ last[3] = "OPTIMIZE"
        /\ last[4] = "PREPARE_REVIEW"
    BY <1>3
  <2> QED BY <2>1, <2>2, <2>3
<1>5. PICK begin : begin = first \o middle
  OBVIOUS
<1>6. /\ begin \in Seq(GenKinds) /\ Len(begin) = 3 + GenSections
      /\ \A i \in 1..(3 + GenSections) : begin[i] = IF i <= 3 THEN first[i] ELSE middle[i - 3]
  BY <1>1, <1>2, <1>4, <1>5, GenNumbers
<1>7. PlanGenerationSteps = begin \o last
  <2>1. PlanGenerationSteps = (first \o middle) \o last
    BY <1>1, <1>2, <1>3 DEF PlanGenerationSteps
  <2> QED BY <1>5, <2>1
<1>8. /\ PlanGenerationSteps \in Seq(GenKinds) /\ Len(PlanGenerationSteps) = GenSections + 7
      /\ \A i \in 1..(GenSections + 7) :
           PlanGenerationSteps[i] = IF i <= 3 + GenSections THEN begin[i] ELSE last[i - (3 + GenSections)]
  BY <1>3, <1>4, <1>6, <1>7, GenNumbers
<1>9. Steps \in Nat /\ Steps >= 8 /\ StepOrdinals = 1..Steps
  BY <1>8, GenNumbers DEF Steps, StepOrdinals
<1>10. ASSUME NEW i \in 1..Steps
       PROVE  PlanGenerationSteps[i] = IF i = 1 THEN "VALIDATE_INPUT" ELSE IF i = 2 THEN "RESEARCH"
                                ELSE IF i = 3 THEN "PLAN_OUTLINE"
                                ELSE IF i <= 3 + GenSections THEN "GENERATE_SECTION"
                                ELSE IF i = 4 + GenSections THEN "VERIFY_CLAIMS"
                                ELSE IF i = 5 + GenSections THEN "VERIFY_POLICY"
                                ELSE IF i = 6 + GenSections THEN "OPTIMIZE" ELSE "PREPARE_REVIEW"
  <2>1. CASE i <= 3
    BY <1>4, <1>6, <1>8, <2>1, GenNumbers DEF Steps
  <2>2. CASE i > 3 /\ i <= 3 + GenSections
    <3>1. i - 3 \in 1..GenSections /\ PlanGenerationSteps[i] = middle[i - 3]
      BY <1>6, <1>8, <2>2, GenNumbers DEF Steps
    <3> QED BY <1>4, <2>2, <3>1
  <2>3. CASE i > 3 + GenSections
    <3>1. PlanGenerationSteps[i] = last[i - (3 + GenSections)]
      BY <1>8, <2>3, GenNumbers DEF Steps
    <3>2. i \in {4 + GenSections, 5 + GenSections, 6 + GenSections, 7 + GenSections}
      BY <2>3, GenNumbers DEF Steps
    <3> QED BY <1>4, <2>3, <3>1, <3>2, GenNumbers
  <2> QED BY <2>1, <2>2, <2>3, GenNumbers DEF Steps
<1> QED BY <1>9, <1>10

LEMMA PlanStates ==
  ASSUME NEW i \in StepOrdinals
  PROVE  StepJobState(PlanGenerationSteps[i]) =
           IF i = 1 THEN "VALIDATING" ELSE IF i = 2 THEN "RESEARCHING" ELSE IF i = 3 THEN "PLANNING"
           ELSE IF i <= 3 + GenSections THEN "GENERATING"
           ELSE IF i <= 5 + GenSections THEN "VERIFYING" ELSE "OPTIMIZING"
<1>1. PICK kind : kind = PlanGenerationSteps[i]
  OBVIOUS
<1>2. kind = IF i = 1 THEN "VALIDATE_INPUT" ELSE IF i = 2 THEN "RESEARCH"
             ELSE IF i = 3 THEN "PLAN_OUTLINE"
             ELSE IF i <= 3 + GenSections THEN "GENERATE_SECTION"
             ELSE IF i = 4 + GenSections THEN "VERIFY_CLAIMS"
             ELSE IF i = 5 + GenSections THEN "VERIFY_POLICY"
             ELSE IF i = 6 + GenSections THEN "OPTIMIZE" ELSE "PREPARE_REVIEW"
  BY <1>1, PlanFacts
<1>3. i \in 1..Steps
  BY PlanFacts
<1>4. StepJobState(kind) = IF i = 1 THEN "VALIDATING" ELSE IF i = 2 THEN "RESEARCHING" ELSE IF i = 3 THEN "PLANNING"
           ELSE IF i <= 3 + GenSections THEN "GENERATING"
           ELSE IF i <= 5 + GenSections THEN "VERIFYING" ELSE "OPTIMIZING"
  BY <1>2, <1>3, GenNumbers DEF StepJobState, Steps
<1> QED BY <1>1, <1>4

LEMMA GenInitially == ASSUME GenInit PROVE GenInv
<1>1. NoEvidence \in GenEvidence
  BY GenNumbers DEF NoEvidence, GenEvidence, GenEvents
<1>2. NoGenJob \in GenRows /\ NoGenJob.state = "NONE" /\ NoGenJob.evidence = NoEvidence
  BY <1>1, GenNumbers DEF NoGenJob, GenRows, GenStates
<1>3. PICK hold : hold = [OpenHold EXCEPT !.state = "NONE"]
  OBVIOUS
<1>4. hold \in GenHoldRows /\ hold.state = "NONE"
  BY <1>3, GenNumbers DEF OpenHold, GenHoldRows, GenEvents
<1>5. GenTypes
  BY <1>2, <1>3, <1>4, GenNumbers DEF GenInit, GenTypes, GenStepRows, GenStepStates
<1>6. ASSUME NEW j \in GenJobs PROVE GenJobOk(j)
  <2>1. /\ genJobs[j] = NoGenJob /\ (\A i \in StepOrdinals : genSteps[j][i] = "PENDING") /\ genHolds[j] = hold
        /\ genRuns[j] = 0 /\ genResults[j] = 0 /\ genMsgs[j] = 0
    BY <1>3 DEF GenInit
  <2>2. GenFollowed(genJobs[j], genSteps[j])
    BY <1>2, <2>1 DEF GenFollowed, UnderWay, RunningStates
  <2>3. GenSettled(genJobs[j], genSteps[j], genHolds[j], genRuns[j], genResults[j])
    BY <1>2, <1>4, <2>1 DEF GenSettled
  <2> QED BY <1>2, <2>1, <2>2, <2>3 DEF GenJobOk, GenCarried, UnderWay, RunningStates
<1> QED BY <1>5, <1>6 DEF GenInv

LEMMA GenRowsOf ==
  ASSUME GenInv, NEW j \in GenJobs
  PROVE  /\ genJobs[j] \in GenRows /\ genSteps[j] \in GenStepRows /\ genHolds[j] \in GenHoldRows
         /\ genRuns[j] \in 0..GenMaxRuns /\ genResults[j] \in 0..1 /\ genMsgs[j] \in Nat /\ genLost \in Nat
         /\ GenFollowed(genJobs[j], genSteps[j])
         /\ GenSettled(genJobs[j], genSteps[j], genHolds[j], genRuns[j], genResults[j])
         /\ GenCarried(genJobs[j], genMsgs[j], genLost)
         /\ genJobs = [genJobs EXCEPT ![j] = genJobs[j]] /\ genSteps = [genSteps EXCEPT ![j] = genSteps[j]]
         /\ genHolds = [genHolds EXCEPT ![j] = genHolds[j]] /\ genRuns = [genRuns EXCEPT ![j] = genRuns[j]]
         /\ genResults = [genResults EXCEPT ![j] = genResults[j]]
<1>1. genJobs = [genJobs EXCEPT ![j] = genJobs[j]] /\ genSteps = [genSteps EXCEPT ![j] = genSteps[j]]
  BY DEF GenInv, GenTypes
<1>2. genHolds = [genHolds EXCEPT ![j] = genHolds[j]] /\ genRuns = [genRuns EXCEPT ![j] = genRuns[j]]
  BY DEF GenInv, GenTypes
<1>3. genResults = [genResults EXCEPT ![j] = genResults[j]]
  BY DEF GenInv, GenTypes
<1> QED BY <1>1, <1>2, <1>3 DEF GenInv, GenTypes, GenJobOk

\* The fields of a row.
LEMMA GenRowFields ==
  ASSUME NEW row \in GenRows
  PROVE  /\ row.state \in GenStates /\ row.attempt \in 0..GenMaxAttempts /\ row.evidence \in GenEvidence
         /\ row.evidence.event \in GenEvents /\ row.evidence.cost \in 0..GenMaxRuns
         /\ \A state \in GenStates :
              /\ [row EXCEPT !.state = state] \in GenRows /\ [row EXCEPT !.state = state].state = state
              /\ [row EXCEPT !.state = state].attempt = row.attempt
              /\ [row EXCEPT !.state = state].evidence = row.evidence
         /\ \A evidence \in GenEvidence :
              /\ [row EXCEPT !.evidence = evidence] \in GenRows /\ [row EXCEPT !.evidence = evidence].state = row.state
              /\ [row EXCEPT !.evidence = evidence].attempt = row.attempt
              /\ [row EXCEPT !.evidence = evidence].evidence = evidence
<1>1. row \in [state : GenStates, attempt : 0..GenMaxAttempts, evidence : GenEvidence]
  BY DEF GenRows
<1>2. row.evidence.event \in GenEvents /\ row.evidence.cost \in 0..GenMaxRuns
  BY <1>1 DEF GenEvidence
<1>3. ASSUME NEW state \in GenStates
      PROVE   /\ [row EXCEPT !.state = state] \in GenRows /\ [row EXCEPT !.state = state].state = state
              /\ [row EXCEPT !.state = state].attempt = row.attempt
              /\ [row EXCEPT !.state = state].evidence = row.evidence
  BY <1>1 DEF GenRows
<1>4. ASSUME NEW evidence \in GenEvidence
      PROVE   /\ [row EXCEPT !.evidence = evidence] \in GenRows /\ [row EXCEPT !.evidence = evidence].state = row.state
              /\ [row EXCEPT !.evidence = evidence].attempt = row.attempt
              /\ [row EXCEPT !.evidence = evidence].evidence = evidence
  BY <1>1 DEF GenRows
<1> QED BY <1>1, <1>2, <1>3, <1>4

\* The rows of one job change.
LEMMA GenJobMoved ==
  ASSUME GenInv, NEW j \in GenJobs, NEW job \in GenRows, NEW steps \in GenStepRows, NEW hold \in GenHoldRows,
         NEW runs \in 0..GenMaxRuns, NEW results \in 0..1,
         genJobs' = [genJobs EXCEPT ![j] = job], genSteps' = [genSteps EXCEPT ![j] = steps],
         genHolds' = [genHolds EXCEPT ![j] = hold], genRuns' = [genRuns EXCEPT ![j] = runs],
         genResults' = [genResults EXCEPT ![j] = results],
         genMsgs' \in [GenJobs -> Nat], \A k \in GenJobs : k # j => genMsgs'[k] = genMsgs[k],
         genLost' \in Nat, genLost' >= genLost, genCommands' \subseteq GenJobs \X {"CANCEL", "RETRY"} \X GenKeys,
         GenFollowed(job, steps), GenSettled(job, steps, hold, runs, results),
         GenCarried(job, genMsgs'[j], genLost'),
         \A i \in StepOrdinals :
           /\ genSteps[j][i] = "SUCCEEDED" => steps[i] = "SUCCEEDED"
           /\ genSteps[j][i] # steps[i] /\ steps[i] \in {"SUCCEEDED", "FAILED"} =>
                genJobs[j].state # "CANCEL_REQUESTED"
  PROVE  GenStepKept
<1>1. /\ genJobs'[j] = job /\ genSteps'[j] = steps /\ genHolds'[j] = hold /\ genRuns'[j] = runs
      /\ genResults'[j] = results
  BY DEF GenInv, GenTypes
<1>2. ASSUME NEW k \in GenJobs, k # j
      PROVE  /\ genJobs'[k] = genJobs[k] /\ genSteps'[k] = genSteps[k] /\ genHolds'[k] = genHolds[k]
             /\ genRuns'[k] = genRuns[k] /\ genResults'[k] = genResults[k]
  BY <1>2 DEF GenInv, GenTypes
<1>3. GenTypes'
  BY DEF GenInv, GenTypes
<1>4. GenJobOk(j)'
  BY <1>1 DEF GenJobOk
<1>5. ASSUME NEW k \in GenJobs, k # j PROVE GenJobOk(k)'
  <2>1. GenCarried(genJobs[k], genMsgs[k], genLost')
    <3>1. GenCarried(genJobs[k], genMsgs[k], genLost) /\ genLost \in Nat /\ genMsgs[k] \in Nat
      BY GenRowsOf
    <3> QED BY <3>1 DEF GenCarried
  <2> QED BY <1>2, <1>5, <2>1, GenRowsOf DEF GenJobOk
<1>6. (\A k \in GenJobs : GenJobOk(k))'
  BY <1>4, <1>5
<1>7. ASSUME NEW k \in GenJobs, NEW i \in StepOrdinals
      PROVE  /\ genSteps[k][i] = "SUCCEEDED" => genSteps'[k][i] = "SUCCEEDED"
             /\ genSteps'[k][i] = "SUCCEEDED" => \A m \in 1..(i - 1) : genSteps'[k][m] = "SUCCEEDED"
             /\ (genSteps[k][i] # genSteps'[k][i] /\ genSteps'[k][i] \in {"SUCCEEDED", "FAILED"}) =>
                  genJobs[k].state # "CANCEL_REQUESTED"
  <2>1. CASE k = j
    BY <1>1, <2>1 DEF GenFollowed
  <2>2. CASE k # j
    <3>1. GenFollowed(genJobs[k], genSteps[k])
      BY GenRowsOf
    <3> QED BY <1>2, <2>2, <3>1 DEF GenFollowed
  <2> QED BY <2>1, <2>2
<1>8. PlanIsFollowed
  BY <1>7 DEF PlanIsFollowed
<1> QED BY <1>3, <1>6, <1>8 DEF GenStepKept, GenInv

LEMMA GenEnqueued ==
  ASSUME GenInv, NEW j \in GenJobs, EnqueueGenerationJob(j)
  PROVE  /\ genMsgs' \in [GenJobs -> Nat] /\ \A k \in GenJobs : k # j => genMsgs'[k] = genMsgs[k]
         /\ genLost' \in Nat /\ genLost' >= genLost /\ (genMsgs'[j] > 0 \/ genLost' > 0)
<1>1. genMsgs \in [GenJobs -> Nat] /\ genMsgs[j] + 1 \in Nat /\ genMsgs[j] + 1 > 0 /\ genLost \in Nat
  BY DEF GenInv, GenTypes
<1> QED BY <1>1 DEF EnqueueGenerationJob

LEMMA GenAcknowledged ==
  ASSUME GenInv, NEW j \in GenJobs, genMsgs[j] > 0, NEW more \in 0..1, AcknowledgeGen(j, more)
  PROVE  /\ genMsgs' \in [GenJobs -> Nat] /\ \A k \in GenJobs : k # j => genMsgs'[k] = genMsgs[k]
         /\ more = 1 => genMsgs'[j] > 0
<1>1. genMsgs \in [GenJobs -> Nat] /\ genMsgs[j] \in Nat
  BY DEF GenInv, GenTypes
<1>2. PICK m \in Nat : genMsgs' = [genMsgs EXCEPT ![j] = m] /\ (more = 1 => m > 0)
  <2>1. CASE genMsgs' = [genMsgs EXCEPT ![j] = @ - 1 + more]
    <3>1. genMsgs[j] - 1 + more \in Nat /\ (more = 1 => genMsgs[j] - 1 + more > 0)
      BY <1>1
    <3> QED BY <2>1, <3>1
  <2>2. CASE \E sent \in 0..more : genMsgs' = [genMsgs EXCEPT ![j] = @ + sent]
    <3>1. PICK sent \in 0..more : genMsgs' = [genMsgs EXCEPT ![j] = @ + sent]
      BY <2>2
    <3>2. genMsgs[j] + sent \in Nat /\ genMsgs[j] + sent > 0
      BY <1>1
    <3> QED BY <3>1, <3>2
  <2> QED BY <2>1, <2>2 DEF AcknowledgeGen
<1> QED BY <1>1, <1>2

LEMMA CreateGenKept == ASSUME GenInv, NEW j \in GenJobs, CreateGenJob(j) PROVE GenStepKept
<1>1. PICK job : job = [genJobs[j] EXCEPT !.state = "QUEUED"]
  OBVIOUS
<1>2. genJobs[j] = NoGenJob /\ genJobs[j] \in GenRows /\ "QUEUED" \in GenStates
  BY GenRowsOf DEF CreateGenJob, GenStates
<1>3. job \in GenRows /\ job.state = "QUEUED" /\ job.attempt = 0 /\ job.evidence = NoEvidence
  BY <1>1, <1>2, GenRowFields DEF NoGenJob
<1>4. OpenHold \in GenHoldRows /\ OpenHold.state = "HELD"
  BY GenNumbers DEF OpenHold, GenHoldRows, GenEvents
<1>5. /\ genJobs' = [genJobs EXCEPT ![j] = job] /\ genHolds' = [genHolds EXCEPT ![j] = OpenHold]
      /\ genSteps' = [genSteps EXCEPT ![j] = genSteps[j]] /\ genRuns' = [genRuns EXCEPT ![j] = genRuns[j]]
      /\ genResults' = [genResults EXCEPT ![j] = genResults[j]] /\ EnqueueGenerationJob(j)
      /\ genCommands' = genCommands
  BY <1>1, GenRowsOf DEF CreateGenJob
<1>6. \A i \in StepOrdinals : genSteps[j][i] = "PENDING"
  BY <1>2, GenRowsOf DEF GenFollowed, NoGenJob
<1>7. GenFollowed(job, genSteps[j])
  <2>1. OnPlan(job.state, genSteps[j], 0) /\ 0 \in 0..(Steps - 1)
    BY <1>3, <1>6, PlanFacts DEF OnPlan
  <2> QED BY <1>3, <1>6, <2>1 DEF GenFollowed, UnderWay
<1>8. GenSettled(job, genSteps[j], OpenHold, genRuns[j], genResults[j])
  <2>1. genResults[j] = 0
    BY <1>2, GenRowsOf DEF GenSettled, NoGenJob
  <2> QED BY <1>3, <1>4, <2>1 DEF GenSettled
<1>9. /\ genMsgs' \in [GenJobs -> Nat] /\ \A k \in GenJobs : k # j => genMsgs'[k] = genMsgs[k]
      /\ genLost' \in Nat /\ genLost' >= genLost /\ (genMsgs'[j] > 0 \/ genLost' > 0)
  BY <1>5, GenEnqueued
<1>10. GenCarried(job, genMsgs'[j], genLost')
  BY <1>3, <1>9 DEF GenCarried
<1>11. genCommands' \subseteq GenJobs \X {"CANCEL", "RETRY"} \X GenKeys
  BY <1>5 DEF GenInv, GenTypes
<1> QED BY <1>3, <1>4, <1>5, <1>7, <1>8, <1>9, <1>10, <1>11, GenRowsOf, GenJobMoved

\* Who may be asked to stop or to try again.
LEMMA GenCommandsAllowed ==
  ASSUME NEW state \in GenStates, state # "NONE"
  PROVE  /\ EnsureJobTransition(state, "QUEUED") => state \in {"QUALITY_BLOCKED", "RETRYABLE_FAILED"}
         /\ EnsureJobTransition(state, "CANCEL_REQUESTED") =>
              state \notin {"CANCEL_REQUESTED", "CANCELLED", "FINAL_FAILED"}
<1>1. /\ "QUEUED" \notin ALLOWED_JOB_TRANSITIONS["QUEUED"]
      /\ "QUEUED" \notin ALLOWED_JOB_TRANSITIONS["WAITING_REVIEW"]
      /\ "QUEUED" \notin ALLOWED_JOB_TRANSITIONS["CANCEL_REQUESTED"]
      /\ ALLOWED_JOB_TRANSITIONS["CANCELLED"] = {}
      /\ ALLOWED_JOB_TRANSITIONS["FINAL_FAILED"] = {}
      /\ "CANCEL_REQUESTED" \notin ALLOWED_JOB_TRANSITIONS["CANCEL_REQUESTED"]
  BY DEF ALLOWED_JOB_TRANSITIONS
<1>2. \A s \in RunningStates : "QUEUED" \notin ALLOWED_JOB_TRANSITIONS[s]
  BY DEF ALLOWED_JOB_TRANSITIONS, RunningStates
<1> QED BY <1>1, <1>2 DEF EnsureJobTransition, GenStates

LEMMA CancelGenKept ==
  ASSUME GenInv, NEW j \in GenJobs, NEW key \in GenKeys, CancelGenJob(j, key) PROVE GenStepKept
<1>1. /\ genSteps' = [genSteps EXCEPT ![j] = genSteps[j]] /\ genRuns' = [genRuns EXCEPT ![j] = genRuns[j]]
      /\ genResults' = [genResults EXCEPT ![j] = genResults[j]]
      /\ genHolds' = [genHolds EXCEPT ![j] = genHolds[j]]
  BY GenRowsOf DEF CancelGenJob
<1>2. PICK job \in GenRows :
        /\ genJobs' = [genJobs EXCEPT ![j] = job]
        /\ job = genJobs[j] \/ ( /\ job.state = "CANCEL_REQUESTED" /\ job.evidence = genJobs[j].evidence
                                 /\ EnsureJobTransition(genJobs[j].state, "CANCEL_REQUESTED"))
        /\ genCommands' \subseteq GenJobs \X {"CANCEL", "RETRY"} \X GenKeys
  <2>1. CASE UNCHANGED <<genJobs, genCommands>>
    BY <2>1, GenRowsOf DEF GenInv, GenTypes
  <2>2. CASE /\ EnsureJobTransition(genJobs[j].state, "CANCEL_REQUESTED")
             /\ genJobs' = [genJobs EXCEPT ![j].state = "CANCEL_REQUESTED"]
             /\ genCommands' = genCommands \cup {<<j, "CANCEL", key>>}
    <3>1. PICK row : row = [genJobs[j] EXCEPT !.state = "CANCEL_REQUESTED"]
      OBVIOUS
    <3>2. "CANCEL_REQUESTED" \in GenStates /\ genJobs[j] \in GenRows
      BY GenRowsOf DEF GenStates
    <3>3. row \in GenRows /\ row.state = "CANCEL_REQUESTED" /\ row.evidence = genJobs[j].evidence
      BY <3>1, <3>2, GenRowFields
    <3>4. genJobs' = [genJobs EXCEPT ![j] = row]
      BY <2>2, <3>1
    <3>5. genCommands' \subseteq GenJobs \X {"CANCEL", "RETRY"} \X GenKeys
      BY <2>2 DEF GenInv, GenTypes
    <3> QED BY <2>2, <3>3, <3>4, <3>5
  <2> QED BY <2>1, <2>2 DEF CancelGenJob
<1>3. genJobs[j].state \in GenStates /\ genJobs[j].state # "NONE" /\ genJobs[j] \in GenRows
  BY GenRowsOf, GenRowFields DEF CancelGenJob, GenSettled, NoGenJob, NoEvidence
<1>4. GenFollowed(job, genSteps[j])
  BY <1>2, GenRowsOf DEF GenFollowed, UnderWay, RunningStates
<1>5. GenSettled(job, genSteps[j], genHolds[j], genRuns[j], genResults[j])
  BY <1>2, <1>3, GenRowsOf, GenCommandsAllowed DEF GenSettled
<1>6. genJobs'[j] = job
  BY <1>2 DEF GenInv, GenTypes
<1>7. CASE job.state = "CANCEL_REQUESTED"
  <2>1. EnqueueGenerationJob(j)
    BY <1>6, <1>7 DEF CancelGenJob
  <2>2. /\ genMsgs' \in [GenJobs -> Nat] /\ \A k \in GenJobs : k # j => genMsgs'[k] = genMsgs[k]
        /\ genLost' \in Nat /\ genLost' >= genLost /\ (genMsgs'[j] > 0 \/ genLost' > 0)
    BY <2>1, GenEnqueued
  <2>3. GenCarried(job, genMsgs'[j], genLost')
    BY <1>7, <2>2 DEF GenCarried
  <2> QED BY <1>1, <1>2, <1>4, <1>5, <2>2, <2>3, GenRowsOf, GenJobMoved
<1>8. CASE job.state # "CANCEL_REQUESTED"
  <2>1. UNCHANGED <<genMsgs, genLost>>
    BY <1>6, <1>8 DEF CancelGenJob
  <2>2. /\ genMsgs' \in [GenJobs -> Nat] /\ \A k \in GenJobs : k # j => genMsgs'[k] = genMsgs[k]
        /\ genLost' \in Nat /\ genLost' >= genLost
    BY <2>1 DEF GenInv, GenTypes
  <2>3. GenCarried(job, genMsgs'[j], genLost')
    BY <1>2, <1>8, <2>1, GenRowsOf
  <2> QED BY <1>1, <1>2, <1>4, <1>5, <2>2, <2>3, GenRowsOf, GenJobMoved
<1> QED BY <1>7, <1>8

LEMMA RetryGenKept ==
  ASSUME GenInv, NEW j \in GenJobs, NEW key \in GenKeys, RetryGenJob(j, key) PROVE GenStepKept
<1>1. /\ genRuns' = [genRuns EXCEPT ![j] = genRuns[j]]
      /\ genResults' = [genResults EXCEPT ![j] = genResults[j]]
      /\ genHolds' = [genHolds EXCEPT ![j] = genHolds[j]] /\ EnqueueGenerationJob(j)
  BY GenRowsOf DEF RetryGenJob
<1>2. /\ genMsgs' \in [GenJobs -> Nat] /\ \A k \in GenJobs : k # j => genMsgs'[k] = genMsgs[k]
      /\ genLost' \in Nat /\ genLost' >= genLost /\ (genMsgs'[j] > 0 \/ genLost' > 0)
  BY <1>1, GenEnqueued
<1>3. genJobs[j].state \in GenStates /\ genJobs[j].state # "NONE" /\ genJobs[j] \in GenRows
  BY GenRowsOf, GenRowFields DEF RetryGenJob, GenSettled, NoGenJob, NoEvidence
<1>4. CASE UNCHANGED <<genJobs, genSteps, genCommands>>
  <2>1. /\ genJobs' = [genJobs EXCEPT ![j] = genJobs[j]] /\ genSteps' = [genSteps EXCEPT ![j] = genSteps[j]]
        /\ genCommands' \subseteq GenJobs \X {"CANCEL", "RETRY"} \X GenKeys
    BY <1>4, GenRowsOf DEF GenInv, GenTypes
  <2>2. GenCarried(genJobs[j], genMsgs'[j], genLost')
    BY <1>2, <1>3 DEF GenCarried
  <2> QED BY <1>1, <1>2, <2>1, <2>2, GenRowsOf, GenJobMoved
<1>5. CASE /\ EnsureJobTransition(genJobs[j].state, "QUEUED")
           /\ genJobs[j].attempt < GenMaxAttempts
           /\ genJobs' = [genJobs EXCEPT ![j].state = "QUEUED", ![j].attempt = @ + 1]
           /\ genSteps' = [genSteps EXCEPT ![j] = RetryingSteps(@)]
           /\ genCommands' = genCommands \cup {<<j, "RETRY", key>>}
  <2>1. PICK job : job = [genJobs[j] EXCEPT !.state = "QUEUED", !.attempt = genJobs[j].attempt + 1]
    OBVIOUS
  <2>2. genJobs' = [genJobs EXCEPT ![j] = job]
    BY <1>5, <2>1 DEF GenInv, GenTypes
  <2>3. job \in GenRows /\ job.state = "QUEUED" /\ job.attempt > 0 /\ job.evidence = genJobs[j].evidence
    <3>1. PICK old \in GenRows : old = genJobs[j]
      BY <1>3
    <3>2. old = [state |-> old.state, attempt |-> old.attempt, evidence |-> old.evidence]
          /\ old.attempt \in 0..GenMaxAttempts /\ old.evidence \in GenEvidence
      BY DEF GenRows
    <3>3. job = [state |-> "QUEUED", attempt |-> old.attempt + 1, evidence |-> old.evidence]
      BY <2>1, <3>1, <3>2
    <3>4. old.attempt + 1 \in 0..GenMaxAttempts /\ old.attempt + 1 > 0 /\ "QUEUED" \in GenStates
      BY <1>5, <3>1, <3>2, GenNumbers DEF GenStates
    <3> QED BY <3>1, <3>2, <3>3, <3>4 DEF GenRows
  <2>4. PICK steps : steps = RetryingSteps(genSteps[j])
    OBVIOUS
  <2>5. /\ genSteps' = [genSteps EXCEPT ![j] = steps] /\ steps \in GenStepRows
        /\ \A i \in StepOrdinals : steps[i] = "SUCCEEDED" <=> genSteps[j][i] = "SUCCEEDED"
        /\ \A i \in StepOrdinals : steps[i] # "FAILED"
    BY <1>5, <2>4, GenRowsOf DEF RetryingSteps, GenStepRows, GenStepStates
  <2>6. genJobs[j].state \in {"QUALITY_BLOCKED", "RETRYABLE_FAILED"}
    BY <1>3, <1>5, GenCommandsAllowed
  <2>7. GenFollowed(job, steps)
    <3>1. genSteps[j][1] = "SUCCEEDED"
      BY <2>6, GenRowsOf DEF GenFollowed, UnderWay, RunningStates
    <3>2. 1 \in StepOrdinals /\ \A i \in StepOrdinals : \A k \in 1..(i - 1) : k \in StepOrdinals
      BY PlanFacts
    <3>3. \A i \in StepOrdinals : genSteps[j][i] = "SUCCEEDED" => \A k \in 1..(i - 1) : genSteps[j][k] = "SUCCEEDED"
      BY GenRowsOf DEF GenFollowed
    <3>4. \A i \in StepOrdinals : steps[i] = "SUCCEEDED" => \A k \in 1..(i - 1) : steps[k] = "SUCCEEDED"
      BY <2>5, <3>2, <3>3
    <3>5. ~UnderWay(job)
      <4>1. job.attempt \in Nat
        BY <2>3, GenRowFields, GenNumbers
      <4> QED BY <2>3, <4>1 DEF UnderWay, RunningStates
    <3> QED BY <2>3, <2>5, <3>1, <3>2, <3>4, <3>5 DEF GenFollowed
  <2>8. GenSettled(job, steps, genHolds[j], genRuns[j], genResults[j])
    BY <2>3, <2>5, <2>6, GenRowsOf DEF GenSettled
  <2>9. GenCarried(job, genMsgs'[j], genLost')
    BY <1>2, <2>3 DEF GenCarried
  <2>10. genCommands' \subseteq GenJobs \X {"CANCEL", "RETRY"} \X GenKeys
    BY <1>5 DEF GenInv, GenTypes
  <2>11. \A i \in StepOrdinals :
           /\ genSteps[j][i] = "SUCCEEDED" => steps[i] = "SUCCEEDED"
           /\ genSteps[j][i] # steps[i] /\ steps[i] \in {"SUCCEEDED", "FAILED"} =>
                genJobs[j].state # "CANCEL_REQUESTED"
    BY <2>5
  <2> QED BY <1>1, <1>2, <2>2, <2>3, <2>5, <2>7, <2>8, <2>9, <2>10, <2>11, GenRowsOf, GenJobMoved
<1> QED BY <1>4, <1>5 DEF RetryGenJob

\* What is settled is a hold that is open, or as it was settled before.
GenSettleable(job, steps, hold, runs, results) ==
  /\ job.state \in {"WAITING_REVIEW", "CANCELLED", "FINAL_FAILED"}
  /\ \/ /\ job.evidence = NoEvidence /\ hold.state = "HELD"
        /\ IF job.state = "WAITING_REVIEW"
           THEN results = 1 /\ \A i \in StepOrdinals : steps[i] = "SUCCEEDED"
           ELSE results = 0
     \/ job.evidence # NoEvidence /\ GenSettled(job, steps, hold, runs, results)

LEMMA GenSettles ==
  ASSUME GenInv, NEW j \in GenJobs, NEW job \in GenRows, NEW steps, NEW runs \in 0..GenMaxRuns, NEW results,
         GenSettleable(job, steps, genHolds[j], runs, results),
         SettleGenerationTerminal(j, job, runs)
  PROVE  \E after \in GenRows, hold \in GenHoldRows :
           /\ genJobs' = [genJobs EXCEPT ![j] = after] /\ genHolds' = [genHolds EXCEPT ![j] = hold]
           /\ after.state = job.state /\ after.attempt = job.attempt
           /\ GenSettled(after, steps, hold, runs, results)
<1>0. job.state \in {"WAITING_REVIEW", "CANCELLED", "FINAL_FAILED"}
  BY DEF GenSettleable
<1>1. PICK event : event = TerminalEvent(job)
  OBVIOUS
<1>2. event = IF job.evidence # NoEvidence THEN job.evidence.event
              ELSE IF job.state = "WAITING_REVIEW" THEN "success" ELSE job.state
  BY <1>0, <1>1 DEF TerminalEvent, GenSuccessStates
<1>3. PICK after : after = [job EXCEPT !.evidence = [event |-> event, cost |-> runs]]
  OBVIOUS
<1>4. PICK hold : hold = ClosedHold(genHolds[j], event, runs)
  OBVIOUS
<1>5. /\ MaySettleGen(job, genHolds[j], runs)
      /\ genJobs' = [genJobs EXCEPT ![j] = after] /\ genHolds' = [genHolds EXCEPT ![j] = hold]
  BY <1>0, <1>1, <1>3, <1>4 DEF SettleGenerationTerminal, GenSuccessStates, GenFailureStates, GenInv, GenTypes
<1>6. event \in GenEvents /\ genHolds[j] \in GenHoldRows
  BY <1>0, <1>2, GenRowFields, GenRowsOf DEF GenEvents, GenFailureStates
<1>7. PICK evidence \in GenEvidence : evidence = [event |-> event, cost |-> runs]
  BY <1>6 DEF GenEvidence
<1>8. /\ after \in GenRows /\ after.state = job.state /\ after.attempt = job.attempt
      /\ after.evidence = evidence /\ evidence.event = event /\ evidence.cost = runs
  BY <1>3, <1>7, GenRowFields
<1>9. event = "success" => runs <= GenBudget
  BY <1>1, <1>5 DEF MaySettleGen
<1>10. CASE /\ job.evidence = NoEvidence /\ genHolds[j].state = "HELD"
            /\ IF job.state = "WAITING_REVIEW"
               THEN results = 1 /\ \A i \in StepOrdinals : steps[i] = "SUCCEEDED"
               ELSE results = 0
  <2>1. evidence # NoEvidence
    BY <1>0, <1>2, <1>8, <1>10 DEF NoEvidence
  <2>2. CASE job.state = "WAITING_REVIEW"
    <3>1. hold = [state |-> "FINALIZED", event |-> "success", charged |-> runs] /\ event = "success"
      BY <1>2, <1>4, <1>10, <2>2 DEF ClosedHold
    <3>2. hold \in GenHoldRows /\ hold.state = "FINALIZED" /\ hold.event = "success"
      BY <1>9, <3>1, GenNumbers DEF GenHoldRows, GenEvents
    <3>3. results = 1 /\ \A i \in StepOrdinals : steps[i] = "SUCCEEDED"
      BY <1>10, <2>2
    <3>4. GenSettled(after, steps, hold, runs, results)
      BY <1>8, <1>9, <2>1, <2>2, <3>1, <3>2, <3>3 DEF GenSettled
    <3> QED BY <1>5, <1>8, <3>2, <3>4
  <2>3. CASE job.state # "WAITING_REVIEW"
    <3>1. hold = [state |-> "RELEASED", event |-> event, charged |-> 0] /\ event = job.state /\ event # "success"
      BY <1>0, <1>2, <1>4, <1>10, <2>3 DEF ClosedHold
    <3>2. hold \in GenHoldRows /\ hold.state = "RELEASED" /\ hold.event = event
      BY <1>6, <3>1, GenNumbers DEF GenHoldRows
    <3>3. results = 0
      BY <1>10, <2>3
    <3>4. GenSettled(after, steps, hold, runs, results)
      BY <1>0, <1>8, <2>1, <2>3, <3>1, <3>2, <3>3 DEF GenSettled
    <3> QED BY <1>5, <1>8, <3>2, <3>4
  <2> QED BY <2>2, <2>3
<1>11. CASE job.evidence # NoEvidence /\ GenSettled(job, steps, genHolds[j], runs, results)
  <2>1. genHolds[j].state # "HELD" /\ genHolds[j].event = event /\ job.evidence.cost = runs
    BY <1>2, <1>11 DEF GenSettled
  <2>2. hold = genHolds[j]
    BY <1>4, <2>1 DEF ClosedHold
  <2>3. job.evidence = evidence
    <3>1. job.evidence \in GenEvidence
      BY GenRowFields
    <3>2. job.evidence = [event |-> job.evidence.event, cost |-> job.evidence.cost]
      BY <3>1 DEF GenEvidence
    <3> QED BY <1>2, <1>7, <1>11, <2>1, <3>2
  <2>4. GenSettled(after, steps, hold, runs, results)
    BY <1>8, <1>11, <2>2, <2>3 DEF GenSettled
  <2> QED BY <1>5, <1>6, <1>8, <2>2, <2>4
<1> QED BY <1>10, <1>11 DEF GenSettleable

LEMMA FirstStep ==
  ASSUME NEW j, ClaimableSteps(j) # {}
  PROVE  NextStep(j) \in ClaimableSteps(j) /\ \A k \in ClaimableSteps(j) : NextStep(j) <= k
<1>1. ClaimableSteps(j) \subseteq Nat
  BY PlanFacts DEF ClaimableSteps
<1>2. PICK i \in ClaimableSteps(j) : \A k \in ClaimableSteps(j) : ~(k < i)
  BY <1>1, LeastNatural
<1>3. \A k \in ClaimableSteps(j) : i <= k
  BY <1>1, <1>2
<1> QED BY <1>2, <1>3 DEF NextStep

\* A job on its way through the plan can always do the next step of it.
LEMMA PlanGoesOn ==
  ASSUME NEW j, NEW n \in 0..(Steps - 1), OnPlan(genJobs[j].state, genSteps[j], n)
  PROVE  /\ LooksForStep(j) /\ StepAllowed(j) /\ NextStep(j) = n + 1
<1>1. n + 1 \in StepOrdinals /\ StepOrdinals \subseteq Nat
  BY PlanFacts
<1>2. ClaimableSteps(j) = {i \in StepOrdinals : i > n}
  BY PlanFacts DEF ClaimableSteps, OnPlan
<1>3. ClaimableSteps(j) # {} /\ n + 1 \in ClaimableSteps(j)
  BY <1>1, <1>2
<1>4. NextStep(j) = n + 1
  <2>1. PICK next : next = NextStep(j)
    OBVIOUS
  <2>2. next \in ClaimableSteps(j) /\ next <= n + 1
    BY <1>3, <2>1, FirstStep
  <2>3. next \in Nat /\ next > n
    BY <1>1, <1>2, <2>2
  <2> QED BY <2>1, <2>2, <2>3
<1>5. PICK target : target = StepJobState(PlanGenerationSteps[n + 1])
  OBVIOUS
<1>6. target = IF n + 1 = 1 THEN "VALIDATING" ELSE IF n + 1 = 2 THEN "RESEARCHING" ELSE IF n + 1 = 3 THEN "PLANNING"
           ELSE IF n + 1 <= 3 + GenSections THEN "GENERATING"
           ELSE IF n + 1 <= 5 + GenSections THEN "VERIFYING" ELSE "OPTIMIZING"
  BY <1>1, <1>5, PlanStates
<1>7. PICK state : state = genJobs[j].state
  OBVIOUS
<1>8. state = IF n = 0 THEN "QUEUED"
           ELSE IF n = 1 THEN "VALIDATING" ELSE IF n = 2 THEN "RESEARCHING" ELSE IF n = 3 THEN "PLANNING"
           ELSE IF n <= 3 + GenSections THEN "GENERATING"
           ELSE IF n <= 5 + GenSections THEN "VERIFYING" ELSE "OPTIMIZING"
  <2>1. CASE n = 0
    BY <1>7, <2>1 DEF OnPlan
  <2>2. CASE n # 0
    <3>1. n \in StepOrdinals
      BY <2>2, PlanFacts
    <3> QED BY <1>7, <2>2, <3>1, PlanStates DEF OnPlan
  <2> QED BY <2>1, <2>2
<1>9. target = state \/ EnsureJobTransition(state, target)
  <2>1. /\ "VALIDATING" \in ALLOWED_JOB_TRANSITIONS["QUEUED"]
        /\ "RESEARCHING" \in ALLOWED_JOB_TRANSITIONS["VALIDATING"]
        /\ "PLANNING" \in ALLOWED_JOB_TRANSITIONS["RESEARCHING"]
        /\ "GENERATING" \in ALLOWED_JOB_TRANSITIONS["PLANNING"]
        /\ "VERIFYING" \in ALLOWED_JOB_TRANSITIONS["GENERATING"]
        /\ "OPTIMIZING" \in ALLOWED_JOB_TRANSITIONS["VERIFYING"]
    BY DEF ALLOWED_JOB_TRANSITIONS
  <2>2. \/ state = "QUEUED" /\ target = "VALIDATING"
        \/ state = "VALIDATING" /\ target = "RESEARCHING"
        \/ state = "RESEARCHING" /\ target = "PLANNING"
        \/ state = "PLANNING" /\ target = "GENERATING"
        \/ state = "GENERATING" /\ target = "VERIFYING"
        \/ state = "VERIFYING" /\ target = "OPTIMIZING"
        \/ target = state
    BY <1>6, <1>8, GenNumbers
  <2> QED BY <2>1, <2>2 DEF EnsureJobTransition
<1>10. LooksForStep(j)
  BY <1>3, <1>7, <1>8 DEF LooksForStep, TERMINAL_JOB_STATES
<1>11. StepAllowed(j)
  BY <1>4, <1>5, <1>7, <1>9 DEF StepAllowed
<1> QED BY <1>4, <1>10, <1>11

\* Only a job on its way through the plan claims a step: one that was retried finds its step
\* beyond what its state allows.
LEMMA ClaimedFacts ==
  ASSUME GenInv, NEW j \in GenJobs, genMsgs[j] > 0, Claimed(j)
  PROVE  /\ UnderWay(genJobs[j]) /\ genJobs[j].evidence = NoEvidence /\ genHolds[j].state = "HELD"
         /\ genResults[j] = 0
         /\ \E n \in 0..(Steps - 1) : OnPlan(genJobs[j].state, genSteps[j], n) /\ NextStep(j) = n + 1
<1>1. /\ genJobs[j].state \in GenStates /\ GenFollowed(genJobs[j], genSteps[j])
      /\ GenSettled(genJobs[j], genSteps[j], genHolds[j], genRuns[j], genResults[j])
      /\ GenCarried(genJobs[j], genMsgs[j], genLost) /\ genJobs[j] \in GenRows
  BY GenRowsOf, GenRowFields
<1>2. genJobs[j].state \notin {"NONE", "CANCEL_REQUESTED", "CANCELLED", "FINAL_FAILED"}
  BY <1>1 DEF Claimed, LooksForStep, GenCarried, TERMINAL_JOB_STATES
<1>3. NextStep(j) \in StepOrdinals /\ genSteps[j][NextStep(j)] \in {"PENDING", "RETRYING"}
  BY FirstStep DEF Claimed, LooksForStep, ClaimableSteps
<1>4. genJobs[j].state # "WAITING_REVIEW"
  BY <1>1, <1>3 DEF GenSettled
<1>5. UnderWay(genJobs[j])
  <2>1. SUFFICES ASSUME ~UnderWay(genJobs[j]) PROVE FALSE
    OBVIOUS
  <2>2. genJobs[j].state \in {"QUEUED", "RETRYABLE_FAILED", "QUALITY_BLOCKED"}
    BY <1>1, <1>2, <1>4, <2>1 DEF GenStates, UnderWay
  <2>3. NextStep(j) # 1
    BY <1>1, <1>3, <2>1, <2>2 DEF GenFollowed
  <2>4. PICK target : target = StepJobState(PlanGenerationSteps[NextStep(j)])
    OBVIOUS
  <2>5. target \in RunningStates \ {"VALIDATING"}
    BY <1>3, <2>3, <2>4, PlanStates DEF RunningStates
  <2>6. target # genJobs[j].state
    BY <2>2, <2>5 DEF RunningStates
  <2>7. \A s \in {"QUEUED", "RETRYABLE_FAILED", "QUALITY_BLOCKED"} :
          \A t \in RunningStates \ {"VALIDATING"} : t \notin ALLOWED_JOB_TRANSITIONS[s]
    BY DEF ALLOWED_JOB_TRANSITIONS, RunningStates
  <2> QED BY <2>2, <2>4, <2>5, <2>6, <2>7 DEF Claimed, StepAllowed, EnsureJobTransition
<1>6. PICK n \in 0..(Steps - 1) : OnPlan(genJobs[j].state, genSteps[j], n)
  BY <1>1, <1>5 DEF GenFollowed
<1>7. NextStep(j) = n + 1
  BY <1>6, PlanGoesOn
<1>8. genJobs[j].state \in RunningStates \cup {"QUEUED"}
  BY <1>5 DEF UnderWay
<1>9. genJobs[j].evidence = NoEvidence /\ genHolds[j].state = "HELD" /\ genResults[j] = 0
  BY <1>1, <1>2, <1>8 DEF GenSettled, RunningStates
<1> QED BY <1>5, <1>6, <1>7, <1>9

\* A step that was claimed ends.
LEMMA RunStepKept ==
  ASSUME GenInv, NEW j \in GenJobs, NEW step \in {"SUCCEEDED", "FAILED"}, NEW state \in GenStates,
         NEW spent \in 0..1, NEW results \in 0..1, NEW more \in 0..1, RunStep(j, step, state, spent, results, more),
         \/ /\ step = "SUCCEEDED" /\ state = StepJobState(PlanGenerationSteps[NextStep(j)])
            /\ NextStep(j) # Steps /\ results = 0 /\ more = 1
         \/ step = "SUCCEEDED" /\ state = "WAITING_REVIEW" /\ NextStep(j) = Steps /\ results = 1
         \/ /\ step = "FAILED" /\ state \in {"RETRYABLE_FAILED", "QUALITY_BLOCKED", "FINAL_FAILED"}
            /\ NextStep(j) # 1 /\ results = 0
  PROVE  GenStepKept
<1>1. /\ genMsgs[j] > 0 /\ Claimed(j) /\ genRuns[j] + spent <= GenMaxRuns
      /\ genSteps' = [genSteps EXCEPT ![j][NextStep(j)] = step]
      /\ genRuns' = [genRuns EXCEPT ![j] = @ + spent]
      /\ genResults' = [genResults EXCEPT ![j] = @ + results]
      /\ AcknowledgeGen(j, more)
      /\ UNCHANGED <<genCommands, genLost>>
  BY DEF RunStep
<1>2. /\ UnderWay(genJobs[j]) /\ genJobs[j].evidence = NoEvidence /\ genHolds[j].state = "HELD"
      /\ genResults[j] = 0
  BY <1>1, ClaimedFacts
<1>3. PICK n \in 0..(Steps - 1) : OnPlan(genJobs[j].state, genSteps[j], n) /\ NextStep(j) = n + 1
  BY <1>1, ClaimedFacts
<1>4. PICK m \in StepOrdinals : m = n + 1 /\ m = NextStep(j)
  BY <1>3, PlanFacts
<1>5. PICK job : job = [genJobs[j] EXCEPT !.state = state]
  OBVIOUS
<1>6. job \in GenRows /\ job.state = state /\ job.attempt = genJobs[j].attempt /\ job.evidence = NoEvidence
  BY <1>2, <1>5, GenRowsOf, GenRowFields
<1>7. PICK steps : steps = [genSteps[j] EXCEPT ![m] = step]
  OBVIOUS
<1>8. /\ genSteps[j] \in GenStepRows /\ steps \in GenStepRows /\ steps[m] = step
      /\ \A i \in StepOrdinals : i # m => steps[i] = genSteps[j][i]
  BY <1>7, GenRowsOf DEF GenStepRows, GenStepStates
<1>9. genSteps' = [genSteps EXCEPT ![j] = steps]
  BY <1>1, <1>4, <1>7 DEF GenInv, GenTypes
<1>10. \A i \in StepOrdinals : genSteps[j][i] = IF i < m THEN "SUCCEEDED" ELSE "PENDING"
  BY <1>3, <1>4, PlanFacts DEF OnPlan
<1>11. \A i \in StepOrdinals : steps[i] = IF i < m THEN "SUCCEEDED" ELSE IF i = m THEN step ELSE "PENDING"
  BY <1>8, <1>10, PlanFacts
<1>12. PICK runs \in 0..GenMaxRuns : runs = genRuns[j] + spent
  BY <1>1, GenRowsOf, GenNumbers
<1>13. /\ genRuns' = [genRuns EXCEPT ![j] = runs] /\ genResults' = [genResults EXCEPT ![j] = results]
       /\ SettleGenerationTerminal(j, job, runs)
  <2>1. genRuns' = [genRuns EXCEPT ![j] = runs]
    BY <1>1, <1>12
  <2>2. genResults' = [genResults EXCEPT ![j] = results]
    <3>1. genResults[j] + results = results
      BY <1>2
    <3> QED BY <1>1, <3>1
  <2>3. SettleGenerationTerminal(j, job, runs)
    BY <1>5, <1>12 DEF RunStep
  <2> QED BY <2>1, <2>2, <2>3
<1>14. PICK after \in GenRows, hold \in GenHoldRows :
         /\ genJobs' = [genJobs EXCEPT ![j] = after] /\ genHolds' = [genHolds EXCEPT ![j] = hold]
         /\ after.state = state /\ after.attempt = job.attempt
         /\ GenSettled(after, steps, hold, runs, results)
  <2>1. CASE state \in {"WAITING_REVIEW", "FINAL_FAILED"}
    <3>1. IF state = "WAITING_REVIEW"
          THEN results = 1 /\ \A i \in StepOrdinals : steps[i] = "SUCCEEDED"
          ELSE results = 0
      <4>1. CASE state = "WAITING_REVIEW"
        <5>1. step = "SUCCEEDED" /\ m = Steps /\ results = 1
          <6>1. \A i \in StepOrdinals : StepJobState(PlanGenerationSteps[i]) \in RunningStates
            BY PlanStates DEF RunningStates
          <6> QED BY <1>4, <4>1, <6>1 DEF RunningStates
        <5> QED BY <1>11, <4>1, <5>1, PlanFacts
      <4>2. CASE state # "WAITING_REVIEW"
        BY <4>2
      <4> QED BY <4>1, <4>2
    <3>2. job.state \in {"WAITING_REVIEW", "CANCELLED", "FINAL_FAILED"}
      BY <1>6, <2>1
    <3>3. GenSettleable(job, steps, genHolds[j], runs, results)
      BY <1>2, <1>6, <3>1, <3>2 DEF GenSettleable
    <3>5. SettleGenerationTerminal(j, job, runs) /\ job \in GenRows
      BY <1>6, <1>13
    <3>4. \E next \in GenRows, hold \in GenHoldRows :
            /\ genJobs' = [genJobs EXCEPT ![j] = next] /\ genHolds' = [genHolds EXCEPT ![j] = hold]
            /\ next.state = job.state /\ next.attempt = job.attempt
            /\ GenSettled(next, steps, hold, runs, results)
      BY <3>3, <3>5, GenSettles
    <3> QED BY <1>6, <3>4
  <2>2. CASE state \notin {"WAITING_REVIEW", "FINAL_FAILED"}
    <3>1. state \notin {"NONE", "CANCELLED"} /\ results = 0
      <4>1. \A i \in StepOrdinals : StepJobState(PlanGenerationSteps[i]) \in RunningStates
        BY PlanStates DEF RunningStates
      <4> QED BY <1>4, <2>2, <4>1 DEF RunningStates
    <3>2. state \notin {"SUCCEEDED", "EXPIRED"}
      BY DEF GenStates, RunningStates
    <3>3. genJobs' = [genJobs EXCEPT ![j] = job] /\ genHolds' = genHolds
      BY <1>6, <1>13, <2>2, <3>1, <3>2 DEF SettleGenerationTerminal, GenSuccessStates, GenFailureStates
    <3>4. genHolds' = [genHolds EXCEPT ![j] = genHolds[j]] /\ genHolds[j] \in GenHoldRows
      BY <3>3, GenRowsOf
    <3>5. GenSettled(job, steps, genHolds[j], runs, results)
      BY <1>2, <1>6, <2>2, <3>1 DEF GenSettled
    <3> QED BY <1>6, <3>3, <3>4, <3>5
  <2> QED BY <2>1, <2>2
<1>15. GenFollowed(after, steps)
  <2>1. \A i \in StepOrdinals : steps[i] = "SUCCEEDED" => \A k \in 1..(i - 1) : steps[k] = "SUCCEEDED"
    BY <1>11, PlanFacts
  <2>2. CASE step = "SUCCEEDED" /\ state = StepJobState(PlanGenerationSteps[m]) /\ m # Steps
    <3>1. m \in 0..(Steps - 1) /\ m # 0
      BY <1>4, <2>2, PlanFacts
    <3>2. OnPlan(after.state, steps, m)
      BY <1>11, <1>14, <2>2, <3>1, PlanFacts DEF OnPlan
    <3>3. state \in RunningStates
      BY <2>2, PlanStates DEF RunningStates
    <3>4. UnderWay(after) /\ after.state # "NONE"
      BY <1>14, <3>3 DEF UnderWay, RunningStates
    <3> QED BY <2>1, <3>1, <3>2, <3>4 DEF GenFollowed
  <2>3. CASE state = "WAITING_REVIEW"
    BY <1>14, <2>1, <2>3 DEF GenFollowed, UnderWay, RunningStates
  <2>4. CASE state \in {"RETRYABLE_FAILED", "QUALITY_BLOCKED", "FINAL_FAILED"} /\ m # 1
    <3>1. steps[1] = "SUCCEEDED"
      BY <1>11, <2>4, PlanFacts
    <3> QED BY <1>14, <2>1, <2>4, <3>1 DEF GenFollowed, UnderWay, RunningStates
  <2> QED BY <1>4, <2>2, <2>3, <2>4
<1>16. /\ genMsgs' \in [GenJobs -> Nat] /\ \A k \in GenJobs : k # j => genMsgs'[k] = genMsgs[k]
       /\ more = 1 => genMsgs'[j] > 0
  BY <1>1, GenAcknowledged
<1>17. GenCarried(after, genMsgs'[j], genLost')
  <2>1. CASE more = 1 /\ state = StepJobState(PlanGenerationSteps[m])
    <3>1. state \in RunningStates
      BY <2>1, PlanStates DEF RunningStates
    <3> QED BY <1>14, <1>16, <2>1, <3>1 DEF GenCarried, RunningStates
  <2>2. CASE state \in {"WAITING_REVIEW", "RETRYABLE_FAILED", "QUALITY_BLOCKED", "FINAL_FAILED"}
    BY <1>14, <2>2 DEF GenCarried, UnderWay, RunningStates
  <2> QED BY <1>4, <2>1, <2>2
<1>18. genLost' \in Nat /\ genLost' >= genLost /\ genCommands' \subseteq GenJobs \X {"CANCEL", "RETRY"} \X GenKeys
  BY <1>1 DEF GenInv, GenTypes
<1>19. genJobs[j].state # "CANCEL_REQUESTED"
  BY <1>2 DEF UnderWay, RunningStates
<1>20. \A i \in StepOrdinals :
         /\ genSteps[j][i] = "SUCCEEDED" => steps[i] = "SUCCEEDED"
         /\ genSteps[j][i] # steps[i] /\ steps[i] \in {"SUCCEEDED", "FAILED"} =>
              genJobs[j].state # "CANCEL_REQUESTED"
  BY <1>10, <1>11, <1>19, PlanFacts
<1> QED BY <1>8, <1>9, <1>13, <1>14, <1>15, <1>16, <1>17, <1>18, <1>20, GenJobMoved

\* What the next step is, told from its kind.
LEMMA KindFacts ==
  ASSUME GenInv, NEW j \in GenJobs, genMsgs[j] > 0, Claimed(j)
  PROVE  /\ NextKind(j) = "VALIDATE_INPUT" <=> NextStep(j) = 1
         /\ NextKind(j) = "PREPARE_REVIEW" <=> NextStep(j) = Steps
         /\ NextKind(j) = PlanGenerationSteps[NextStep(j)]
         /\ StepJobState(NextKind(j)) \in RunningStates
         /\ NextStep(j) = 1 <=> StepJobState(NextKind(j)) = "VALIDATING"
<1>1. PICK n \in 0..(Steps - 1) : NextStep(j) = n + 1
  BY ClaimedFacts
<1>2. PICK m \in StepOrdinals : m = NextStep(j) /\ m \in 1..Steps
  BY <1>1, PlanFacts
<1>3. NextKind(j) = PlanGenerationSteps[m]
  BY <1>2 DEF NextKind
<1>4. (NextKind(j) = "VALIDATE_INPUT" <=> m = 1) /\ (NextKind(j) = "PREPARE_REVIEW" <=> m = Steps)
  <2>1. m \in 1..(GenSections + 7) /\ Steps = GenSections + 7
    BY <1>2 DEF Steps
  <2> QED BY <1>3, <2>1, PlanFacts, GenNumbers
<1>5. StepJobState(NextKind(j)) \in RunningStates /\ (m = 1 <=> StepJobState(NextKind(j)) = "VALIDATING")
  BY <1>3, PlanStates DEF RunningStates
<1> QED BY <1>2, <1>3, <1>4, <1>5

LEMMA ValidateInputKept == ASSUME GenInv, NEW j \in GenJobs, RunValidateInput(j) PROVE GenStepKept
<1>1. RunStep(j, "SUCCEEDED", "VALIDATING", 0, 0, 1) /\ NextKind(j) = "VALIDATE_INPUT"
  BY DEF RunValidateInput
<1>2. genMsgs[j] > 0 /\ Claimed(j)
  BY <1>1 DEF RunStep
<1>3. NextStep(j) = 1 /\ StepJobState(PlanGenerationSteps[NextStep(j)]) = "VALIDATING" /\ NextStep(j) # Steps
  BY <1>1, <1>2, KindFacts, PlanFacts
<1>4. "VALIDATING" \in GenStates
  BY DEF GenStates, RunningStates
<1> QED BY <1>1, <1>3, <1>4, RunStepKept

LEMMA CompletedKept == ASSUME GenInv, NEW j \in GenJobs, RunCompleted(j) PROVE GenStepKept
<1>1. PICK spent \in 0..1 :
        /\ NextKind(j) # "PREPARE_REVIEW"
        /\ RunStep(j, "SUCCEEDED", StepJobState(NextKind(j)), spent, 0, 1)
  BY DEF RunCompleted
<1>2. genMsgs[j] > 0 /\ Claimed(j)
  BY <1>1 DEF RunStep
<1>3. PICK state : state = StepJobState(NextKind(j))
  OBVIOUS
<1>4. state \in GenStates /\ state = StepJobState(PlanGenerationSteps[NextStep(j)]) /\ NextStep(j) # Steps
  BY <1>1, <1>2, <1>3, KindFacts DEF GenStates
<1>5. RunStep(j, "SUCCEEDED", state, spent, 0, 1)
  BY <1>1, <1>3
<1> QED BY <1>4, <1>5, RunStepKept

LEMMA FinalizeKept == ASSUME GenInv, NEW j \in GenJobs, FinalizeForReview(j) PROVE GenStepKept
<1>1. RunStep(j, "SUCCEEDED", "WAITING_REVIEW", 0, 1, 0) /\ NextKind(j) = "PREPARE_REVIEW"
  BY DEF FinalizeForReview
<1>2. genMsgs[j] > 0 /\ Claimed(j)
  BY <1>1 DEF RunStep
<1>3. NextStep(j) = Steps
  BY <1>1, <1>2, KindFacts
<1>4. "WAITING_REVIEW" \in GenStates
  BY DEF GenStates
<1> QED BY <1>1, <1>3, <1>4, RunStepKept

LEMMA FailuresAreEnds ==
  ASSUME NEW current \in RunningStates \ {"VALIDATING"}, NEW retryable \in BOOLEAN
  PROVE  FailedStepState(current, retryable) \in {"RETRYABLE_FAILED", "QUALITY_BLOCKED", "FINAL_FAILED"}
<1>1. \/ "RETRYABLE_FAILED" \in ALLOWED_JOB_TRANSITIONS[current]
      \/ /\ "QUALITY_BLOCKED" \in ALLOWED_JOB_TRANSITIONS[current]
         /\ ALLOWED_JOB_TRANSITIONS[current] \cap {"FINAL_FAILED", "RETRYABLE_FAILED"} = {}
  BY DEF RunningStates, ALLOWED_JOB_TRANSITIONS
<1> QED BY <1>1 DEF FailedStepState

LEMMA FailedKept == ASSUME GenInv, NEW j \in GenJobs, RunFailed(j) PROVE GenStepKept
<1>1. PICK retryable \in BOOLEAN, spent \in 0..1 :
        /\ NextKind(j) # "VALIDATE_INPUT"
        /\ \E state, more : /\ state = FailedStepState(StepJobState(NextKind(j)), retryable)
                            /\ more = IF state \in {"RETRYABLE_FAILED", "FINAL_FAILED"} THEN 0 ELSE 1
                            /\ RunStep(j, "FAILED", state, spent, 0, more)
  BY DEF RunFailed
<1>2. PICK state, more : /\ state = FailedStepState(StepJobState(NextKind(j)), retryable)
                         /\ more = IF state \in {"RETRYABLE_FAILED", "FINAL_FAILED"} THEN 0 ELSE 1
                         /\ RunStep(j, "FAILED", state, spent, 0, more)
  BY <1>1
<1>3. genMsgs[j] > 0 /\ Claimed(j)
  BY <1>2 DEF RunStep
<1>4. StepJobState(NextKind(j)) \in RunningStates \ {"VALIDATING"} /\ NextStep(j) # 1
  BY <1>1, <1>3, KindFacts
<1>5. state \in {"RETRYABLE_FAILED", "QUALITY_BLOCKED", "FINAL_FAILED"}
  BY <1>2, <1>4, FailuresAreEnds
<1>6. state \in GenStates /\ more \in 0..1
  BY <1>2, <1>5 DEF GenStates
<1> QED BY <1>2, <1>4, <1>5, <1>6, RunStepKept

LEMMA WithoutStepKept == ASSUME GenInv, NEW j \in GenJobs, RunWithoutStep(j) PROVE GenStepKept
<1>1. /\ genJobs[j] \in GenRows /\ genSteps[j] \in GenStepRows /\ genHolds[j] \in GenHoldRows
      /\ genRuns[j] \in 0..GenMaxRuns /\ genResults[j] \in 0..1 /\ genJobs[j].state \in GenStates
      /\ GenFollowed(genJobs[j], genSteps[j])
      /\ GenSettled(genJobs[j], genSteps[j], genHolds[j], genRuns[j], genResults[j])
      /\ GenCarried(genJobs[j], genMsgs[j], genLost)
  BY GenRowsOf, GenRowFields
<1>2. PICK job : job = IF genJobs[j].state = "CANCEL_REQUESTED" THEN [genJobs[j] EXCEPT !.state = "CANCELLED"]
                       ELSE genJobs[j]
  OBVIOUS
<1>3. /\ job \in GenRows /\ job.evidence = genJobs[j].evidence
      /\ job.state = IF genJobs[j].state = "CANCEL_REQUESTED" THEN "CANCELLED" ELSE genJobs[j].state
      /\ job.attempt = genJobs[j].attempt
  <2>1. "CANCELLED" \in GenStates
    BY DEF GenStates
  <2> QED BY <1>1, <1>2, <2>1, GenRowFields
<1>4. PICK steps : steps = [i \in StepOrdinals |->
                              IF genJobs[j].state = "CANCEL_REQUESTED" /\ i \in ClaimableSteps(j) THEN "CANCELLED"
                              ELSE genSteps[j][i]]
  OBVIOUS
<1>5. /\ steps \in GenStepRows
      /\ \A i \in StepOrdinals : steps[i] = "SUCCEEDED" <=> genSteps[j][i] = "SUCCEEDED"
      /\ \A i \in StepOrdinals : steps[i] = genSteps[j][i] \/ steps[i] = "CANCELLED"
  BY <1>1, <1>4 DEF ClaimableSteps, GenStepRows, GenStepStates
<1>6. /\ genMsgs[j] > 0 /\ ~LooksForStep(j) /\ genSteps' = [genSteps EXCEPT ![j] = steps]
      /\ SettleGenerationTerminal(j, job, genRuns[j]) /\ AcknowledgeGen(j, 0)
      /\ genRuns' = [genRuns EXCEPT ![j] = genRuns[j]] /\ genResults' = [genResults EXCEPT ![j] = genResults[j]]
      /\ UNCHANGED <<genCommands, genLost>>
  <2>1. genSteps' = [genSteps EXCEPT ![j] = steps]
    BY <1>4 DEF RunWithoutStep, GenInv, GenTypes
  <2>2. SettleGenerationTerminal(j, job, genRuns[j])
    BY <1>2 DEF RunWithoutStep
  <2> QED BY <2>1, <2>2, GenRowsOf DEF RunWithoutStep
<1>7. ~UnderWay(genJobs[j]) /\ genJobs[j].state # "NONE"
  <2>1. ~UnderWay(genJobs[j])
    BY <1>1, <1>6, PlanGoesOn DEF GenFollowed
  <2> QED BY <1>1, <1>6, <2>1 DEF GenCarried
<1>8. PICK after \in GenRows, hold \in GenHoldRows :
        /\ genJobs' = [genJobs EXCEPT ![j] = after] /\ genHolds' = [genHolds EXCEPT ![j] = hold]
        /\ after.state = job.state /\ after.attempt = job.attempt
        /\ GenSettled(after, steps, hold, genRuns[j], genResults[j])
  <2>1. CASE job.state \in {"WAITING_REVIEW", "CANCELLED", "FINAL_FAILED"}
    <3>1. GenSettleable(job, steps, genHolds[j], genRuns[j], genResults[j])
      <4>1. CASE job.evidence = NoEvidence
        BY <1>1, <1>3, <2>1, <4>1 DEF GenSettleable, GenSettled
      <4>2. CASE job.evidence # NoEvidence
        <5>1. GenSettled(job, steps, genHolds[j], genRuns[j], genResults[j])
          BY <1>1, <1>3, <1>5, <2>1, <4>2 DEF GenSettled
        <5> QED BY <2>1, <4>2, <5>1 DEF GenSettleable
      <4> QED BY <4>1, <4>2
    <3>2. PICK runs \in 0..GenMaxRuns, results \in 0..1 : runs = genRuns[j] /\ results = genResults[j]
      BY <1>1
    <3>3. GenSettleable(job, steps, genHolds[j], runs, results) /\ SettleGenerationTerminal(j, job, runs)
      BY <1>6, <3>1, <3>2
    <3>4. \E next \in GenRows, hold \in GenHoldRows :
            /\ genJobs' = [genJobs EXCEPT ![j] = next] /\ genHolds' = [genHolds EXCEPT ![j] = hold]
            /\ next.state = job.state /\ next.attempt = job.attempt
            /\ GenSettled(next, steps, hold, runs, results)
      BY <1>3, <3>3, GenSettles
    <3> QED BY <3>2, <3>4
  <2>2. CASE job.state \notin {"WAITING_REVIEW", "CANCELLED", "FINAL_FAILED"}
    <3>1. job = genJobs[j] /\ job.state \notin GenSuccessStates \cup GenFailureStates
      BY <1>1, <1>2, <1>3, <2>2 DEF GenSuccessStates, GenFailureStates, GenStates, RunningStates
    <3>2. genJobs' = [genJobs EXCEPT ![j] = job] /\ genHolds' = [genHolds EXCEPT ![j] = genHolds[j]]
      BY <1>6, <3>1, GenRowsOf DEF SettleGenerationTerminal
    <3>3. GenSettled(job, steps, genHolds[j], genRuns[j], genResults[j])
      BY <1>1, <1>5, <3>1 DEF GenSettled
    <3> QED BY <1>1, <1>3, <3>2, <3>3
  <2> QED BY <2>1, <2>2
<1>9. GenFollowed(after, steps)
  <2>1. \A i \in StepOrdinals : \A k \in 1..(i - 1) : k \in StepOrdinals
    BY PlanFacts
  <2>2. \A i \in StepOrdinals : steps[i] = "SUCCEEDED" => \A k \in 1..(i - 1) : steps[k] = "SUCCEEDED"
    BY <1>1, <1>5, <2>1 DEF GenFollowed
  <2>3. 1 \in StepOrdinals
    BY PlanFacts
  <2>4. after.state # "NONE" /\ ~UnderWay(after)
    BY <1>3, <1>7, <1>8 DEF UnderWay, RunningStates
  <2>5. after.state \in {"QUEUED", "RETRYABLE_FAILED", "QUALITY_BLOCKED"} => steps[1] = "SUCCEEDED"
    BY <1>1, <1>3, <1>5, <1>7, <1>8, <2>3 DEF GenFollowed
  <2> QED BY <2>2, <2>4, <2>5 DEF GenFollowed
<1>10. /\ genMsgs' \in [GenJobs -> Nat] /\ \A k \in GenJobs : k # j => genMsgs'[k] = genMsgs[k]
  BY <1>6, GenAcknowledged
<1>11. GenCarried(after, genMsgs'[j], genLost')
  BY <1>3, <1>7, <1>8 DEF GenCarried, UnderWay, RunningStates
<1>12. genLost' \in Nat /\ genLost' >= genLost /\ genCommands' \subseteq GenJobs \X {"CANCEL", "RETRY"} \X GenKeys
  BY <1>6 DEF GenInv, GenTypes
<1>13. \A i \in StepOrdinals :
         /\ genSteps[j][i] = "SUCCEEDED" => steps[i] = "SUCCEEDED"
         /\ genSteps[j][i] # steps[i] /\ steps[i] \in {"SUCCEEDED", "FAILED"} =>
              genJobs[j].state # "CANCEL_REQUESTED"
  BY <1>5
<1> QED BY <1>1, <1>5, <1>6, <1>8, <1>9, <1>10, <1>11, <1>12, <1>13, GenJobMoved

LEMMA RaisedKept == ASSUME GenInv, NEW j \in GenJobs, RunRaised(j) PROVE GenStepKept
<1>1. /\ genMsgs[j] > 0 /\ LooksForStep(j) /\ genMsgs' = [genMsgs EXCEPT ![j] = @ - 1]
      /\ genLost' = IF StepAllowed(j) THEN genLost + 1 ELSE genLost
      /\ UNCHANGED <<genJobs, genSteps, genHolds, genRuns, genResults, genCommands>>
  BY DEF RunRaised
<1>2. /\ genJobs' = [genJobs EXCEPT ![j] = genJobs[j]] /\ genSteps' = [genSteps EXCEPT ![j] = genSteps[j]]
      /\ genHolds' = [genHolds EXCEPT ![j] = genHolds[j]] /\ genRuns' = [genRuns EXCEPT ![j] = genRuns[j]]
      /\ genResults' = [genResults EXCEPT ![j] = genResults[j]]
  BY <1>1, GenRowsOf
<1>3. genLost' \in Nat /\ genLost' >= genLost /\ genCommands' \subseteq GenJobs \X {"CANCEL", "RETRY"} \X GenKeys
  BY <1>1 DEF GenInv, GenTypes
<1>4. /\ genMsgs' \in [GenJobs -> Nat] /\ \A k \in GenJobs : k # j => genMsgs'[k] = genMsgs[k]
  <2>1. genMsgs \in [GenJobs -> Nat] /\ genMsgs[j] - 1 \in Nat
    BY <1>1 DEF GenInv, GenTypes
  <2> QED BY <1>1, <2>1
<1>5. GenCarried(genJobs[j], genMsgs'[j], genLost')
  <2>1. genJobs[j].state \notin {"CANCEL_REQUESTED", "NONE"}
    BY <1>1, GenRowsOf DEF LooksForStep, GenCarried
  <2>2. CASE UnderWay(genJobs[j])
    <3>1. StepAllowed(j)
      BY <2>2, GenRowsOf, PlanGoesOn DEF GenFollowed
    <3>2. genLost' = genLost + 1 /\ genLost \in Nat
      BY <1>1, <3>1, GenRowsOf
    <3>3. genLost' > 0
      BY <3>2
    <3> QED BY <2>1, <3>3 DEF GenCarried
  <2>3. CASE ~UnderWay(genJobs[j])
    BY <2>1, <2>3 DEF GenCarried
  <2> QED BY <2>2, <2>3
<1> QED BY <1>2, <1>3, <1>4, <1>5, GenRowsOf, GenJobMoved

LEMMA GenStutters == ASSUME GenInv, UNCHANGED genVars PROVE GenStepKept
<1>1. /\ genJobs' = genJobs /\ genSteps' = genSteps /\ genHolds' = genHolds /\ genRuns' = genRuns
      /\ genResults' = genResults /\ genMsgs' = genMsgs /\ genCommands' = genCommands /\ genLost' = genLost
  BY DEF genVars
<1>2. GenTypes'
  BY <1>1 DEF GenInv, GenTypes
<1>3. (\A j \in GenJobs : GenJobOk(j))'
  BY <1>1 DEF GenInv, GenJobOk
<1>4. PlanIsFollowed
  BY <1>1 DEF GenInv, GenJobOk, GenFollowed, PlanIsFollowed
<1> QED BY <1>2, <1>3, <1>4 DEF GenStepKept, GenInv

LEMMA GenStep == ASSUME GenInv, [GenNext]_genVars PROVE GenStepKept
<1>1. ASSUME GenNext PROVE GenStepKept
  <2>1. PICK j \in GenJobs : GenRequest(j) \/ RunJob(j)
    BY <1>1 DEF GenNext
  <2>2. CASE GenRequest(j)
    BY <2>2, CreateGenKept, CancelGenKept, RetryGenKept DEF GenRequest
  <2>3. CASE RunJob(j)
    BY <2>3, WithoutStepKept, ValidateInputKept, CompletedKept, FinalizeKept, FailedKept, RaisedKept DEF RunJob
  <2> QED BY <2>1, <2>2, <2>3
<1> QED BY <1>1, GenStutters

LEMMA GenConsequences ==
  ASSUME GenInv PROVE GenTypeOK /\ DraftsAreCharged /\ SettlementRepeats /\ NoGenerationForgotten
<1>1. GenStates \subseteq JobStates \cup {"NONE"}
  BY DEF GenStates, RunningStates, JobStates, ALLOWED_JOB_TRANSITIONS
<1>2. GenTypeOK
  <2>1. genJobs \in [GenJobs ->
          [state : JobStates \cup {"NONE"}, attempt : 0..GenMaxAttempts,
           evidence : [event : {"none", "success"} \cup GenFailureStates, cost : 0..GenMaxRuns]]]
    BY <1>1 DEF GenInv, GenTypes, GenRows, GenEvidence, GenEvents
  <2>2. genHolds \in [GenJobs -> [state : {"NONE", "HELD", "FINALIZED", "RELEASED"},
                                  event : {"none", "success"} \cup GenFailureStates,
                                  charged : 0..GenBudget]]
    BY DEF GenInv, GenTypes, GenHoldRows, GenEvents
  <2> QED BY <2>1, <2>2 DEF GenInv, GenTypes, GenTypeOK, GenStepRows
<1>3. ASSUME NEW j \in GenJobs
      PROVE  /\ (genHolds[j].state = "FINALIZED") <=> (genResults[j] = 1)
             /\ genJobs[j].state \in TERMINAL_JOB_STATES => genHolds[j].state \in {"FINALIZED", "RELEASED"}
             /\ genJobs[j].evidence # NoEvidence =>
                  /\ genJobs[j].evidence.event = genHolds[j].event
                  /\ MaySettleGen(genJobs[j], genHolds[j], genRuns[j])
  <2>1. /\ GenSettled(genJobs[j], genSteps[j], genHolds[j], genRuns[j], genResults[j])
        /\ genJobs[j].state \in GenStates
    BY GenRowsOf, GenRowFields
  <2>2. genJobs[j].state \in TERMINAL_JOB_STATES => genJobs[j].state \in {"CANCELLED", "FINAL_FAILED"}
    BY <2>1 DEF GenStates, RunningStates, TERMINAL_JOB_STATES
  <2>3. CASE genJobs[j].evidence = NoEvidence
    BY <2>1, <2>2, <2>3 DEF GenSettled
  <2>4. CASE genJobs[j].evidence # NoEvidence
    <3>1. /\ genHolds[j].event = genJobs[j].evidence.event /\ genJobs[j].evidence.cost = genRuns[j]
          /\ genHolds[j].event = "success" => genRuns[j] <= GenBudget
      BY <2>1, <2>4 DEF GenSettled
    <3>2. MaySettleGen(genJobs[j], genHolds[j], genRuns[j])
      BY <2>4, <3>1 DEF MaySettleGen, TerminalEvent
    <3>3. /\ (genHolds[j].state = "FINALIZED") <=> (genResults[j] = 1)
          /\ genHolds[j].state \in {"FINALIZED", "RELEASED"}
      BY <2>1, <2>4 DEF GenSettled
    <3> QED BY <3>1, <3>2, <3>3
  <2> QED BY <2>3, <2>4
<1>4. DraftsAreCharged
  BY <1>3 DEF DraftsAreCharged
<1>5. SettlementRepeats
  BY <1>3 DEF SettlementRepeats
<1>6. NoGenerationForgotten
  <2>1. ASSUME NEW j \in GenJobs,
               genJobs[j].state \notin {"NONE", "WAITING_REVIEW", "QUALITY_BLOCKED", "RETRYABLE_FAILED"}
                                       \cup TERMINAL_JOB_STATES,
               genMsgs[j] = 0
        PROVE  genLost > 0 \/ (genJobs[j].state = "QUEUED" /\ genJobs[j].attempt > 0)
    <3>1. /\ genJobs[j].state \in GenStates /\ genJobs[j].attempt \in 0..GenMaxAttempts
          /\ GenCarried(genJobs[j], genMsgs[j], genLost)
      BY GenRowsOf, GenRowFields
    <3>2. genJobs[j].state \in RunningStates \cup {"QUEUED", "CANCEL_REQUESTED"}
      BY <2>1, <3>1 DEF GenStates, TERMINAL_JOB_STATES
    <3> QED BY <2>1, <3>1, <3>2, GenNumbers DEF GenCarried, UnderWay
  <2> QED BY <2>1 DEF NoGenerationForgotten
<1> QED BY <1>2, <1>4, <1>5, <1>6

\* Generation keeps its promise, for any outline, budget, attempts and losses: a step is
\* claimed only by a job that went through the plan up to it, so that a draft is written,
\* and its hold charged, by the last step and once; the evidence of a settlement stays true
\* (generation/service.py: claim_next_step, fail_step, finalize_for_review, _command;
\* generation/tasks.py: settle_generation_terminal, _run_job).
THEOREM GenerationKeepsItsPromise == GenSpec => GenerationPromise
<1>1. GenInit => GenInv
  BY GenInitially
<1>2. GenInv /\ [GenNext]_genVars => GenInv' /\ PlanIsFollowed
  BY GenStep DEF GenStepKept
<1>3. GenInv => GenTypeOK /\ DraftsAreCharged /\ SettlementRepeats /\ NoGenerationForgotten
  BY GenConsequences
<1> QED BY <1>1, <1>2, <1>3, PTL DEF GenSpec, GenerationPromise
=============================================================================
