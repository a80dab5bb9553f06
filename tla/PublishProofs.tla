---------------------------- MODULE PublishProofs ----------------------------
(***************************************************************************)
(* Proofs about the publishing saga.                                       *)
(***************************************************************************)
EXTENDS PublishSaga, FiniteSetTheorems, TLAPS

-----------------------------------------------------------------------------
(* The CMS.                                                                *)

LiveStates == {"draft", "scheduled", "published"}

\* A post that exists is live, and one that was ever there has an id and a version.
RemoteOK(r) ==
  /\ r \in RemotePosts
  /\ r.copies > 0 => r.state \in LiveStates
  /\ r.state # "gone" => r.id >= 1 /\ r.hash >= 1

\* What a step may make of a post: ids and versions never go back, and a search that finds
\* every live post keeps it from being made twice.
RemoteMoves(r, s) ==
  /\ RemoteOK(s) /\ s.id >= r.id /\ s.hash >= r.hash
  /\ LiveStates \subseteq SearchedStates /\ r.copies <= 1 => s.copies <= 1

LEMMA RemoteFields ==
  ASSUME NEW r \in RemotePosts
  PROVE  /\ r.hash \in Nat /\ r.id \in Nat /\ r.copies \in Nat /\ r.body \in Nat
         /\ r.hash + 1 \in Nat /\ r.id + 1 \in Nat /\ r.copies + 1 \in Nat /\ r.body + 1 \in Nat
BY DEF RemotePosts

LEMMA RemoteStays ==
  ASSUME NEW r, RemoteOK(r) PROVE RemoteMoves(r, r)
BY DEF RemoteOK, RemoteMoves, RemotePosts

LEMMA WrittenMoves ==
  ASSUME NEW r, RemoteOK(r), r.state # "gone", run \in Runs
  PROVE  RemoteMoves(r, Written(r)) /\ Written(r).hash >= 1 /\ Written(r).state \in LiveStates
<1>1. run.job \in Jobs /\ run.row.vis \in {"DRAFT", "PUBLISH", "SCHEDULED"}
  BY DEF Runs, Rows
<1>2. RemoteState(run.row.vis) \in LiveStates
  BY <1>1 DEF RemoteState, LiveStates
<1>3. /\ Written(r) \in RemotePosts /\ Written(r).state = RemoteState(run.row.vis) /\ Written(r).hash = r.hash + 1
      /\ Written(r).id = r.id /\ Written(r).copies = r.copies
  BY <1>1, <1>2, RemoteFields DEF RemoteOK, RemotePosts, RemoteStates, LiveStates, Written
<1>4. r.hash \in Nat /\ r.id \in Nat /\ r.copies \in Nat /\ r.id >= 1
  BY DEF RemoteOK, RemotePosts
<1> QED BY <1>2, <1>3, <1>4 DEF RemoteOK, RemoteMoves

LEMMA UpsertedMoves ==
  ASSUME RemoteOK(Current), run \in Runs
  PROVE  /\ RemoteMoves(Current, Upserted) /\ Upserted.id >= 1 /\ Upserted.hash >= 1
         /\ Upserted.state \in LiveStates
<1> DEFINE r == Current
           w == Written(r)
           new == [w EXCEPT !.id = @ + 1, !.copies = @ + 1]
<1>1. run.job \in Jobs /\ run.row.vis \in {"DRAFT", "PUBLISH", "SCHEDULED"}
  BY DEF Runs, Rows
<1>2. RemoteState(run.row.vis) \in LiveStates
  BY <1>1 DEF RemoteState, LiveStates
<1>3. /\ r \in RemotePosts /\ r.hash \in Nat /\ r.id \in Nat /\ r.copies \in Nat
  BY DEF RemoteOK, RemotePosts
<1> HIDE DEF r
<1>4. /\ w \in RemotePosts /\ w.state = RemoteState(run.row.vis) /\ w.hash = r.hash + 1
      /\ w.id = r.id /\ w.copies = r.copies
  BY <1>1, <1>2, <1>3, RemoteFields DEF RemotePosts, RemoteStates, LiveStates, Written
<1>5. CASE FoundByMarker
  <2>1. r.state # "gone" /\ Upserted = w
    BY <1>3, <1>5 DEF FoundByMarker, r, RemoteOK, LiveStates, Upserted
  <2>2. RemoteMoves(r, w) /\ w.hash >= 1 /\ w.state \in LiveStates
    BY <2>1, WrittenMoves DEF r
  <2>3. w.id >= 1
    BY <1>4, <2>1 DEF r, RemoteOK
  <2> QED BY <2>1, <2>2, <2>3 DEF r
<1>6. CASE ~FoundByMarker
  <2>1. Upserted = new
    BY <1>6 DEF Upserted, r
  <2> HIDE DEF w
  <2>2. /\ new \in RemotePosts /\ new.state = w.state /\ new.hash = w.hash
        /\ new.id = w.id + 1 /\ new.copies = w.copies + 1
    BY <1>4, RemoteFields DEF RemotePosts
  <2>3. LiveStates \subseteq SearchedStates => r.copies = 0
    BY <1>3, <1>6 DEF FoundByMarker, r, RemoteOK
  <2>4. RemoteOK(new) /\ new.id >= 1 /\ new.hash >= 1
    BY <1>2, <1>3, <1>4, <2>2 DEF RemoteOK
  <2>5. new.id >= r.id /\ new.hash >= r.hash /\ (LiveStates \subseteq SearchedStates => new.copies <= 1)
    BY <1>3, <1>4, <2>2, <2>3
  <2> HIDE DEF new
  <2> QED BY <1>2, <1>4, <2>1, <2>2, <2>4, <2>5 DEF RemoteMoves, r
<1> QED BY <1>5, <1>6

LEMMA DeletedMoves ==
  ASSUME NEW r, RemoteOK(r), r.state # "gone", NEW force \in BOOLEAN
  PROVE  RemoteMoves(r, Deleted(r, force))
<1> DEFINE s == Deleted(r, force)
<1>1. /\ s \in RemotePosts /\ s.hash = r.hash + 1 /\ s.id = r.id /\ s.copies = 0
  BY RemoteFields DEF RemoteOK, RemotePosts, RemoteStates, Deleted
<1>2. r.hash \in Nat /\ r.id \in Nat /\ r.id >= 1
  BY DEF RemoteOK, RemotePosts
<1> HIDE DEF s
<1> QED BY <1>1, <1>2 DEF RemoteOK, RemoteMoves, s

LEMMA RevertedMoves ==
  ASSUME NEW r, RemoteOK(r), r.state # "gone"
  PROVE  RemoteMoves(r, Reverted(r)) /\ Reverted(r).state = "draft"
<1> DEFINE s == Reverted(r)
<1>1. /\ s \in RemotePosts /\ s.hash = r.hash + 1 /\ s.id = r.id /\ s.copies = r.copies /\ s.state = "draft"
  BY RemoteFields DEF RemoteOK, RemotePosts, RemoteStates, Reverted
<1>2. r.hash \in Nat /\ r.id \in Nat /\ r.id >= 1 /\ r.copies \in Nat
  BY DEF RemoteOK, RemotePosts
<1> HIDE DEF s
<1> QED BY <1>1, <1>2 DEF RemoteOK, RemoteMoves, LiveStates, s

-----------------------------------------------------------------------------
(* The day's counters.                                                     *)

QuotaRows == [reserved : Nat, completed : Nat]

\* What the end of a run, a refusal or a local cancellation may do to the counters,
\* given the job's row before and after.
QuotaMoves(old, new, q) ==
  /\ q \in QuotaRows
  /\ new.op = old.op
  /\ \/ /\ new.completed <=> old.completed
        /\ new.released <=> old.released
        /\ q.reserved = quota.reserved /\ q.completed = quota.completed
     \/ /\ old.op \in Metered /\ ~old.released /\ ~old.completed
        /\ new.completed /\ ~new.released
        /\ q.reserved = quota.reserved /\ q.completed = quota.completed + 1
     \/ /\ old.op \in Metered /\ ~old.released /\ ~old.completed
        /\ ~new.completed /\ new.released
        /\ q.reserved = quota.reserved - 1 /\ q.completed = quota.completed
     \/ /\ old.op \in Metered /\ ~old.released /\ old.completed
        /\ new.completed /\ new.released
        /\ q.reserved = AtLeastZero(quota.reserved - 1)
        /\ q.completed = AtLeastZero(quota.completed - 1)

\* The request a row stands for: what a run never changes.
SameRequest(old, new) ==
  /\ new.op = old.op /\ (new.cancel <=> old.cancel) /\ new.expected = old.expected
  /\ new.vis = old.vis /\ new.action = old.action

LEMMA ReleaseMoves ==
  ASSUME NEW row \in Rows, quota \in QuotaRows, NEW reverse \in BOOLEAN,
         NEW state \in JobStates
  PROVE  LET new == [ReleasedRow(row, reverse) EXCEPT !.state = state]
             q == ReleasedQuota(row, reverse)
         IN  /\ new \in Rows /\ new.state = state /\ SameRequest(row, new)
             /\ new.attempt = row.attempt /\ new.target = row.target
             /\ new.started <=> row.started
             /\ QuotaMoves(row, new, q)
             /\ new.op \in Metered /\ ~new.released /\ quota.reserved > quota.completed
                  => new.completed
<1> DEFINE mid == ReleasedRow(row, reverse)
           new == [mid EXCEPT !.state = state]
           q == ReleasedQuota(row, reverse)
<1>1. /\ Reverses(row, reverse) \in BOOLEAN /\ Returns(row) \in BOOLEAN
      /\ row.released \in BOOLEAN /\ row.completed \in BOOLEAN
  BY DEF Reverses, Returns, Rows
<1>2. /\ mid \in Rows /\ SameRequest(row, mid)
      /\ mid.attempt = row.attempt /\ mid.target = row.target
      /\ mid.completed = row.completed /\ mid.started = row.started
  BY <1>1 DEF ReleasedRow, Rows, SameRequest
<1>3. mid.released <=> row.released \/ Reverses(row, reverse) \/ Returns(row)
  BY <1>1 DEF ReleasedRow, Rows
<1> HIDE DEF mid
<1>4. /\ new \in Rows /\ new.state = state /\ SameRequest(row, new)
      /\ new.attempt = row.attempt /\ new.target = row.target
      /\ new.completed = row.completed /\ new.released = mid.released /\ new.started = row.started
  BY <1>2 DEF Rows, SameRequest
<1>5. new.op = row.op /\ (new.released <=> row.released \/ Reverses(row, reverse) \/ Returns(row))
  BY <1>3, <1>4 DEF SameRequest
<1> HIDE DEF new
<1>6. /\ quota.reserved \in Nat /\ quota.completed \in Nat
  BY DEF QuotaRows
<1>7. CASE Reverses(row, reverse)
  <2>1. /\ q \in QuotaRows /\ q.reserved = AtLeastZero(quota.reserved - 1)
        /\ q.completed = AtLeastZero(quota.completed - 1)
    <3> DEFINE a == AtLeastZero(quota.reserved - 1)
               b == AtLeastZero(quota.completed - 1)
    <3>1. a \in Nat /\ b \in Nat
      BY <1>6 DEF AtLeastZero
    <3>2. q = [reserved |-> a, completed |-> b]
      <4>1. ~Returns(row)
        BY <1>7 DEF Returns, Reverses
      <4> QED BY <1>7, <4>1 DEF ReleasedQuota
    <3> HIDE DEF a, b, q
    <3>3. q \in QuotaRows /\ q.reserved = a /\ q.completed = b
      BY <3>1, <3>2 DEF QuotaRows
    <3> QED BY <3>3 DEF a, b
  <2>2. row.op \in Metered /\ ~row.released /\ row.completed
    BY <1>7 DEF Reverses
  <2>3. QuotaMoves(row, new, q)
    BY <1>4, <1>5, <1>7, <2>1, <2>2 DEF QuotaMoves
  <2> QED BY <1>4, <2>2, <2>3 DEF new, mid
<1>8. CASE ~Reverses(row, reverse) /\ Returns(row)
  <2>1. /\ row.op \in Metered /\ ~row.released /\ ~row.completed
        /\ quota.reserved > quota.completed
    BY <1>8 DEF Returns
  <2>2. q = [quota EXCEPT !.reserved = @ - 1]
    BY <1>8 DEF ReleasedQuota
  <2>3. quota.reserved - 1 \in Nat
    BY <1>6, <2>1
  <2>4. q \in QuotaRows /\ q.reserved = quota.reserved - 1 /\ q.completed = quota.completed
    BY <1>6, <2>2, <2>3 DEF QuotaRows
  <2>5. QuotaMoves(row, new, q)
    BY <1>4, <1>5, <1>8, <2>1, <2>4 DEF QuotaMoves
  <2> QED BY <1>4, <1>5, <1>8, <2>5 DEF new, mid
<1>9. CASE ~Reverses(row, reverse) /\ ~Returns(row)
  <2>1. q = quota
    BY <1>9 DEF ReleasedQuota
  <2>2. QuotaMoves(row, new, q)
    BY <1>4, <1>5, <1>9, <2>1 DEF QuotaMoves
  <2>3. new.op \in Metered /\ ~new.released /\ quota.reserved > quota.completed => new.completed
    BY <1>1, <1>4, <1>5, <1>9 DEF Returns
  <2> QED BY <1>4, <2>2, <2>3 DEF new, mid
<1> QED BY <1>7, <1>8, <1>9

Holders == {j \in Jobs : Reserving(j)}
Published == {j \in Jobs : Reserving(j) /\ jobs[j].completed}

QuotaInv ==
  /\ quota \in QuotaRows
  /\ quota.reserved <= QuotaLimit
  /\ IsFiniteSet(Holders)
  /\ QuotaMatchesJobs

LEMMA CountsFacts ==
  ASSUME QuotaInv
  PROVE  /\ quota.reserved \in Nat /\ quota.completed \in Nat
         /\ quota.reserved = Cardinality(Holders) /\ quota.completed = Cardinality(Published)
         /\ Published \subseteq Holders /\ IsFiniteSet(Published)
         /\ quota.completed <= quota.reserved
         /\ \A j \in Jobs : Reserving(j) /\ ~jobs[j].completed => quota.completed < quota.reserved
         /\ \A j \in Jobs : Reserving(j) => quota.reserved >= 1
         /\ \A j \in Jobs : Reserving(j) /\ jobs[j].completed => quota.completed >= 1
<1>1. quota.reserved \in Nat /\ quota.completed \in Nat
  BY DEF QuotaInv, QuotaRows
<1>2. quota.reserved = Cardinality(Holders) /\ quota.completed = Cardinality(Published)
  BY DEF QuotaInv, QuotaMatchesJobs, Holders, Published
<1>3. Published \subseteq Holders /\ IsFiniteSet(Holders)
  BY DEF QuotaInv, Holders, Published
<1>4. /\ IsFiniteSet(Published) /\ Cardinality(Published) <= Cardinality(Holders)
      /\ Cardinality(Published) = Cardinality(Holders) => Published = Holders
  BY <1>3, FS_Subset
<1>5. ASSUME NEW j \in Jobs, Reserving(j), ~jobs[j].completed
      PROVE  quota.completed < quota.reserved
  <2>1. j \in Holders /\ j \notin Published
    BY <1>5 DEF Holders, Published
  <2> QED BY <1>1, <1>2, <1>4, <2>1
<1>6. Cardinality({}) = 0
  BY FS_EmptySet
<1>7. ASSUME NEW j \in Jobs, Reserving(j) PROVE quota.reserved >= 1
  <2>1. Holders # {}
    BY <1>7 DEF Holders
  <2>2. Cardinality(Holders) # 0
    BY <1>3, <2>1, FS_EmptySet
  <2> QED BY <1>1, <1>2, <2>2
<1>8. ASSUME NEW j \in Jobs, Reserving(j), jobs[j].completed PROVE quota.completed >= 1
  <2>1. Published # {}
    BY <1>8 DEF Published
  <2>2. Cardinality(Published) # 0
    BY <1>4, <2>1, FS_EmptySet
  <2> QED BY <1>1, <1>2, <2>2
<1> QED BY <1>1, <1>2, <1>3, <1>4, <1>5, <1>7, <1>8

\* The counters stay exact when a row moves as QuotaMoves says.
LEMMA QuotaStaysExact ==
  ASSUME QuotaInv, jobs \in [Jobs -> Rows], NEW j \in Jobs, NEW new \in Rows,
         jobs' = [jobs EXCEPT ![j] = new], QuotaMoves(jobs[j], new, quota')
  PROVE  QuotaInv'
<1> DEFINE old == jobs[j]
<1>1. /\ quota.reserved \in Nat /\ quota.completed \in Nat
      /\ quota.reserved = Cardinality(Holders) /\ quota.completed = Cardinality(Published)
      /\ IsFiniteSet(Published) /\ IsFiniteSet(Holders) /\ Published \subseteq Holders
      /\ Reserving(j) => quota.reserved >= 1
      /\ Reserving(j) /\ old.completed => quota.completed >= 1
  BY CountsFacts DEF QuotaInv
<1>2. /\ jobs'[j] = new /\ new.op = old.op
      /\ \A k \in Jobs : k # j => jobs'[k] = jobs[k]
  BY DEF QuotaMoves
<1>3. \A k \in Jobs \ {j} : /\ k \in Holders <=> k \in Holders'
                            /\ k \in Published <=> k \in Published'
  BY <1>2 DEF Holders, Published, Reserving
<1>4. /\ j \in Holders <=> old.op \in Metered /\ ~old.released
      /\ j \in Published <=> old.op \in Metered /\ ~old.released /\ old.completed
      /\ j \in Holders' <=> old.op \in Metered /\ ~new.released
      /\ j \in Published' <=> old.op \in Metered /\ ~new.released /\ new.completed
  BY <1>2 DEF Holders, Published, Reserving
<1>5. Holders \subseteq Jobs /\ Published \subseteq Jobs /\ Holders' \subseteq Jobs /\ Published' \subseteq Jobs
  BY DEF Holders, Published
<1> HIDE DEF old
<1>6. quota' \in QuotaRows
  BY DEF QuotaMoves
<1>7. SUFFICES /\ IsFiniteSet(Holders')
               /\ Cardinality(Holders') = quota'.reserved /\ quota'.reserved <= quota.reserved
               /\ Cardinality(Published') = quota'.completed
  <2>1. QuotaLimit \in Nat /\ quota'.reserved \in Nat /\ quota.reserved <= QuotaLimit
    BY <1>6, PublishAssumption DEF QuotaRows, QuotaInv
  <2> QED BY <1>1, <1>6, <1>7, <2>1 DEF QuotaInv, QuotaMatchesJobs, Holders, Published
<1>8. CASE /\ new.completed <=> old.completed
           /\ new.released <=> old.released
           /\ quota'.reserved = quota.reserved /\ quota'.completed = quota.completed
  <2>1. Holders' = Holders /\ Published' = Published
    BY <1>3, <1>4, <1>5, <1>8
  <2> QED BY <1>1, <1>8, <2>1
<1>9. CASE /\ old.op \in Metered /\ ~old.released /\ ~old.completed
           /\ new.completed /\ ~new.released
           /\ quota'.reserved = quota.reserved /\ quota'.completed = quota.completed + 1
  <2>1. Holders' = Holders /\ Published' = Published \cup {j} /\ j \notin Published
    BY <1>3, <1>4, <1>5, <1>9
  <2>2. Cardinality(Published \cup {j}) = Cardinality(Published) + 1
    BY <1>1, <2>1, FS_AddElement
  <2> QED BY <1>1, <1>9, <2>1, <2>2
<1>10. CASE /\ old.op \in Metered /\ ~old.released /\ ~old.completed
            /\ ~new.completed /\ new.released
            /\ quota'.reserved = quota.reserved - 1 /\ quota'.completed = quota.completed
  <2>1. Holders' = Holders \ {j} /\ Published' = Published /\ j \in Holders
    BY <1>3, <1>4, <1>5, <1>10
  <2>2. IsFiniteSet(Holders \ {j}) /\ Cardinality(Holders \ {j}) = Cardinality(Holders) - 1
    BY <1>1, <2>1, FS_RemoveElement
  <2> QED BY <1>1, <1>10, <2>1, <2>2
<1>11. CASE /\ old.op \in Metered /\ ~old.released /\ old.completed
            /\ new.completed /\ new.released
            /\ quota'.reserved = AtLeastZero(quota.reserved - 1)
            /\ quota'.completed = AtLeastZero(quota.completed - 1)
  <2>1. /\ Holders' = Holders \ {j} /\ Published' = Published \ {j}
        /\ j \in Holders /\ j \in Published
    BY <1>3, <1>4, <1>5, <1>11
  <2>2. /\ IsFiniteSet(Holders \ {j}) /\ Cardinality(Holders \ {j}) = Cardinality(Holders) - 1
        /\ Cardinality(Published \ {j}) = Cardinality(Published) - 1
    BY <1>1, <2>1, FS_RemoveElement
  <2>3. quota.reserved >= 1 /\ quota.completed >= 1
    BY <1>1, <2>1 DEF Holders, Published, old
  <2>4. quota'.reserved = quota.reserved - 1 /\ quota'.completed = quota.completed - 1
    BY <1>1, <1>11, <2>3 DEF AtLeastZero
  <2> QED BY <1>1, <2>1, <2>2, <2>4
<1> QED BY <1>8, <1>9, <1>10, <1>11 DEF QuotaMoves, old

\* A new job takes one reservation more.
LEMMA QuotaTaken ==
  ASSUME QuotaInv, jobs \in [Jobs -> Rows], NEW j \in Jobs, NEW new \in Rows,
         jobs[j].op = "NONE", ~new.completed, ~new.released,
         jobs' = [jobs EXCEPT ![j] = new], ReserveQuota(new.op)
  PROVE  QuotaInv'
<1>1. /\ quota.reserved \in Nat /\ quota.completed \in Nat /\ QuotaLimit \in Nat
      /\ quota.reserved <= QuotaLimit
      /\ quota.reserved = Cardinality(Holders) /\ quota.completed = Cardinality(Published)
      /\ IsFiniteSet(Published) /\ IsFiniteSet(Holders)
  BY CountsFacts, PublishAssumption DEF QuotaInv
<1>2. /\ jobs'[j] = new /\ \A k \in Jobs : k # j => jobs'[k] = jobs[k]
  OBVIOUS
<1>3. \A k \in Jobs \ {j} : /\ k \in Holders <=> k \in Holders'
                            /\ k \in Published <=> k \in Published'
  BY <1>2 DEF Holders, Published, Reserving
<1>4. /\ j \notin Holders /\ j \notin Published /\ j \notin Published'
      /\ j \in Holders' <=> new.op \in Metered
  BY <1>2 DEF Holders, Published, Reserving, Metered
<1>5. Holders \subseteq Jobs /\ Published \subseteq Jobs /\ Holders' \subseteq Jobs /\ Published' \subseteq Jobs
  BY DEF Holders, Published
<1>6. Published' = Published
  BY <1>3, <1>4, <1>5
<1>7. CASE new.op \in Metered
  <2>1. Holders' = Holders \cup {j}
    BY <1>3, <1>4, <1>5, <1>7
  <2>2. IsFiniteSet(Holders \cup {j}) /\ Cardinality(Holders \cup {j}) = Cardinality(Holders) + 1
    BY <1>1, <1>4, FS_AddElement
  <2>3. quota.reserved < QuotaLimit /\ quota' = [quota EXCEPT !.reserved = @ + 1]
    BY <1>7 DEF ReserveQuota
  <2>4. quota.reserved + 1 \in Nat
    BY <1>1
  <2>5. /\ quota' \in QuotaRows /\ quota'.reserved = quota.reserved + 1
        /\ quota'.completed = quota.completed
    BY <1>1, <2>3, <2>4 DEF QuotaRows, QuotaInv
  <2>6. quota'.reserved <= QuotaLimit
    BY <1>1, <2>3, <2>5
  <2> QED BY <1>1, <1>6, <2>1, <2>2, <2>5, <2>6
          DEF QuotaInv, QuotaMatchesJobs, Holders, Published
<1>8. CASE new.op \notin Metered
  <2>1. Holders' = Holders
    BY <1>3, <1>4, <1>5, <1>8
  <2>2. quota' = quota
    BY <1>8 DEF ReserveQuota
  <2> QED BY <1>1, <1>6, <2>1, <2>2 DEF QuotaInv, QuotaMatchesJobs, Holders, Published
<1> QED BY <1>7, <1>8

-----------------------------------------------------------------------------
(* The inductive invariant.                                                *)

OverStates == {"PARTIAL", "FINAL_FAILED", "CANCELLED"}

\* Everything TypeOK says but the bounds of the counters, which need QuotaInv.
Typed ==
  /\ jobs \in [Jobs -> Rows]
  /\ posts \in [Jobs -> PostRows]
  /\ bound \in BOOLEAN
  /\ remote \in [Jobs -> RemotePosts]
  /\ uploads \in 0..2
  /\ msgs \in [Jobs -> [0..MaxRetries -> Nat]]
  /\ run = NoRun \/ run \in Runs
  /\ crashes \in 0..MaxCrashes /\ faults \in 0..MaxFaults
  /\ edits \in 0..MaxEdits

RemoteInv == \A p \in Jobs : RemoteOK(remote[p])

\* What the columns of a job say about each other, its post and its deliveries.
JobInv(j) ==
  /\ jobs[j].op = "NONE" => jobs[j].state = "NONE" /\ jobs[j].target = NoJob
  /\ jobs[j].op = "NONE" => \A r \in 0..MaxRetries : msgs[j][r] = 0
  /\ jobs[j].op \notin {"NONE", "CREATE"} => jobs[j].target # NoJob
  /\ jobs[j].op = "CREATE" => jobs[j].target \in {NoJob, j}
  /\ posts[j].state # "NONE" => jobs[j].op = "CREATE" /\ jobs[j].target = j
  /\ jobs[j].released => jobs[j].state \in {"FINAL_FAILED", "CANCELLED"}
  /\ jobs[j].cancel => \/ jobs[j].target # NoJob
                       \/ ~jobs[j].started /\ jobs[j].state \in {"CANCEL_REQUESTED", "CANCELLED"}

JobsInv == \A j \in Jobs : JobInv(j)

PostAt(post, r) ==
  post.state # "NONE" => post.id \in 1..r.id /\ post.hash \in 1..r.hash

\* The working copy of a run against the rows it locked.
RunInv ==
  run # NoRun =>
    /\ jobs[run.job].state \notin OverStates /\ jobs[run.job].op # "NONE"
    /\ SameRequest(jobs[run.job], run.row)
    /\ run.row.completed <=> jobs[run.job].completed
    /\ ~run.row.released /\ ~jobs[run.job].released
    /\ run.row.attempt = jobs[run.job].attempt + 1
    /\ msgs[run.job][run.retries] > 0
    /\ run.subject = IF run.row.op = "CREATE" THEN run.job ELSE run.row.target
    /\ run.row.op # "CREATE" => run.row.target = jobs[run.job].target
    /\ run.row.op = "CREATE" => run.row.target \in {NoJob, run.job}
    /\ run.post.state # "NONE" <=> run.row.target # NoJob
    /\ posts[run.subject].state # "NONE" => run.post.state # "NONE"
    /\ PostAt(run.post, remote[run.subject])
    /\ run.pc = "fetch" => run.row.op # "CREATE"
    /\ run.pc = "verify" => run.row.target # NoJob
    /\ run.pc \in {"cancel", "revert"} => run.row.cancel
    /\ run.pc = "revert" => run.post.state = "SCHEDULED"
    /\ run.row.cancel => run.row.target # NoJob
    /\ run.pc \in {"cancel", "revert"} => run.post = posts[run.subject]
    /\ run.row.op # "CREATE" /\ run.pc \in {"upload", "write"}
         => run.row.action = "OVERWRITE" \/ run.seen = run.row.expected

SagaInv ==
  /\ Typed /\ RemoteInv /\ JobsInv /\ RunInv /\ QuotaInv
  /\ QuotaSettled /\ RecordedPostExists

-----------------------------------------------------------------------------
(* How a run ends.                                                         *)

\* The row a run leaves behind, and the counters with it.
RowEnds(row, q) ==
  /\ row \in Rows /\ SameRequest(run.row, row)
  /\ row.attempt = run.row.attempt /\ row.target = run.row.target
  /\ row.state \in {"SUCCEEDED", "RETRYABLE_FAILED"} \cup OverStates
  /\ QuotaMoves(run.row, row, q)
  /\ row.released => row.state \in {"FINAL_FAILED", "CANCELLED"}
  /\ row.state = "RETRYABLE_FAILED" => row.attempt < MaxAttempts
  /\ row.op \in Metered /\ ~row.released /\ row.state \in {"FINAL_FAILED", "CANCELLED"}
       => row.completed \/ (row.cancel /\ row.target # NoJob)
  /\ row.op = "CREATE" /\ row.state \in {"SUCCEEDED", "PARTIAL"} => row.target = run.job

\* A run reports a cancellation only when the post was not scheduled or no longer is.
CancelReached ==
  /\ run.pc \in {"cancel", "revert"}
  /\ run.post.state = "SCHEDULED" => remote'[run.subject].state = "draft"

Ends(post) ==
  \E row, q : /\ RowEnds(row, q) /\ Commit(row, post, run.bound, q)
              /\ row.state = "CANCELLED" => CancelReached

\* What the invariant says of a run that is about to end.
Ready ==
  /\ run # NoRun /\ run \in Runs /\ quota \in QuotaRows /\ ~run.row.released
  /\ run.row.op \in Metered /\ ~run.row.completed => quota.reserved > quota.completed

LEMMA RowState ==
  ASSUME NEW row \in Rows, NEW state \in JobStates
  PROVE  LET new == [row EXCEPT !.state = state]
         IN  /\ new \in Rows /\ new.state = state /\ SameRequest(row, new)
             /\ new.attempt = row.attempt /\ new.target = row.target
             /\ (new.completed <=> row.completed) /\ (new.released <=> row.released)
BY DEF Rows, SameRequest

LEMMA StatesOfJobs == {"SUCCEEDED", "RETRYABLE_FAILED", "PUBLISHING", "SCHEDULED", "CANCEL_REQUESTED"}
                        \cup OverStates \subseteq JobStates
BY DEF OverStates, JobStates, ALLOWED_JOB_TRANSITIONS

LEMMA CompleteEnds ==
  ASSUME Ready, NEW post, NEW counted \in BOOLEAN, Complete(post, counted),
         run.row.op = "CREATE" => run.row.target = run.job
  PROVE  Ends(post)
<1> DEFINE state == IF run.partial THEN "PARTIAL" ELSE "SUCCEEDED"
           counts == counted /\ run.row.op \in Metered
           mid == [run.row EXCEPT !.state = state]
           row == [run.row EXCEPT !.state = state, !.completed = @ \/ counts]
           q == IF counted THEN CompletedQuota(run.row) ELSE quota
<1>1. Commit(row, post, run.bound, q)
  BY DEF Complete
<1>2. run.row \in Rows /\ state \in {"PARTIAL", "SUCCEEDED"} /\ state \in JobStates
  BY StatesOfJobs DEF Ready, Runs, OverStates
<1>3. run.row.completed \in BOOLEAN /\ counts \in BOOLEAN /\ quota.completed \in Nat /\ quota.completed + 1 \in Nat
  BY DEF Ready, Runs, Rows, QuotaRows
<1> HIDE DEF state, counts
<1>4. /\ row \in Rows /\ row.state = state /\ SameRequest(run.row, row)
      /\ row.attempt = run.row.attempt /\ row.target = run.row.target
      /\ (row.completed <=> run.row.completed \/ counts) /\ (row.released <=> run.row.released)
  BY <1>2, <1>3 DEF Rows, SameRequest
<1> HIDE DEF row
<1>5. ~run.row.released /\ ~row.released /\ row.op = run.row.op
  BY <1>4 DEF Ready, SameRequest
<1>6. CASE counts /\ ~run.row.completed
  <2>1. q = [quota EXCEPT !.completed = @ + 1]
    BY <1>6 DEF counts, CompletedQuota
  <2>2. q \in QuotaRows /\ q.completed = quota.completed + 1 /\ q.reserved = quota.reserved
    BY <1>3, <2>1 DEF Ready, QuotaRows
  <2> HIDE DEF q
  <2>3. QuotaMoves(run.row, row, q)
    BY <1>4, <1>5, <1>6, <2>2 DEF QuotaMoves, counts
  <2>4. RowEnds(row, q)
    BY <1>2, <1>4, <1>5, <2>3 DEF RowEnds, OverStates
  <2> QED BY <1>1, <1>2, <1>4, <2>4 DEF Ends
<1>7. CASE ~(counts /\ ~run.row.completed)
  <2>1. q = quota
    BY <1>7 DEF counts, CompletedQuota
  <2> HIDE DEF q
  <2>2. QuotaMoves(run.row, row, q)
    BY <1>4, <1>5, <1>7, <2>1 DEF QuotaMoves, Ready
  <2>3. RowEnds(row, q)
    BY <1>2, <1>4, <1>5, <2>2 DEF RowEnds, OverStates
  <2> QED BY <1>1, <1>2, <1>4, <2>3 DEF Ends
<1> QED BY <1>6, <1>7

LEMMA ReleasedEnds ==
  ASSUME Ready, NEW post, NEW reverse \in BOOLEAN, NEW state \in {"FINAL_FAILED", "CANCELLED"},
         state = "CANCELLED" => CancelReached,
         Commit([ReleasedRow(run.row, reverse) EXCEPT !.state = state], post, run.bound,
                ReleasedQuota(run.row, reverse))
  PROVE  Ends(post)
<1> DEFINE row == [ReleasedRow(run.row, reverse) EXCEPT !.state = state]
           q == ReleasedQuota(run.row, reverse)
<1>1. run.row \in Rows /\ quota \in QuotaRows /\ state \in JobStates
  BY StatesOfJobs DEF Ready, Runs, OverStates
<1>2. /\ row \in Rows /\ row.state = state /\ SameRequest(run.row, row)
      /\ row.attempt = run.row.attempt /\ row.target = run.row.target
      /\ QuotaMoves(run.row, row, q)
      /\ row.op \in Metered /\ ~row.released /\ quota.reserved > quota.completed => row.completed
  BY <1>1, ReleaseMoves
<1> HIDE DEF row, q
<1>3. row.op \in Metered /\ ~row.released => row.completed
  BY <1>2 DEF Ready, QuotaMoves
<1>4. RowEnds(row, q)
  BY <1>2, <1>3 DEF RowEnds, OverStates
<1> QED BY <1>2, <1>4 DEF Ends, row, q

LEMMA FailFinallyEnds ==
  ASSUME Ready, NEW post, FailFinally(run.row, post)
  PROVE  Ends(post)
BY ReleasedEnds DEF FailFinally

LEMMA CancelledEnds ==
  ASSUME Ready, NEW post, NEW released \in BOOLEAN, Cancelled(post, released),
         CancelReached
  PROVE  Ends(post)
BY ReleasedEnds DEF Cancelled

LEMMA PlainEnds ==
  ASSUME Ready, NEW post, NEW state \in {"RETRYABLE_FAILED", "FINAL_FAILED"},
         state = "RETRYABLE_FAILED" => run.row.attempt < MaxAttempts,
         state = "FINAL_FAILED" => run.row.cancel /\ run.row.target # NoJob,
         Commit([run.row EXCEPT !.state = state], post, run.bound, quota)
  PROVE  Ends(post)
<1> DEFINE row == [run.row EXCEPT !.state = state]
<1>1. run.row \in Rows /\ state \in JobStates
  BY StatesOfJobs DEF Ready, Runs, OverStates
<1>2. /\ row \in Rows /\ row.state = state /\ SameRequest(run.row, row)
      /\ row.attempt = run.row.attempt /\ row.target = run.row.target
      /\ (row.completed <=> run.row.completed) /\ (row.released <=> run.row.released)
  BY <1>1, RowState
<1> HIDE DEF row
<1>3. QuotaMoves(run.row, row, quota) /\ ~row.released
  BY <1>2 DEF QuotaMoves, Ready, SameRequest
<1>4. RowEnds(row, quota)
  BY <1>2, <1>3 DEF RowEnds, OverStates, SameRequest
<1> QED BY <1>2, <1>4 DEF Ends, row

LEMMA ProviderFailureEnds ==
  ASSUME Ready, NEW post, NEW retryable \in BOOLEAN, ProviderFailure(retryable, post)
  PROVE  Ends(post)
BY PlainEnds, FailFinallyEnds DEF ProviderFailure

LEMMA CancelFailureEnds ==
  ASSUME Ready, NEW retryable \in BOOLEAN, CancelFailure(retryable),
         run.row.cancel, run.row.target # NoJob
  PROVE  Ends(run.post)
<1> DEFINE state == IF retryable /\ run.row.attempt < MaxAttempts
                    THEN "RETRYABLE_FAILED" ELSE "FINAL_FAILED"
<1>1. Commit([run.row EXCEPT !.state = state], run.post, run.bound, quota)
  BY DEF CancelFailure
<1>2. /\ state \in {"RETRYABLE_FAILED", "FINAL_FAILED"}
      /\ state = "RETRYABLE_FAILED" => run.row.attempt < MaxAttempts
  OBVIOUS
<1> HIDE DEF state
<1> QED BY <1>1, <1>2, PlainEnds

-----------------------------------------------------------------------------
(* What a call does.                                                       *)

RemoteAdvances ==
  remote' \in [Jobs -> RemotePosts] /\ \A p \in Jobs : RemoteMoves(remote[p], remote'[p])

LEMMA RemoteAdvancesAt ==
  ASSUME Typed, RemoteInv, NEW p \in Jobs, NEW s, RemoteMoves(remote[p], s),
         remote' = [remote EXCEPT ![p] = s]
  PROVE  RemoteAdvances /\ remote'[p] = s
<1>1. s \in RemotePosts
  BY DEF RemoteMoves, RemoteOK
<1>2. remote' \in [Jobs -> RemotePosts] /\ remote'[p] = s
      /\ \A k \in Jobs : k # p => remote'[k] = remote[k]
  BY <1>1 DEF Typed
<1>3. \A k \in Jobs : RemoteMoves(remote[k], remote[k])
  BY RemoteStays DEF RemoteInv
<1> QED BY <1>2, <1>3 DEF RemoteAdvances

LEMMA RemoteRests ==
  ASSUME Typed, RemoteInv, remote' = remote
  PROVE  RemoteAdvances
BY RemoteStays DEF RemoteAdvances, RemoteInv, Typed

\* The row of the post a run leaves behind.
PostEnds(post) ==
  /\ post \in PostRows
  /\ post.state # "NONE" <=> run.row.target # NoJob
  /\ PostAt(post, remote'[run.subject])

\* The working copy of a run that goes on.
RunMoves(changed) ==
  /\ changed \in Runs
  /\ changed.job = run.job /\ changed.retries = run.retries /\ changed.subject = run.subject
  /\ SameRequest(run.row, changed.row) /\ changed.row.attempt = run.row.attempt
  /\ (changed.row.completed <=> run.row.completed) /\ (changed.row.released <=> run.row.released)
  /\ changed.row.target # run.row.target => run.row.op = "CREATE" /\ changed.row.target = run.job
  /\ changed.post.state # "NONE" <=> changed.row.target # NoJob
  /\ PostAt(changed.post, remote'[run.subject])
  /\ changed.pc # "fetch"
  /\ changed.pc = "verify" => changed.row.target # NoJob
  /\ changed.pc \in {"cancel", "revert"} => run.row.cancel
  /\ changed.pc = "revert" => changed.post.state = "SCHEDULED"
  /\ changed.pc \in {"cancel", "revert"} =>
       run.pc \in {"cancel", "revert"} /\ changed.post = run.post
  /\ run.row.op # "CREATE" /\ changed.pc \in {"upload", "write"}
       => run.row.action = "OVERWRITE" \/ changed.seen = run.row.expected

CallStep ==
  /\ RemoteAdvances
  /\ uploads' \in 0..2 /\ edits' = edits
  /\ \/ \E post : PostEnds(post) /\ Ends(post)
     \/ \E changed : RunMoves(changed) /\ Continue(changed)

LEMMA RunFacts ==
  ASSUME SagaInv, run # NoRun
  PROVE  /\ Ready /\ run \in Runs
         /\ run.job \in Jobs /\ run.retries \in 0..MaxRetries /\ run.subject \in Jobs
         /\ run.post \in PostRows /\ run.row \in Rows /\ run.bound \in BOOLEAN
         /\ run.partial \in BOOLEAN /\ run.seen \in Nat
         /\ RemoteOK(Current) /\ Current \in RemotePosts /\ Current.hash \in Nat
         /\ run.row.op # "NONE"
         /\ run.post.state # "NONE" <=> run.row.target # NoJob
         /\ run.row.op # "CREATE" => run.row.target # NoJob
         /\ run.row.op = "CREATE" => run.subject = run.job /\ run.row.target \in {NoJob, run.job}
         /\ PostAt(run.post, Current)
<1>1. /\ Typed /\ RemoteInv /\ RunInv /\ QuotaInv /\ JobsInv
  BY DEF SagaInv
<1>2. /\ run \in Runs /\ run.job \in Jobs /\ run.retries \in 0..MaxRetries /\ run.subject \in Jobs
      /\ run.post \in PostRows /\ run.row \in Rows /\ run.bound \in BOOLEAN
      /\ run.partial \in BOOLEAN /\ run.seen \in Nat
  BY <1>1 DEF Typed, Runs
<1>3. RemoteOK(Current) /\ Current \in RemotePosts /\ Current.hash \in Nat
  BY <1>1, <1>2 DEF RemoteInv, RemoteOK, Current, RemotePosts
<1>4. /\ SameRequest(jobs[run.job], run.row) /\ jobs[run.job].op # "NONE"
      /\ run.row.completed <=> jobs[run.job].completed
      /\ ~run.row.released /\ ~jobs[run.job].released
      /\ run.subject = IF run.row.op = "CREATE" THEN run.job ELSE run.row.target
      /\ run.row.op # "CREATE" => run.row.target = jobs[run.job].target
      /\ run.row.op = "CREATE" => run.row.target \in {NoJob, run.job}
      /\ run.post.state # "NONE" <=> run.row.target # NoJob
      /\ PostAt(run.post, Current)
  BY <1>1 DEF RunInv, Current
<1>5. run.row.op = jobs[run.job].op
  BY <1>4 DEF SameRequest
<1>6. run.row.op \in Metered /\ ~run.row.completed => quota.reserved > quota.completed
  BY <1>1, <1>2, <1>4, <1>5, CountsFacts DEF Reserving
<1>7. Ready
  BY <1>1, <1>2, <1>4, <1>6 DEF Ready, QuotaInv
<1>8. run.row.op # "CREATE" => run.row.target # NoJob
  BY <1>1, <1>2, <1>4, <1>5 DEF JobsInv, JobInv
<1> QED BY <1>2, <1>3, <1>4, <1>5, <1>7, <1>8

LEMMA AppliedPost ==
  ASSUME NEW r, RemoteOK(r), r.state # "gone", NEW partial \in BOOLEAN, NEW snapped \in BOOLEAN
  PROVE  LET post == ApplyRemote(r, partial, snapped)
         IN  post \in PostRows /\ post.state # "NONE" /\ PostAt(post, r)
<1> DEFINE post == ApplyRemote(r, partial, snapped)
           state == PostState(r.state, partial)
<1>1. state \in {"PARTIAL", "PUBLISHED", "SCHEDULED", "DRAFT"}
  BY DEF PostState
<1> HIDE DEF state
<1>2. r.id \in Nat /\ r.hash \in Nat /\ r.body \in Nat /\ r.id >= 1 /\ r.hash >= 1
  BY DEF RemoteOK, RemotePosts
<1>3. post = [ state |-> state, id |-> r.id, hash |-> r.hash, body |-> r.body, snapped |-> snapped ]
  BY DEF ApplyRemote, state
<1> HIDE DEF post
<1>4. post \in PostRows /\ post.state = state /\ post.id = r.id /\ post.hash = r.hash
  BY <1>1, <1>2, <1>3 DEF PostRows, PostStates
<1> QED BY <1>1, <1>2, <1>4 DEF PostAt, post

LEMMA RestatedPost ==
  ASSUME NEW post \in PostRows, NEW r, PostAt(post, r), post.state # "NONE",
         NEW state \in PostStates \ {"NONE"}
  PROVE  LET new == [post EXCEPT !.state = state]
         IN  new \in PostRows /\ new.state # "NONE" /\ PostAt(new, r)
BY DEF PostRows, PostAt

LEMMA PostAtLater ==
  ASSUME NEW post \in PostRows, NEW r, RemoteOK(r), NEW s, RemoteMoves(r, s), PostAt(post, r)
  PROVE  PostAt(post, s)
<1>1. /\ post.id \in Nat /\ post.hash \in Nat /\ r.id \in Nat /\ r.hash \in Nat
      /\ s.id \in Nat /\ s.hash \in Nat /\ s.id >= r.id /\ s.hash >= r.hash
  BY DEF PostRows, RemoteMoves, RemoteOK, RemotePosts
<1> QED BY <1>1 DEF PostAt

LEMMA KeptPost ==
  ASSUME SagaInv, run # NoRun, RemoteAdvances
  PROVE  PostEnds(run.post)
<1>1. /\ run.post \in PostRows /\ run.subject \in Jobs /\ RemoteOK(Current)
      /\ run.post.state # "NONE" <=> run.row.target # NoJob
      /\ PostAt(run.post, Current)
  BY RunFacts
<1>2. PostAt(run.post, remote'[run.subject])
  BY <1>1, PostAtLater DEF RemoteAdvances, Current
<1> QED BY <1>1, <1>2 DEF PostEnds

\* Calls that end the run and leave the CMS and the post's row alone.
LEMMA PlainCalls ==
  ASSUME SagaInv,
         \/ ContentRefused \/ CallFails \/ UploadAnswerLost \/ FetchStale
         \/ CancelWithoutCall \/ CancelTooLate
  PROVE  CallStep
<1>1. run # NoRun /\ UNCHANGED remote
  BY DEF ContentRefused, CallFails, UploadAnswerLost, FetchStale, CancelWithoutCall, CancelTooLate,
         At, CancelFetched
<1>2. RemoteAdvances /\ PostEnds(run.post)
  BY <1>1, RemoteRests, KeptPost DEF SagaInv
<1>3. uploads' \in 0..2 /\ edits' = edits
  <2>1. (uploads' = uploads \/ uploads' = OneMore(uploads)) /\ edits' = edits
    BY DEF ContentRefused, CallFails, UploadAnswerLost, FetchStale, CancelWithoutCall, CancelTooLate
  <2>2. uploads \in 0..2
    BY DEF SagaInv, Typed
  <2> QED BY <2>1, <2>2 DEF OneMore
<1>4. Ready /\ (run.post.state # "NONE" <=> run.row.target # NoJob)
  BY <1>1, RunFacts
<1>5. run.pc \in {"cancel", "revert"} => run.row.cancel
  BY <1>1 DEF SagaInv, RunInv
<1>6. ASSUME ContentRefused \/ FetchStale PROVE Ends(run.post)
  BY <1>4, <1>6, FailFinallyEnds DEF ContentRefused, FetchStale
<1>7. ASSUME UploadAnswerLost PROVE Ends(run.post)
  BY <1>4, <1>7, ProviderFailureEnds DEF UploadAnswerLost
<1>8. ASSUME CancelWithoutCall PROVE Ends(run.post)
  BY <1>4, <1>8, CancelledEnds DEF CancelWithoutCall, CancelReached, At
<1>9. ASSUME CancelTooLate PROVE Ends(run.post)
  BY <1>4, <1>5, <1>9, CancelFailureEnds DEF CancelTooLate, CancelFetched, At
<1>10. ASSUME CallFails PROVE Ends(run.post)
  <2>1. PICK retryable \in BOOLEAN :
          IF run.pc \in {"cancel", "revert"} THEN CancelFailure(retryable)
          ELSE ProviderFailure(retryable, run.post)
    BY <1>10 DEF CallFails
  <2>2. run.pc \in {"cancel", "revert"} => run.post.state = "SCHEDULED"
    BY <1>1, <1>10 DEF CallFails, SagaInv, RunInv
  <2>3. CASE run.pc \in {"cancel", "revert"}
    BY <1>4, <1>5, <2>1, <2>2, <2>3, CancelFailureEnds
  <2>4. CASE run.pc \notin {"cancel", "revert"}
    BY <1>4, <2>1, <2>4, ProviderFailureEnds
  <2> QED BY <2>3, <2>4
<1> QED BY <1>2, <1>3, <1>6, <1>7, <1>8, <1>9, <1>10 DEF CallStep

\* The answer of get_post.
LEMMA FetchCalls ==
  ASSUME SagaInv,
         \/ FetchMissing \/ FetchTransition \/ ConflictAbort \/ ConflictImport
         \/ CancelDraft \/ VerifyRemote
  PROVE  CallStep
<1>1. run # NoRun /\ UNCHANGED remote /\ edits' = edits /\ UNCHANGED uploads
  BY DEF FetchMissing, FetchTransition, ConflictAbort, ConflictImport, CancelDraft, VerifyRemote,
         Fetched, At, Conflict, CancelFetched
<1>2. RemoteAdvances /\ PostEnds(run.post) /\ uploads' \in 0..2
  BY <1>1, RemoteRests, KeptPost DEF SagaInv, Typed
<1>3. /\ Ready /\ (run.post.state # "NONE" <=> run.row.target # NoJob) /\ RemoteOK(Current)
      /\ run.row.op # "CREATE" => run.row.target # NoJob
      /\ run.row.op = "CREATE" => run.row.target \in {NoJob, run.job}
      /\ run.post \in PostRows /\ PostAt(run.post, Current) /\ run.partial \in BOOLEAN
  BY <1>1, RunFacts
<1>4. /\ run.pc = "fetch" => run.row.op # "CREATE"
      /\ run.pc = "verify" => run.row.target # NoJob
  BY <1>1 DEF SagaInv, RunInv
<1>5. Current = remote'[run.subject]
  BY <1>1 DEF Current
<1>6. ASSUME NEW state \in PostStates \ {"NONE"}, run.row.target # NoJob
      PROVE  PostEnds([run.post EXCEPT !.state = state])
  BY <1>3, <1>5, <1>6, RestatedPost DEF PostEnds
<1>7. ASSUME NEW partial \in BOOLEAN, NEW snapped \in BOOLEAN, Current.state # "gone",
             run.row.target # NoJob
      PROVE  PostEnds(ApplyRemote(Current, partial, snapped))
  BY <1>3, <1>5, <1>7, AppliedPost DEF PostEnds
<1>8. ASSUME FetchMissing PROVE CallStep
  <2>1. run.row.target # NoJob /\ run.row.op # "CREATE"
    BY <1>3, <1>4, <1>8 DEF FetchMissing, Fetched, At
  <2>2. CASE run.row.op = "DELETE"
    <3> DEFINE post == [run.post EXCEPT !.state = "DELETED"]
    <3>1. Complete(post, FALSE)
      BY <1>8, <2>2 DEF FetchMissing
    <3>2. PostEnds(post)
      BY <1>6, <2>1 DEF PostStates
    <3> HIDE DEF post
    <3> QED BY <1>1, <1>2, <1>3, <2>1, <3>1, <3>2, CompleteEnds DEF CallStep
  <2>3. CASE run.row.op = "RECONCILE"
    <3> DEFINE post == [run.post EXCEPT !.state = "REMOTE_MISSING"]
    <3>1. Complete(post, FALSE)
      BY <1>8, <2>3 DEF FetchMissing
    <3>2. PostEnds(post)
      BY <1>6, <2>1 DEF PostStates
    <3> HIDE DEF post
    <3> QED BY <1>1, <1>2, <1>3, <2>1, <3>1, <3>2, CompleteEnds DEF CallStep
  <2>4. CASE run.row.op \notin {"DELETE", "RECONCILE"}
    <3>1. FailFinally(run.row, run.post)
      BY <1>8, <2>4 DEF FetchMissing
    <3> QED BY <1>1, <1>2, <1>3, <3>1, FailFinallyEnds DEF CallStep
  <2> QED BY <2>2, <2>3, <2>4
<1>9. ASSUME FetchTransition PROVE CallStep
  <2> DEFINE post == ApplyRemote(Current, FALSE, TRUE)
  <2>1. run.row.target # NoJob /\ run.row.op # "CREATE" /\ Current.state # "gone"
    BY <1>3, <1>4, <1>9 DEF FetchTransition, Fetched, At, Missing
  <2>2. Complete(post, FALSE) /\ PostEnds(post)
    BY <1>7, <1>9, <2>1 DEF FetchTransition
  <2> HIDE DEF post
  <2> QED BY <1>1, <1>2, <1>3, <2>1, <2>2, CompleteEnds DEF CallStep
<1>10. ASSUME ConflictAbort PROVE CallStep
  <2> DEFINE post == IF run.row.op = "RECONCILE" THEN [run.post EXCEPT !.state = "CONFLICT"] ELSE run.post
  <2>1. run.row.target # NoJob
    BY <1>3, <1>4, <1>10 DEF ConflictAbort, Conflict, Fetched, At
  <2>2. FailFinally(run.row, post)
    BY <1>10 DEF ConflictAbort
  <2>3. PostEnds(post)
    BY <1>2, <1>6, <2>1 DEF PostStates
  <2> HIDE DEF post
  <2> QED BY <1>1, <1>2, <1>3, <2>2, <2>3, FailFinallyEnds DEF CallStep
<1>11. ASSUME ConflictImport PROVE CallStep
  <2> DEFINE applied == ApplyRemote(Current, FALSE, TRUE)
             post == [applied EXCEPT !.state = "CONFLICT"]
  <2>1. run.row.target # NoJob /\ run.row.op # "CREATE" /\ Current.state # "gone"
    BY <1>3, <1>4, <1>11 DEF ConflictImport, Conflict, Fetched, At, Missing
  <2>2. Complete(post, FALSE)
    BY <1>11 DEF ConflictImport
  <2>3. applied \in PostRows /\ applied.state # "NONE" /\ PostAt(applied, Current)
    BY <1>3, <2>1, AppliedPost
  <2> HIDE DEF applied
  <2>4. post \in PostRows /\ post.state # "NONE" /\ PostAt(post, Current)
    BY <2>3, RestatedPost DEF PostStates
  <2> HIDE DEF post
  <2>5. PostEnds(post)
    BY <1>5, <2>1, <2>4 DEF PostEnds
  <2> QED BY <1>1, <1>2, <1>3, <2>1, <2>2, <2>5, CompleteEnds DEF CallStep
<1>12. ASSUME CancelDraft PROVE CallStep
  <2> DEFINE post == ApplyRemote(Current, FALSE, FALSE)
  <2>1. run.row.target # NoJob /\ Current.state # "gone"
    BY <1>3, <1>12 DEF CancelDraft, CancelFetched
  <2>2. Cancelled(post, TRUE) /\ PostEnds(post) /\ CancelReached
    BY <1>5, <1>7, <1>12, <2>1 DEF CancelDraft, CancelReached, CancelFetched, At
  <2> HIDE DEF post
  <2> QED BY <1>1, <1>2, <1>3, <2>2, CancelledEnds DEF CallStep
<1>13. ASSUME VerifyRemote PROVE CallStep
  <2>1. run.row.target # NoJob
    BY <1>3, <1>4, <1>13 DEF VerifyRemote, At
  <2>2. CASE Missing
    BY <1>1, <1>2, <1>3, <1>13, <2>2, FailFinallyEnds DEF CallStep, VerifyRemote
  <2>3. CASE ~Missing
    <3> DEFINE post == ApplyRemote(Current, run.partial, TRUE)
    <3>1. Complete(post, TRUE) /\ PostEnds(post)
      BY <1>3, <1>7, <1>13, <2>1, <2>3 DEF VerifyRemote, Missing
    <3> HIDE DEF post
    <3> QED BY <1>1, <1>2, <1>3, <2>1, <3>1, CompleteEnds DEF CallStep
  <2> QED BY <2>2, <2>3
<1> QED BY <1>8, <1>9, <1>10, <1>11, <1>12, <1>13

\* Calls after which the run goes on, the CMS unchanged.
LEMMA ContinuedCalls ==
  ASSUME SagaInv,
         \/ ReuseBinding \/ UploadMedia \/ FetchUnchanged \/ ConflictOverwrite \/ CancelScheduled
  PROVE  CallStep
<1>1. run # NoRun /\ UNCHANGED remote
  BY DEF ReuseBinding, UploadMedia, FetchUnchanged, ConflictOverwrite, CancelScheduled,
         ProceedWith, Fetched, At, Conflict, CancelFetched
<1>2. uploads' \in 0..2 /\ edits' = edits
  <2>1. (uploads' = uploads \/ uploads' = OneMore(uploads)) /\ edits' = edits
    BY DEF ReuseBinding, UploadMedia, FetchUnchanged, ConflictOverwrite, CancelScheduled,
           ProceedWith, Continue
  <2>2. uploads \in 0..2
    BY DEF SagaInv, Typed
  <2> QED BY <2>1, <2>2 DEF OneMore
<1>3. RemoteAdvances /\ PostEnds(run.post)
  BY <1>1, RemoteRests, KeptPost DEF SagaInv
<1>4. /\ Ready /\ (run.post.state # "NONE" <=> run.row.target # NoJob) /\ RemoteOK(Current)
      /\ run \in Runs /\ run.post \in PostRows /\ PostAt(run.post, Current)
      /\ Current.hash \in Nat
      /\ run.row.op # "CREATE" => run.row.target # NoJob
  BY <1>1, RunFacts
<1>5. PostAt(run.post, remote'[run.subject])
  BY <1>1, <1>4 DEF Current
<1>6. /\ run.pc = "fetch" => run.row.op # "CREATE"
      /\ run.pc \in {"cancel", "revert"} => run.row.cancel
      /\ run.row.op # "CREATE" /\ run.pc \in {"upload", "write"}
           => run.row.action = "OVERWRITE" \/ run.seen = run.row.expected
  BY <1>1 DEF SagaInv, RunInv
<1>7. ASSUME NEW changed \in Runs, changed.job = run.job, changed.retries = run.retries,
             changed.subject = run.subject, changed.row = run.row,
             changed.post.state = run.post.state, changed.post.id = run.post.id,
             changed.post.hash = run.post.hash,
             \/ /\ changed.pc \in {"upload", "write"}
                /\ run.row.op # "CREATE" =>
                     run.row.action = "OVERWRITE" \/ changed.seen = run.row.expected
             \/ /\ changed.pc = "revert" /\ run.row.cancel /\ run.post.state = "SCHEDULED"
                /\ run.pc = "cancel" /\ changed.post = run.post
      PROVE  RunMoves(changed)
  BY <1>4, <1>5, <1>7 DEF RunMoves, SameRequest, PostAt
<1>8. ASSUME ReuseBinding PROVE CallStep
  <2> DEFINE changed == [run EXCEPT !.pc = "write"]
  <2>1. /\ changed \in Runs /\ changed.job = run.job /\ changed.retries = run.retries
        /\ changed.subject = run.subject /\ changed.row = run.row /\ changed.post = run.post
        /\ changed.pc = "write" /\ changed.seen = run.seen
    BY <1>4 DEF Runs
  <2>2. Continue(changed) /\ run.pc = "upload"
    BY <1>8 DEF ReuseBinding, At
  <2> HIDE DEF changed
  <2>3. RunMoves(changed)
    BY <1>6, <1>7, <2>1, <2>2
  <2> QED BY <1>2, <1>3, <2>2, <2>3 DEF CallStep
<1>9. ASSUME UploadMedia PROVE CallStep
  <2> DEFINE a == [run EXCEPT !.pc = "write", !.bound = TRUE]
             b == [run EXCEPT !.pc = "write", !.partial = TRUE]
  <2>1. /\ a \in Runs /\ a.job = run.job /\ a.retries = run.retries
        /\ a.subject = run.subject /\ a.row = run.row /\ a.post = run.post /\ a.pc = "write"
        /\ a.seen = run.seen
    BY <1>4 DEF Runs
  <2>2. /\ b \in Runs /\ b.job = run.job /\ b.retries = run.retries
        /\ b.subject = run.subject /\ b.row = run.row /\ b.post = run.post /\ b.pc = "write"
        /\ b.seen = run.seen
    BY <1>4 DEF Runs
  <2>3. (Continue(a) \/ Continue(b)) /\ run.pc = "upload"
    BY <1>9 DEF UploadMedia, At
  <2> HIDE DEF a, b
  <2>4. RunMoves(a) /\ RunMoves(b)
    BY <1>6, <1>7, <2>1, <2>2, <2>3
  <2> QED BY <1>2, <1>3, <2>3, <2>4 DEF CallStep
<1>10. ASSUME NEW post \in PostRows, ProceedWith(post), post.state = run.post.state,
              post.id = run.post.id, post.hash = run.post.hash,
              run.row.action = "OVERWRITE" \/ Current.hash = run.row.expected
       PROVE  CallStep
  <2> DEFINE pc == NextCall(run.row.op)
             changed == [run EXCEPT !.pc = pc, !.seen = Current.hash, !.post = post]
  <2>1. pc \in {"upload", "write"}
    BY DEF NextCall
  <2> HIDE DEF pc
  <2>2. /\ changed \in Runs /\ changed.job = run.job /\ changed.retries = run.retries
        /\ changed.subject = run.subject /\ changed.row = run.row /\ changed.post = post
        /\ changed.pc = pc /\ changed.seen = Current.hash
    BY <1>4, <2>1 DEF Runs
  <2>3. Continue(changed)
    BY <1>10 DEF ProceedWith, pc
  <2> HIDE DEF changed
  <2>4. RunMoves(changed)
    BY <1>7, <1>10, <2>1, <2>2
  <2> QED BY <1>2, <1>3, <2>3, <2>4 DEF CallStep
<1>11. ASSUME FetchUnchanged PROVE CallStep
  <2>1. CASE run.row.op = "RECONCILE"
    <3>1. Complete(run.post, FALSE)
      BY <1>11, <2>1 DEF FetchUnchanged
    <3> QED BY <1>2, <1>3, <1>4, <2>1, <3>1, CompleteEnds DEF CallStep
  <2>2. CASE run.row.op # "RECONCILE"
    <3> DEFINE post == [run.post EXCEPT !.snapped = TRUE]
    <3>1. /\ post \in PostRows /\ post.state = run.post.state
          /\ post.id = run.post.id /\ post.hash = run.post.hash
      BY <1>4 DEF PostRows
    <3>2. ProceedWith(post) /\ Current.hash = run.row.expected
      BY <1>11, <2>2 DEF FetchUnchanged, RemoteConflict
    <3> HIDE DEF post
    <3> QED BY <1>10, <3>1, <3>2
  <2> QED BY <2>1, <2>2
<1>12. ASSUME ConflictOverwrite PROVE CallStep
  BY <1>4, <1>10, <1>12 DEF ConflictOverwrite
<1>13. ASSUME CancelScheduled PROVE CallStep
  <2> DEFINE changed == [run EXCEPT !.pc = "revert", !.seen = Current.hash]
  <2>1. /\ changed \in Runs /\ changed.job = run.job /\ changed.retries = run.retries
        /\ changed.subject = run.subject /\ changed.row = run.row /\ changed.post = run.post
        /\ changed.pc = "revert"
    BY <1>4 DEF Runs
  <2>2. Continue(changed) /\ run.row.cancel /\ run.post.state = "SCHEDULED" /\ run.pc = "cancel"
    BY <1>6, <1>13 DEF CancelScheduled, CancelFetched, At
  <2> HIDE DEF changed
  <2>3. RunMoves(changed)
    BY <1>7, <2>1, <2>2
  <2> QED BY <1>2, <1>3, <2>2, <2>3 DEF CallStep
<1> QED BY <1>8, <1>9, <1>11, <1>12, <1>13

\* Calls that change the CMS; the answer may get lost.
LEMMA WriteCalls ==
  ASSUME SagaInv,
         \/ WriteNewPost \/ WriteKnownPost \/ DeletePost \/ WriteAnswerLost
         \/ RevertSchedule \/ RevertAnswerLost
  PROVE  CallStep
<1>1. run # NoRun /\ uploads' = uploads
  BY DEF WriteNewPost, WriteKnownPost, DeletePost, WriteAnswerLost, RevertSchedule, RevertAnswerLost, At
<1>2. uploads' \in 0..2
  BY <1>1 DEF SagaInv, Typed
<1>3. /\ Ready /\ (run.post.state # "NONE" <=> run.row.target # NoJob) /\ RemoteOK(Current)
      /\ run \in Runs /\ run.subject \in Jobs /\ run.job \in Jobs /\ run.row \in Rows
      /\ run.post \in PostRows /\ PostAt(run.post, Current)
      /\ run.partial \in BOOLEAN
      /\ run.row.op # "CREATE" => run.row.target # NoJob
      /\ run.row.op = "CREATE" => run.subject = run.job /\ run.row.target \in {NoJob, run.job}
  BY <1>1, RunFacts
<1>4. /\ run.pc \in {"cancel", "revert"} => run.row.cancel
      /\ run.pc = "revert" => run.post.state = "SCHEDULED"
  BY <1>1 DEF SagaInv, RunInv
<1>5. ASSUME NEW s, RemoteMoves(Current, s), remote' = [remote EXCEPT ![run.subject] = s]
      PROVE  RemoteAdvances /\ remote'[run.subject] = s /\ PostEnds(run.post)
  BY <1>1, <1>3, <1>5, RemoteAdvancesAt, KeptPost DEF SagaInv, Current
<1>6. ASSUME UNCHANGED remote PROVE RemoteAdvances /\ PostEnds(run.post)
  BY <1>1, <1>6, RemoteRests, KeptPost DEF SagaInv
<1>7. /\ RemoteMoves(Current, Upserted) /\ Upserted.state \in LiveStates
      /\ ~Missing => RemoteMoves(Current, Written(Current))
      /\ ~Missing => \A force \in BOOLEAN : RemoteMoves(Current, Deleted(Current, force))
      /\ ~Missing => RemoteMoves(Current, Reverted(Current)) /\ Reverted(Current).state = "draft"
  BY <1>3, UpsertedMoves, WrittenMoves, DeletedMoves, RevertedMoves DEF Missing
<1>8. ASSUME WriteNewPost PROVE CallStep
  <2> DEFINE post == CreatedPost(Upserted)
  <2>1. /\ RemoteAdvances /\ remote'[run.subject] = Upserted /\ PostEnds(run.post)
        /\ run.row.op = "CREATE"
    BY <1>5, <1>7, <1>8 DEF WriteNewPost
  <2>2. CASE run.post.state # "NONE" /\ run.post.id # Upserted.id
    <3>1. FailFinally(run.row, run.post) /\ edits' = edits
      BY <1>8, <2>2 DEF WriteNewPost
    <3> QED BY <1>2, <1>3, <2>1, <3>1, FailFinallyEnds DEF CallStep
  <2>3. CASE ~(run.post.state # "NONE" /\ run.post.id # Upserted.id)
    <3> DEFINE row == [run.row EXCEPT !.target = run.job]
               changed == [run EXCEPT !.pc = "verify", !.post = post, !.row = row]
    <3>1. Continue([run EXCEPT !.pc = "verify", !.post = post, !.row.target = run.job])
      BY <1>8, <2>3 DEF WriteNewPost
    <3>2. RemoteOK(Upserted) /\ Upserted.state # "gone"
      BY <1>7 DEF RemoteMoves, LiveStates
    <3>3. post \in PostRows /\ post.state # "NONE" /\ PostAt(post, Upserted)
      BY <1>3, <3>2, AppliedPost DEF CreatedPost
    <3> HIDE DEF post
    <3>4. [run EXCEPT !.pc = "verify", !.post = post, !.row.target = run.job] = changed
      BY <1>3 DEF Runs
    <3>5. /\ row \in Rows /\ SameRequest(run.row, row) /\ row.attempt = run.row.attempt
          /\ (row.completed <=> run.row.completed) /\ (row.released <=> run.row.released)
          /\ row.target = run.job
      BY <1>3 DEF Rows, SameRequest
    <3> HIDE DEF row
    <3>6. /\ changed \in Runs /\ changed.job = run.job /\ changed.retries = run.retries
          /\ changed.subject = run.subject /\ changed.row = row /\ changed.post = post
          /\ changed.pc = "verify"
      BY <1>3, <3>3, <3>5 DEF Runs
    <3> HIDE DEF changed
    <3>7. run.job # NoJob
      BY <1>3, PublishAssumption
    <3>8. RunMoves(changed)
      BY <2>1, <3>3, <3>5, <3>6, <3>7 DEF RunMoves
    <3>9. Continue(changed) /\ edits' = edits
      BY <3>1, <3>4 DEF Continue
    <3> QED BY <1>2, <2>1, <3>8, <3>9 DEF CallStep
  <2> QED BY <2>2, <2>3
<1>9. ASSUME WriteKnownPost PROVE CallStep
  <2>1. CASE Missing \/ ~Accepted
    <3>1. FailFinally(run.row, run.post) /\ UNCHANGED <<remote, edits>>
      BY <1>9, <2>1 DEF WriteKnownPost
    <3> QED BY <1>2, <1>3, <1>6, <3>1, FailFinallyEnds DEF CallStep
  <2>2. CASE ~(Missing \/ ~Accepted)
    <3> DEFINE changed == [run EXCEPT !.pc = "verify"]
    <3>1. /\ remote' = [remote EXCEPT ![run.subject] = Written(Current)]
          /\ Continue(changed) /\ edits' = edits /\ run.row.op # "CREATE"
      BY <1>9, <2>2 DEF WriteKnownPost, Continue
    <3>2. RemoteAdvances /\ PostEnds(run.post)
      BY <1>5, <1>7, <2>2, <3>1
    <3>3. /\ changed \in Runs /\ changed.job = run.job /\ changed.retries = run.retries
          /\ changed.subject = run.subject /\ changed.row = run.row /\ changed.post = run.post
          /\ changed.pc = "verify"
      BY <1>3 DEF Runs
    <3> HIDE DEF changed
    <3>4. RunMoves(changed)
      BY <1>3, <3>1, <3>2, <3>3 DEF RunMoves, SameRequest, PostEnds
    <3> QED BY <1>2, <3>1, <3>2, <3>4 DEF CallStep
  <2> QED BY <2>1, <2>2
<1>10. ASSUME DeletePost PROVE CallStep
  <2>1. CASE Missing
    <3>1. FailFinally(run.row, run.post) /\ UNCHANGED <<remote, edits>>
      BY <1>10, <2>1 DEF DeletePost
    <3> QED BY <1>2, <1>3, <1>6, <3>1, FailFinallyEnds DEF CallStep
  <2>2. CASE ~Missing
    <3>1. PICK force \in BOOLEAN :
            /\ remote' = [remote EXCEPT ![run.subject] = Deleted(Current, force)]
            /\ Complete([run.post EXCEPT !.state = IF force THEN "DELETED" ELSE "TRASHED"], FALSE)
      BY <1>10, <2>2 DEF DeletePost
    <3> DEFINE state == IF force THEN "DELETED" ELSE "TRASHED"
               post == [run.post EXCEPT !.state = state]
    <3>2. run.row.op = "DELETE" /\ edits' = edits
      BY <1>10 DEF DeletePost
    <3>3. RemoteAdvances /\ PostEnds(run.post)
      BY <1>5, <1>7, <2>2, <3>1
    <3>4. state \in PostStates \ {"NONE"}
      BY DEF PostStates
    <3> HIDE DEF state
    <3>5. run.post.state # "NONE" /\ PostAt(run.post, remote'[run.subject])
      BY <1>3, <3>2, <3>3 DEF PostEnds
    <3>6. post \in PostRows /\ post.state # "NONE" /\ PostAt(post, remote'[run.subject])
      BY <1>3, <3>4, <3>5, RestatedPost
    <3>7. Complete(post, FALSE)
      BY <3>1 DEF state
    <3> HIDE DEF post
    <3>8. PostEnds(post)
      BY <1>3, <3>2, <3>6 DEF PostEnds
    <3> QED BY <1>2, <1>3, <3>2, <3>3, <3>7, <3>8, CompleteEnds DEF CallStep
  <2> QED BY <2>1, <2>2
<1>11. ASSUME WriteAnswerLost PROVE CallStep
  <2>1. ProviderFailure(TRUE, run.post) /\ edits' = edits
    BY <1>11 DEF WriteAnswerLost
  <2>2. \/ remote' = [remote EXCEPT ![run.subject] = Upserted]
        \/ ~Missing /\ remote' = [remote EXCEPT ![run.subject] = Written(Current)]
        \/ ~Missing /\ \E force \in BOOLEAN :
                         remote' = [remote EXCEPT ![run.subject] = Deleted(Current, force)]
    BY <1>11 DEF WriteAnswerLost
  <2>3. RemoteAdvances /\ PostEnds(run.post)
    BY <1>5, <1>7, <2>2
  <2> QED BY <1>2, <1>3, <2>1, <2>3, ProviderFailureEnds DEF CallStep
<1>12. ASSUME RevertSchedule PROVE CallStep
  <2>1. run.row.cancel /\ run.row.target # NoJob /\ edits' = edits
    BY <1>3, <1>4, <1>12 DEF RevertSchedule, At
  <2>2. CASE Missing \/ ~Accepted
    <3>1. CancelFailure(FALSE) /\ UNCHANGED remote
      BY <1>12, <2>2 DEF RevertSchedule
    <3> QED BY <1>2, <1>3, <1>6, <2>1, <3>1, CancelFailureEnds DEF CallStep
  <2>3. CASE ~(Missing \/ ~Accepted)
    <3> DEFINE s == Reverted(Current)
               post == ApplyRemote(s, FALSE, FALSE)
    <3>1. remote' = [remote EXCEPT ![run.subject] = s] /\ Cancelled(post, TRUE)
      BY <1>12, <2>3 DEF RevertSchedule
    <3>2. /\ RemoteAdvances /\ remote'[run.subject] = s /\ RemoteOK(s)
          /\ s.state # "gone" /\ s.state = "draft"
      BY <1>5, <1>7, <2>3, <3>1 DEF RemoteMoves
    <3> HIDE DEF s
    <3>3. post \in PostRows /\ post.state # "NONE" /\ PostAt(post, s)
      BY <3>2, AppliedPost
    <3> HIDE DEF post
    <3>4. PostEnds(post)
      BY <2>1, <3>2, <3>3 DEF PostEnds
    <3>5. CancelReached
      BY <1>12, <3>2 DEF CancelReached, RevertSchedule, At
    <3> QED BY <1>2, <1>3, <2>1, <3>1, <3>2, <3>4, <3>5, CancelledEnds DEF CallStep
  <2> QED BY <2>2, <2>3
<1>13. ASSUME RevertAnswerLost PROVE CallStep
  <2>1. /\ run.row.cancel /\ run.row.target # NoJob /\ edits' = edits /\ ~Missing
        /\ CancelFailure(TRUE) /\ remote' = [remote EXCEPT ![run.subject] = Reverted(Current)]
    BY <1>3, <1>4, <1>13 DEF RevertAnswerLost, At
  <2>2. RemoteAdvances /\ PostEnds(run.post)
    BY <1>5, <1>7, <2>1
  <2> QED BY <1>2, <1>3, <2>1, <2>2, CancelFailureEnds DEF CallStep
<1> QED BY <1>8, <1>9, <1>10, <1>11, <1>12, <1>13

LEMMA CallKinds ==
  ASSUME SagaInv, Call PROVE CallStep
BY PlainCalls, FetchCalls, ContinuedCalls, WriteCalls DEF Call

-----------------------------------------------------------------------------
(* Every step keeps the invariant.                                         *)

LEMMA RetriedCounts ==
  ASSUME msgs \in [Jobs -> [0..MaxRetries -> Nat]], NEW j \in Jobs, NEW r \in 0..MaxRetries,
         msgs[j][r] > 0
  PROVE  /\ Retried(j, r) \in [0..MaxRetries -> Nat]
         /\ r < MaxRetries => Retried(j, r)[r + 1] = msgs[j][r + 1] + 1
         /\ \A k \in 0..MaxRetries : k # r /\ k # r + 1 => Retried(j, r)[k] = msgs[j][k]
         /\ \A k \in 0..MaxRetries : k # r => Retried(j, r)[k] >= msgs[j][k]
<1>1. /\ msgs[j] \in [0..MaxRetries -> Nat] /\ msgs[j][r] \in Nat /\ msgs[j][r] - 1 \in Nat
      /\ MaxRetries \in Nat /\ r \in Nat
  BY PublishAssumption
<1>2. CASE r < MaxRetries
  <2> DEFINE m == [msgs[j] EXCEPT ![r] = @ - 1]
  <2>1. r + 1 \in 0..MaxRetries /\ r + 1 # r
    BY <1>1, <1>2
  <2>2. m \in [0..MaxRetries -> Nat] /\ \A k \in 0..MaxRetries : k # r => m[k] = msgs[j][k]
    BY <1>1
  <2>3. Retried(j, r) = [m EXCEPT ![r + 1] = @ + 1]
    <3>1. m[r + 1] = msgs[j][r + 1]
      BY <2>1, <2>2
    <3>2. Retried(j, r) = [m EXCEPT ![r + 1] = msgs[j][r + 1] + 1]
      BY <1>1, <1>2, <2>1 DEF Retried
    <3> HIDE DEF m
    <3> QED BY <3>1, <3>2
  <2> HIDE DEF m
  <2>4. m[r + 1] \in Nat /\ m[r + 1] + 1 \in Nat /\ m[r + 1] = msgs[j][r + 1]
    BY <2>1, <2>2
  <2>5. /\ Retried(j, r) \in [0..MaxRetries -> Nat] /\ Retried(j, r)[r + 1] = m[r + 1] + 1
        /\ \A k \in 0..MaxRetries : k # r + 1 => Retried(j, r)[k] = m[k]
    BY <2>1, <2>2, <2>3, <2>4
  <2>6. \A k \in 0..MaxRetries : msgs[j][k] \in Nat
    BY <1>1
  <2> QED BY <2>2, <2>4, <2>5, <2>6
<1>3. CASE ~(r < MaxRetries)
  <2>1. Retried(j, r) = [msgs[j] EXCEPT ![r] = @ - 1]
    BY <1>3 DEF Retried
  <2>2. /\ Retried(j, r) \in [0..MaxRetries -> Nat]
        /\ \A k \in 0..MaxRetries : k # r => Retried(j, r)[k] = msgs[j][k]
    BY <1>1, <2>1
  <2>3. \A k \in 0..MaxRetries : msgs[j][k] \in Nat
    BY <1>1
  <2> QED BY <1>3, <2>2, <2>3
<1> QED BY <1>2, <1>3

LEMMA AcknowledgeTyped ==
  ASSUME Typed, NEW j \in Jobs, NEW r \in 0..MaxRetries, msgs[j][r] > 0, NEW state,
         Acknowledge(j, r, state)
  PROVE  /\ msgs' \in [Jobs -> [0..MaxRetries -> Nat]]
         /\ \A k \in Jobs : k # j => msgs'[k] = msgs[k]
         /\ crashes' \in 0..MaxCrashes /\ faults' = faults
<1>1. /\ msgs \in [Jobs -> [0..MaxRetries -> Nat]] /\ crashes \in 0..MaxCrashes
      /\ MaxRetries \in Nat /\ MaxCrashes \in Nat
  BY PublishAssumption DEF Typed
<1>2. faults' = faults
  BY DEF Acknowledge
<1>3. crashes' \in 0..MaxCrashes
  <2>1. crashes' = crashes \/ (crashes < MaxCrashes /\ crashes' = crashes + 1)
    BY DEF Acknowledge
  <2> QED BY <1>1, <2>1
<1>4. /\ msgs[j] \in [0..MaxRetries -> Nat] /\ msgs[j][r] \in Nat /\ msgs[j][r] - 1 \in Nat
  BY <1>1
<1>5. \/ msgs' = [msgs EXCEPT ![j] = Retried(j, r)]
      \/ msgs' = [msgs EXCEPT ![j] = [msgs[j] EXCEPT ![r] = @ - 1]]
      \/ msgs' = msgs
      \/ r < MaxRetries /\ msgs' = [msgs EXCEPT ![j] = [msgs[j] EXCEPT ![r + 1] = @ + 1]]
  <2>1. \/ msgs' = [msgs EXCEPT ![j] = IF state = "RETRYABLE_FAILED" THEN Retried(j, r)
                                                    ELSE [msgs[j] EXCEPT ![r] = @ - 1]]
        \/ msgs' = msgs
        \/ r < MaxRetries /\ msgs' = [msgs EXCEPT ![j][r + 1] = @ + 1]
    BY DEF Acknowledge
  <2>2. [msgs EXCEPT ![j][r + 1] = @ + 1] = [msgs EXCEPT ![j] = [msgs[j] EXCEPT ![r + 1] = @ + 1]]
    BY <1>1
  <2>3. CASE state = "RETRYABLE_FAILED"
    BY <2>1, <2>2, <2>3
  <2>4. CASE state # "RETRYABLE_FAILED"
    BY <2>1, <2>2, <2>4
  <2> QED BY <2>3, <2>4
<1>6. Retried(j, r) \in [0..MaxRetries -> Nat]
  BY <1>1, RetriedCounts
<1>7. [msgs[j] EXCEPT ![r] = @ - 1] \in [0..MaxRetries -> Nat]
  BY <1>4
<1>8. r < MaxRetries => [msgs[j] EXCEPT ![r + 1] = @ + 1] \in [0..MaxRetries -> Nat]
  <2>1. r < MaxRetries => r + 1 \in 0..MaxRetries
    BY <1>1
  <2>2. \A k \in 0..MaxRetries : msgs[j][k] \in Nat
    BY <1>4
  <2>3. r < MaxRetries => msgs[j][r + 1] \in Nat
    BY <2>1, <2>2
  <2> QED BY <1>4, <2>1, <2>3
<1>9. PICK m : (m \in [0..MaxRetries -> Nat] /\ msgs' = [msgs EXCEPT ![j] = m]) \/ msgs' = msgs
  BY <1>5, <1>6, <1>7, <1>8
<1> QED BY <1>1, <1>2, <1>3, <1>9

LEMMA EndingKeeps ==
  ASSUME SagaInv, run # NoRun, RemoteAdvances, uploads' \in 0..2, edits' = edits,
         NEW post, PostEnds(post), Ends(post)
  PROVE  SagaInv'
<1> DEFINE j == run.job
           p == run.subject
<1>1. PICK row, q : RowEnds(row, q) /\ Commit(row, post, run.bound, q)
  BY DEF Ends
<1>2. /\ jobs' = [jobs EXCEPT ![j] = row] /\ posts' = [posts EXCEPT ![p] = post]
      /\ bound' = run.bound /\ quota' = q /\ run' = NoRun
      /\ Acknowledge(j, run.retries, row.state)
  BY <1>1 DEF Commit
<1>3. /\ j \in Jobs /\ p \in Jobs /\ run.retries \in 0..MaxRetries /\ run.bound \in BOOLEAN
      /\ run.row.op # "NONE"
      /\ run.row.op # "CREATE" => run.row.target # NoJob
      /\ run.row.op = "CREATE" => p = j /\ run.row.target \in {NoJob, j}
  BY RunFacts
<1>4. Typed /\ RemoteInv /\ JobsInv /\ RunInv /\ QuotaInv /\ QuotaSettled /\ RecordedPostExists
  BY DEF SagaInv
<1>5. /\ SameRequest(jobs[j], run.row) /\ msgs[j][run.retries] > 0
      /\ run.row.completed <=> jobs[j].completed
      /\ ~run.row.released /\ ~jobs[j].released
      /\ p = IF run.row.op = "CREATE" THEN j ELSE run.row.target
      /\ run.row.op # "CREATE" => run.row.target = jobs[j].target
      /\ posts[p].state # "NONE" => run.row.target # NoJob
      /\ run.row.cancel => run.row.target # NoJob
  BY <1>4 DEF RunInv
<1>6. /\ row \in Rows /\ row.op = run.row.op /\ row.op = jobs[j].op /\ row.target = run.row.target
      /\ row.state \in {"SUCCEEDED", "RETRYABLE_FAILED"} \cup OverStates
      /\ row.released => row.state \in {"FINAL_FAILED", "CANCELLED"}
      /\ row.op \in Metered /\ ~row.released /\ row.state \in {"FINAL_FAILED", "CANCELLED"}
           => row.completed \/ (row.cancel /\ row.target # NoJob)
      /\ row.op = "CREATE" /\ row.state \in {"SUCCEEDED", "PARTIAL"} => row.target = j
      /\ QuotaMoves(run.row, row, q)
      /\ row.cancel => row.target # NoJob
  BY <1>1, <1>5 DEF RowEnds, SameRequest
<1>7. /\ post \in PostRows /\ (post.state # "NONE" <=> run.row.target # NoJob)
      /\ PostAt(post, remote'[p])
  BY DEF PostEnds
<1>8. /\ jobs' \in [Jobs -> Rows] /\ posts' \in [Jobs -> PostRows]
      /\ jobs'[j] = row /\ posts'[p] = post
      /\ \A k \in Jobs : k # j => jobs'[k] = jobs[k]
      /\ \A k \in Jobs : k # p => posts'[k] = posts[k]
  BY <1>2, <1>3, <1>4, <1>6, <1>7 DEF Typed
<1>9. /\ msgs' \in [Jobs -> [0..MaxRetries -> Nat]]
      /\ \A k \in Jobs : k # j => msgs'[k] = msgs[k]
      /\ crashes' \in 0..MaxCrashes /\ faults' = faults
  BY <1>2, <1>3, <1>4, <1>5, AcknowledgeTyped
<1> HIDE DEF j, p
<1>10. Typed'
  BY <1>2, <1>3, <1>4, <1>8, <1>9 DEF Typed, RemoteAdvances
<1>11. RemoteInv'
  BY DEF RemoteInv, RemoteAdvances, RemoteMoves
<1>12. \A k \in Jobs : posts[k].state # "NONE" => posts'[k].state # "NONE"
  BY <1>5, <1>7, <1>8
<1>13. JobsInv'
  <2> SUFFICES ASSUME NEW k \in Jobs PROVE JobInv(k)'
    BY DEF JobsInv
  <2>1. JobInv(k) /\ JobInv(j)
    BY <1>3, <1>4 DEF JobsInv
  <2>2. posts'[k].state # "NONE" => jobs'[k].op = "CREATE" /\ jobs'[k].target = k
    <3>1. CASE k # p
      <4>1. posts'[k].state # "NONE" => jobs[k].op = "CREATE" /\ jobs[k].target = k
        BY <1>8, <2>1, <3>1 DEF JobInv
      <4>2. CASE k # j
        BY <1>8, <4>1, <4>2
      <4>3. CASE k = j
        BY <1>3, <1>5, <1>6, <1>8, <3>1, <4>1, <4>3
      <4> QED BY <4>2, <4>3
    <3>2. CASE k = p /\ run.row.op = "CREATE"
      BY <1>3, <1>6, <1>7, <1>8, <3>2
    <3>3. CASE k = p /\ run.row.op # "CREATE"
      <4>1. posts[p].state # "NONE"
        BY <1>3, <1>4, <1>5, <3>3 DEF RecordedPostExists
      <4>2. jobs[p].op = "CREATE" /\ jobs[p].target = p
        BY <2>1, <3>3, <4>1 DEF JobInv
      <4>3. p # j
        BY <1>6, <3>3, <4>2
      <4> QED BY <1>3, <1>8, <3>3, <4>2, <4>3
    <3> QED BY <3>1, <3>2, <3>3
  <2>3. CASE k # j
    BY <1>8, <1>9, <2>1, <2>2, <2>3 DEF JobInv
  <2>4. CASE k = j
    BY <1>3, <1>6, <1>8, <2>2, <2>4 DEF JobInv
  <2> QED BY <2>3, <2>4
<1>14. RunInv'
  BY <1>2 DEF RunInv
<1>15. QuotaInv'
  <2>1. QuotaMoves(jobs[j], row, quota')
    BY <1>2, <1>5, <1>6 DEF QuotaMoves, SameRequest
  <2>2. jobs \in [Jobs -> Rows] /\ jobs' = [jobs EXCEPT ![j] = row]
    BY <1>2, <1>4 DEF Typed, j
  <2> QED BY <1>3, <1>4, <1>6, <2>1, <2>2, QuotaStaysExact
<1>16. QuotaSettled'
  <2> SUFFICES ASSUME NEW k \in Jobs, Reserving(k)', jobs'[k].state \in {"FINAL_FAILED", "CANCELLED"}
               PROVE  jobs'[k].completed \/ (jobs'[k].cancel /\ jobs'[k].target # NoJob)
    BY DEF QuotaSettled
  <2>1. CASE k # j
    BY <1>4, <1>8, <2>1 DEF QuotaSettled, Reserving
  <2>2. CASE k = j
    BY <1>6, <1>8, <2>2 DEF Reserving
  <2> QED BY <2>1, <2>2
<1>17. RecordedPostExists'
  <2>1. \A k \in Jobs : jobs'[k].target # NoJob => posts'[jobs'[k].target].state # "NONE"
    <3> SUFFICES ASSUME NEW k \in Jobs, jobs'[k].target # NoJob
                 PROVE  posts'[jobs'[k].target].state # "NONE"
      OBVIOUS
    <3>1. CASE k # j
      <4>1. jobs[k].target \in Jobs /\ posts[jobs[k].target].state # "NONE"
        BY <1>4, <1>8, <3>1 DEF RecordedPostExists, Typed, Rows
      <4> QED BY <1>8, <1>12, <3>1, <4>1
    <3>2. CASE k = j
      <4>1. run.row.target # NoJob /\ jobs'[k].target = run.row.target
        BY <1>6, <1>8, <3>2
      <4>2. run.row.target = p
        BY <1>3, <1>5, <4>1
      <4> QED BY <1>7, <1>8, <4>1, <4>2
    <3> QED BY <3>1, <3>2
  <2>2. \A k \in Jobs : posts'[k].state # "NONE" =>
          posts'[k].id \in 1..remote'[k].id /\ posts'[k].hash \in 1..remote'[k].hash
    <3> SUFFICES ASSUME NEW k \in Jobs PROVE PostAt(posts'[k], remote'[k])
      BY DEF PostAt
    <3>1. CASE k # p
      <4>1. PostAt(posts[k], remote[k]) /\ posts[k] \in PostRows
        BY <1>4 DEF RecordedPostExists, PostAt, Typed
      <4>2. RemoteOK(remote[k]) /\ RemoteMoves(remote[k], remote'[k])
        BY <1>4 DEF RemoteInv, RemoteAdvances
      <4> QED BY <1>8, <3>1, <4>1, <4>2, PostAtLater
    <3>2. CASE k = p
      BY <1>7, <1>8, <3>2
    <3> QED BY <3>1, <3>2
  <2>3. \A k \in Jobs : (jobs'[k].op = "CREATE" /\ jobs'[k].state \in {"SUCCEEDED", "PARTIAL"})
          => jobs'[k].target = k
    BY <1>4, <1>6, <1>8 DEF RecordedPostExists
  <2> QED BY <2>1, <2>2, <2>3 DEF RecordedPostExists
<1> QED BY <1>10, <1>11, <1>13, <1>14, <1>15, <1>16, <1>17 DEF SagaInv

LEMMA ContinuingKeeps ==
  ASSUME SagaInv, run # NoRun, RemoteAdvances, uploads' \in 0..2,
         NEW changed, RunMoves(changed), Continue(changed)
  PROVE  SagaInv'
<1>1. run' = changed /\ UNCHANGED <<jobs, posts, bound, quota, msgs, crashes, faults, edits>>
  BY DEF Continue
<1>2. Typed /\ RemoteInv /\ JobsInv /\ RunInv /\ QuotaInv /\ QuotaSettled /\ RecordedPostExists
  BY DEF SagaInv
<1>3. /\ run.job \in Jobs /\ run.subject \in Jobs
      /\ run.post.state # "NONE" <=> run.row.target # NoJob
      /\ run.row.op # "CREATE" => run.row.target # NoJob
      /\ run.row.op = "CREATE" => run.subject = run.job /\ run.row.target \in {NoJob, run.job}
  BY RunFacts
<1>4. Typed'
  BY <1>1, <1>2 DEF Typed, RemoteAdvances, RunMoves
<1>5. RemoteInv'
  BY DEF RemoteInv, RemoteAdvances, RemoteMoves
<1>6. JobsInv'
  BY <1>1, <1>2 DEF JobsInv, JobInv
<1>7. QuotaInv' /\ QuotaSettled'
  BY <1>1, <1>2 DEF QuotaInv, QuotaSettled, QuotaMatchesJobs, Holders, Reserving
<1>8. RecordedPostExists'
  <2>1. \A k \in Jobs : posts'[k].state # "NONE" =>
          posts'[k].id \in 1..remote'[k].id /\ posts'[k].hash \in 1..remote'[k].hash
    <3> SUFFICES ASSUME NEW k \in Jobs PROVE PostAt(posts'[k], remote'[k])
      BY DEF PostAt
    <3>1. PostAt(posts[k], remote[k]) /\ posts[k] \in PostRows
      BY <1>2 DEF RecordedPostExists, PostAt, Typed
    <3>2. RemoteOK(remote[k]) /\ RemoteMoves(remote[k], remote'[k])
      BY <1>2 DEF RemoteInv, RemoteAdvances
    <3> QED BY <1>1, <3>1, <3>2, PostAtLater
  <2> QED BY <1>1, <1>2, <2>1 DEF RecordedPostExists
<1>9. RunInv'
  <2>1. /\ changed.job = run.job /\ changed.retries = run.retries /\ changed.subject = run.subject
        /\ SameRequest(run.row, changed.row) /\ changed.row.attempt = run.row.attempt
        /\ (changed.row.completed <=> run.row.completed) /\ (changed.row.released <=> run.row.released)
        /\ changed.row.target # run.row.target => run.row.op = "CREATE" /\ changed.row.target = run.job
        /\ changed.post.state # "NONE" <=> changed.row.target # NoJob
        /\ PostAt(changed.post, remote'[run.subject])
        /\ changed.pc # "fetch"
        /\ changed.pc = "verify" => changed.row.target # NoJob
        /\ changed.pc \in {"cancel", "revert"} => changed.row.cancel
        /\ changed.pc = "revert" => changed.post.state = "SCHEDULED"
        /\ changed.pc \in {"cancel", "revert"} =>
             run.pc \in {"cancel", "revert"} /\ changed.post = run.post
        /\ changed.row.op # "CREATE" /\ changed.pc \in {"upload", "write"}
             => changed.row.action = "OVERWRITE" \/ changed.seen = changed.row.expected
    BY DEF RunMoves, SameRequest
  <2>2. /\ jobs[run.job].state \notin OverStates /\ jobs[run.job].op # "NONE"
        /\ SameRequest(jobs[run.job], run.row)
        /\ run.row.completed <=> jobs[run.job].completed
        /\ ~run.row.released /\ ~jobs[run.job].released
        /\ run.row.attempt = jobs[run.job].attempt + 1
        /\ msgs[run.job][run.retries] > 0
        /\ run.subject = IF run.row.op = "CREATE" THEN run.job ELSE run.row.target
        /\ run.row.op # "CREATE" => run.row.target = jobs[run.job].target
        /\ posts[run.subject].state # "NONE" => run.post.state # "NONE"
        /\ run.row.cancel => run.row.target # NoJob
        /\ run.pc \in {"cancel", "revert"} => run.post = posts[run.subject]
    BY <1>2 DEF RunInv
  <2>3. changed.row.op = run.row.op /\ SameRequest(jobs[run.job], changed.row)
    BY <2>1, <2>2 DEF SameRequest
  <2>4. run.job # NoJob
    BY <1>3, PublishAssumption
  <2>5. /\ run.post.state # "NONE" => changed.post.state # "NONE"
        /\ changed.row.op = "CREATE" => changed.row.target \in {NoJob, changed.job}
    BY <1>3, <2>1, <2>3, <2>4
  <2>6. /\ changed.subject = IF changed.row.op = "CREATE" THEN changed.job ELSE changed.row.target
        /\ changed.row.op # "CREATE" => changed.row.target = jobs[changed.job].target
    BY <2>1, <2>2, <2>3
  <2>7. /\ changed.row.cancel => changed.row.target # NoJob
        /\ changed.pc \in {"cancel", "revert"} => changed.post = posts[changed.subject]
    BY <1>3, <2>1, <2>2, <2>4 DEF SameRequest
  <2> QED BY <1>1, <2>1, <2>2, <2>3, <2>5, <2>6, <2>7 DEF RunInv
<1> QED BY <1>4, <1>5, <1>6, <1>7, <1>8, <1>9 DEF SagaInv

\* What the invariant asks of a job's row.
RowOK(j, row) ==
  /\ row \in Rows /\ row.op # "NONE"
  /\ row.op # "CREATE" => row.target # NoJob
  /\ row.op = "CREATE" => row.target \in {NoJob, j}
  /\ row.target # NoJob => posts[row.target].state # "NONE"
  /\ posts[j].state # "NONE" => row.op = "CREATE" /\ row.target = j
  /\ row.released => row.state \in {"FINAL_FAILED", "CANCELLED"}
  /\ row.op \in Metered /\ ~row.released /\ row.state \in {"FINAL_FAILED", "CANCELLED"}
       => row.completed \/ (row.cancel /\ row.target # NoJob)
  /\ row.op = "CREATE" /\ row.state \in {"SUCCEEDED", "PARTIAL"} => row.target = j
  /\ row.cancel => \/ row.target # NoJob
                   \/ ~row.started /\ row.state \in {"CANCEL_REQUESTED", "CANCELLED"}

LEMMA OldRowOK ==
  ASSUME SagaInv, NEW j \in Jobs, jobs[j].op # "NONE"
  PROVE  RowOK(j, jobs[j])
<1>1. jobs[j] \in Rows /\ JobInv(j)
  BY DEF SagaInv, Typed, JobsInv
<1>2. jobs[j].target # NoJob => posts[jobs[j].target].state # "NONE"
  BY DEF SagaInv, RecordedPostExists
<1>3. jobs[j].op = "CREATE" /\ jobs[j].state \in {"SUCCEEDED", "PARTIAL"} => jobs[j].target = j
  BY DEF SagaInv, RecordedPostExists
<1>4. /\ jobs[j].op \in Metered /\ ~jobs[j].released /\ jobs[j].state \in {"FINAL_FAILED", "CANCELLED"}
      => jobs[j].completed \/ (jobs[j].cancel /\ jobs[j].target # NoJob)
  BY DEF SagaInv, QuotaSettled, Reserving
<1> QED BY <1>1, <1>2, <1>3, <1>4 DEF RowOK, JobInv

\* A step of the API or of a worker that changes one row nobody has locked.
LEMMA RowChangeKeeps ==
  ASSUME SagaInv, NEW j \in Jobs, NEW row, RowOK(j, row), ~Locked(j),
         jobs' = [jobs EXCEPT ![j] = row], QuotaInv',
         UNCHANGED <<posts, bound, remote, uploads, run, faults, edits>>,
         msgs' \in [Jobs -> [0..MaxRetries -> Nat]],
         \A k \in Jobs : k # j => msgs'[k] = msgs[k],
         crashes' \in 0..MaxCrashes
  PROVE  SagaInv'
<1>1. Typed /\ RemoteInv /\ JobsInv /\ RunInv /\ QuotaInv /\ QuotaSettled /\ RecordedPostExists
  BY DEF SagaInv
<1>2. row \in Rows
  BY DEF RowOK
<1>3. /\ jobs' \in [Jobs -> Rows] /\ jobs'[j] = row
      /\ \A k \in Jobs : k # j => jobs'[k] = jobs[k]
  BY <1>1, <1>2 DEF Typed
<1>4. Typed'
  BY <1>1, <1>3 DEF Typed
<1>5. RemoteInv'
  BY <1>1 DEF RemoteInv
<1>6. JobsInv'
  <2> SUFFICES ASSUME NEW k \in Jobs PROVE JobInv(k)'
    BY DEF JobsInv
  <2>1. CASE k # j
    BY <1>1, <1>3, <2>1 DEF JobsInv, JobInv
  <2>2. CASE k = j
    BY <1>3, <2>2 DEF JobInv, RowOK
  <2> QED BY <2>1, <2>2
<1>7. RunInv'
  <2> SUFFICES ASSUME run # NoRun PROVE RunInv'
    BY DEF RunInv
  <2>1. run.job \in Jobs /\ run.job # j
    BY <1>1 DEF Typed, Runs, Locked
  <2>2. jobs'[run.job] = jobs[run.job] /\ msgs'[run.job] = msgs[run.job]
    BY <1>3, <2>1
  <2> QED BY <1>1, <2>2 DEF RunInv
<1>8. QuotaSettled'
  <2> SUFFICES ASSUME NEW k \in Jobs, Reserving(k)', jobs'[k].state \in {"FINAL_FAILED", "CANCELLED"}
               PROVE  jobs'[k].completed \/ (jobs'[k].cancel /\ jobs'[k].target # NoJob)
    BY DEF QuotaSettled
  <2>1. CASE k # j
    BY <1>1, <1>3, <2>1 DEF QuotaSettled, Reserving
  <2>2. CASE k = j
    BY <1>3, <2>2 DEF Reserving, RowOK
  <2> QED BY <2>1, <2>2
<1>9. RecordedPostExists'
  BY <1>1, <1>3 DEF RecordedPostExists, RowOK
<1> QED BY <1>4, <1>5, <1>6, <1>7, <1>8, <1>9 DEF SagaInv

LEMMA EnqueueTyped ==
  ASSUME Typed, NEW j \in Jobs, Enqueue(j)
  PROVE  /\ msgs' \in [Jobs -> [0..MaxRetries -> Nat]]
         /\ \A k \in Jobs : k # j => msgs'[k] = msgs[k]
         /\ \A r \in 0..MaxRetries : msgs'[j][r] >= msgs[j][r]
         /\ ~LossyEnqueue => msgs'[j][0] > 0
         /\ \A r \in 0..MaxRetries : r # 0 => msgs'[j][r] = msgs[j][r]
<1>1. msgs \in [Jobs -> [0..MaxRetries -> Nat]] /\ 0 \in 0..MaxRetries
  BY PublishAssumption DEF Typed
<1>2. msgs[j] \in [0..MaxRetries -> Nat] /\ \A r \in 0..MaxRetries : msgs[j][r] \in Nat
  BY <1>1
<1>3. msgs[j][0] + 1 \in Nat
  BY <1>1, <1>2
<1>4. CASE msgs' = [msgs EXCEPT ![j][0] = @ + 1]
  <2> DEFINE m == [msgs[j] EXCEPT ![0] = msgs[j][0] + 1]
  <2>1. /\ m \in [0..MaxRetries -> Nat] /\ m[0] = msgs[j][0] + 1
        /\ \A r \in 0..MaxRetries : r # 0 => m[r] = msgs[j][r]
    BY <1>1, <1>2, <1>3
  <2>2. msgs' = [msgs EXCEPT ![j] = m]
    BY <1>1, <1>4
  <2> HIDE DEF m
  <2>3. /\ msgs' \in [Jobs -> [0..MaxRetries -> Nat]] /\ msgs'[j] = m
        /\ \A k \in Jobs : k # j => msgs'[k] = msgs[k]
    BY <1>1, <2>1, <2>2
  <2>4. \A r \in 0..MaxRetries : m[r] >= msgs[j][r]
    BY <1>2, <2>1
  <2>5. m[0] > 0
    BY <1>1, <1>2, <2>1
  <2> QED BY <2>1, <2>3, <2>4, <2>5
<1>5. CASE msgs' = msgs /\ LossyEnqueue
  BY <1>1, <1>2, <1>5
<1> QED BY <1>4, <1>5 DEF Enqueue

LEMMA CreateJobKeeps ==
  ASSUME SagaInv, NEW j \in Jobs, NEW op \in {"CREATE", "UPDATE", "DELETE", "RECONCILE", "ROLLBACK"},
         NEW post \in Jobs \cup {NoJob}, NEW hash \in Nat,
         NEW vis \in {"DRAFT", "PUBLISH", "SCHEDULED"},
         NEW action \in {"ABORT", "OVERWRITE", "IMPORT_REMOTE"},
         IF op = "CREATE" THEN post = NoJob ELSE post \in Jobs /\ posts[post].state # "NONE",
         CreateJob(j, op, post, hash, vis, action)
  PROVE  SagaInv'
<1> DEFINE row == [NoRow EXCEPT !.op = op, !.state = "SCHEDULED", !.target = post,
                                !.expected = hash, !.vis = vis, !.action = action]
<1>1. /\ jobs[j] = NoRow /\ ReserveQuota(op) /\ jobs' = [jobs EXCEPT ![j] = row] /\ Enqueue(j)
      /\ UNCHANGED <<posts, bound, remote, uploads, run, crashes, faults, edits>>
  BY DEF CreateJob
<1>2. "SCHEDULED" \in JobStates
  BY StatesOfJobs
<1>3. row \in Rows
  BY <1>2 DEF NoRow, Rows
<1>4. /\ row.op = op /\ row.state = "SCHEDULED" /\ row.target = post /\ ~row.completed /\ ~row.released
      /\ ~row.cancel
  BY DEF NoRow
<1> HIDE DEF row
<1>5. jobs[j].op = "NONE"
  BY <1>1 DEF NoRow
<1>6. JobInv(j) /\ Typed /\ QuotaInv /\ jobs \in [Jobs -> Rows] /\ RunInv
  BY DEF SagaInv, JobsInv, Typed
<1>7. NoJob \notin Jobs
  BY PublishAssumption
<1>8. RowOK(j, row)
  BY <1>3, <1>4, <1>5, <1>6, <1>7 DEF RowOK, JobInv
<1>9. ~Locked(j)
  BY <1>5, <1>6 DEF Locked, RunInv
<1>10. QuotaInv'
  BY <1>1, <1>3, <1>4, <1>5, <1>6, QuotaTaken
<1>11. /\ msgs' \in [Jobs -> [0..MaxRetries -> Nat]]
       /\ \A k \in Jobs : k # j => msgs'[k] = msgs[k]
  BY <1>1, <1>6, EnqueueTyped
<1>12. crashes' \in 0..MaxCrashes
  BY <1>1, <1>6 DEF Typed
<1> QED BY <1>1, <1>8, <1>9, <1>10, <1>11, <1>12, RowChangeKeeps

LEMMA QuotaRests ==
  ASSUME QuotaInv, jobs \in [Jobs -> Rows], NEW j \in Jobs, NEW new \in Rows,
         jobs' = [jobs EXCEPT ![j] = new], quota' = quota, new.op = jobs[j].op,
         new.completed <=> jobs[j].completed, new.released <=> jobs[j].released
  PROVE  QuotaInv'
<1>1. QuotaMoves(jobs[j], new, quota')
  BY DEF QuotaMoves, QuotaInv
<1> QED BY <1>1, QuotaStaysExact

LEMMA RequestsKeep ==
  ASSUME SagaInv, NEW j \in Jobs, Request(j)
  PROVE  SagaInv'
<1>1. /\ Typed /\ QuotaInv /\ jobs \in [Jobs -> Rows] /\ posts \in [Jobs -> PostRows]
      /\ crashes \in 0..MaxCrashes /\ JobInv(j)
  BY DEF SagaInv, Typed, JobsInv
<1>2. \A p \in Jobs : posts[p].hash \in Nat
  BY <1>1 DEF PostRows
<1>3. Visibilities \subseteq {"DRAFT", "PUBLISH", "SCHEDULED"}
  BY PublishAssumption
<1>4. ASSUME CreatePublishJob(j) PROVE SagaInv'
  <2>1. PICK vis \in Visibilities : CreateJob(j, "CREATE", NoJob, 0, vis, "ABORT")
    BY <1>4 DEF CreatePublishJob
  <2> QED BY <1>3, <2>1, CreateJobKeeps
<1>5. ASSUME NEW op \in {"UPDATE", "DELETE", "ROLLBACK"}, ChangePublishedPost(j, op) PROVE SagaInv'
  <2>1. PICK p \in Jobs, vis \in {"DRAFT", "PUBLISH", "SCHEDULED"},
             action \in {"ABORT", "OVERWRITE", "IMPORT_REMOTE"} :
          posts[p].state # "NONE" /\ CreateJob(j, op, p, posts[p].hash, vis, action)
    BY <1>3, <1>5 DEF ChangePublishedPost
  <2>2. op \in {"CREATE", "UPDATE", "DELETE", "RECONCILE", "ROLLBACK"} /\ op # "CREATE"
    OBVIOUS
  <2> QED BY <1>2, <2>1, <2>2, CreateJobKeeps
<1>6. ASSUME ReconcilePublishedPost(j) PROVE SagaInv'
  <2>1. \A s \in Jobs : jobs[s].vis \in {"DRAFT", "PUBLISH", "SCHEDULED"}
    BY <1>1 DEF Rows
  <2>2. PICK p \in Jobs, action \in {"ABORT", "OVERWRITE", "IMPORT_REMOTE"},
             vis \in {"DRAFT", "PUBLISH", "SCHEDULED"} :
          posts[p].state # "NONE" /\ CreateJob(j, "RECONCILE", p, posts[p].hash, vis, action)
    <3>1. PICK p \in Jobs, action \in {"ABORT", "OVERWRITE", "IMPORT_REMOTE"} :
            /\ posts[p].state # "NONE"
            /\ IF action # "OVERWRITE"
               THEN CreateJob(j, "RECONCILE", p, posts[p].hash, "DRAFT", action)
               ELSE \E s \in Jobs :
                      /\ jobs[s].op \in Metered /\ jobs[s].target = p
                      /\ jobs[s].state \in {"SUCCEEDED", "PARTIAL"}
                      /\ \E vis \in {jobs[s].vis} \cup
                             (IF jobs[s].vis = "SCHEDULED" THEN {"PUBLISH"} ELSE {}) :
                           CreateJob(j, "RECONCILE", p, posts[p].hash, vis, action)
      BY <1>6 DEF ReconcilePublishedPost
    <3>2. CASE action # "OVERWRITE"
      BY <3>1, <3>2
    <3>3. CASE action = "OVERWRITE"
      <4>1. PICK s \in Jobs : \E vis \in {jobs[s].vis} \cup
                                  (IF jobs[s].vis = "SCHEDULED" THEN {"PUBLISH"} ELSE {}) :
                                CreateJob(j, "RECONCILE", p, posts[p].hash, vis, action)
        BY <3>1, <3>3
      <4>2. PICK vis \in {jobs[s].vis} \cup
                          (IF jobs[s].vis = "SCHEDULED" THEN {"PUBLISH"} ELSE {}) :
              CreateJob(j, "RECONCILE", p, posts[p].hash, vis, action)
        BY <4>1
      <4>3. vis \in {"DRAFT", "PUBLISH", "SCHEDULED"}
        BY <2>1
      <4> QED BY <3>1, <4>2, <4>3
    <3> QED BY <3>2, <3>3
  <2> QED BY <1>2, <2>2, CreateJobKeeps
<1>7. ASSUME ScheduleReconciliation(j) PROVE SagaInv'
  <2>1. PICK p \in Jobs :
          posts[p].state # "NONE" /\ CreateJob(j, "RECONCILE", p, posts[p].hash, "DRAFT", "ABORT")
    BY <1>7 DEF ScheduleReconciliation
  <2> QED BY <1>2, <2>1, CreateJobKeeps
<1>8. ASSUME CancelPublishJob(j) PROVE SagaInv'
  <2> DEFINE row == [jobs[j] EXCEPT !.state = "CANCEL_REQUESTED", !.cancel = TRUE]
  <2>1. /\ ~Locked(j) /\ jobs' = [jobs EXCEPT ![j] = row] /\ Enqueue(j)
        /\ UNCHANGED <<posts, bound, quota, remote, uploads, run, crashes, faults, edits>>
    BY <1>1, <1>8 DEF CancelPublishJob
  <2>2. /\ jobs[j].op # "NONE" /\ jobs[j].state \notin {"FINAL_FAILED", "CANCELLED"}
        /\ jobs[j].target # NoJob \/ ~jobs[j].started
    BY <1>1, <1>8 DEF CancelPublishJob, Cancellable, JobInv
  <2>3. RowOK(j, jobs[j]) /\ jobs[j] \in Rows /\ "CANCEL_REQUESTED" \in JobStates
    BY <1>1, <2>2, OldRowOK, StatesOfJobs
  <2>4. /\ row \in Rows /\ row.op = jobs[j].op /\ row.target = jobs[j].target
        /\ row.state = "CANCEL_REQUESTED" /\ (row.started <=> jobs[j].started)
        /\ (row.completed <=> jobs[j].completed) /\ (row.released <=> jobs[j].released)
    BY <2>3 DEF Rows
  <2> HIDE DEF row
  <2>5. RowOK(j, row)
    BY <2>2, <2>3, <2>4 DEF RowOK
  <2>6. QuotaInv'
    BY <1>1, <2>1, <2>4, QuotaRests
  <2>7. /\ msgs' \in [Jobs -> [0..MaxRetries -> Nat]]
        /\ \A k \in Jobs : k # j => msgs'[k] = msgs[k]
    BY <1>1, <2>1, EnqueueTyped
  <2> QED BY <1>1, <2>1, <2>5, <2>6, <2>7, RowChangeKeeps
<1>9. ASSUME RetryPublishJob(j) PROVE SagaInv'
  <2> DEFINE row == [jobs[j] EXCEPT !.state = "SCHEDULED"]
  <2>1. /\ ~Locked(j) /\ jobs' = [jobs EXCEPT ![j] = row] /\ Enqueue(j)
        /\ UNCHANGED <<posts, bound, quota, remote, uploads, run, crashes, faults, edits>>
    BY <1>1, <1>9 DEF RetryPublishJob
  <2>2. jobs[j].op # "NONE" /\ jobs[j].state = "RETRYABLE_FAILED"
    BY <1>1, <1>9 DEF RetryPublishJob, JobInv
  <2>3. RowOK(j, jobs[j]) /\ jobs[j] \in Rows /\ "SCHEDULED" \in JobStates
    BY <1>1, <2>2, OldRowOK, StatesOfJobs
  <2>4. /\ row \in Rows /\ row.op = jobs[j].op /\ row.target = jobs[j].target
        /\ row.state = "SCHEDULED" /\ (row.cancel <=> jobs[j].cancel)
        /\ (row.completed <=> jobs[j].completed) /\ (row.released <=> jobs[j].released)
    BY <2>3 DEF Rows
  <2> HIDE DEF row
  <2>5. RowOK(j, row)
    BY <2>2, <2>3, <2>4 DEF RowOK
  <2>6. QuotaInv'
    BY <1>1, <2>1, <2>4, QuotaRests
  <2>7. /\ msgs' \in [Jobs -> [0..MaxRetries -> Nat]]
        /\ \A k \in Jobs : k # j => msgs'[k] = msgs[k]
    BY <1>1, <2>1, EnqueueTyped
  <2> QED BY <1>1, <2>1, <2>5, <2>6, <2>7, RowChangeKeeps
<1> QED BY <1>4, <1>5, <1>6, <1>7, <1>8, <1>9 DEF Request

\* A worker takes a delivery.
LEMMA TakesKeep ==
  ASSUME SagaInv, NEW j \in Jobs, Take(j)
  PROVE  SagaInv'
<1>1. /\ Typed /\ QuotaInv /\ jobs \in [Jobs -> Rows] /\ posts \in [Jobs -> PostRows]
      /\ JobInv(j) /\ jobs[j] \in Rows /\ crashes \in 0..MaxCrashes
  BY DEF SagaInv, Typed, JobsInv
<1>2. PICK r \in 0..MaxRetries :
        Ignore(j, r) \/ CancelLocalJob(j, r) \/ Start(j, r) \/ RefuseProvider(j, r)
  BY DEF Take
<1>3. run = NoRun /\ msgs[j][r] > 0 /\ ~Locked(j)
  BY <1>2 DEF Ignore, CancelLocalJob, Start, RefuseProvider, Delivered, Locked
<1>4. jobs[j].op # "NONE"
  BY <1>1, <1>3 DEF JobInv
<1>5. RowOK(j, jobs[j])
  BY <1>4, OldRowOK
<1>6. ASSUME NEW state, Acknowledge(j, r, state)
      PROVE  /\ msgs' \in [Jobs -> [0..MaxRetries -> Nat]]
             /\ \A k \in Jobs : k # j => msgs'[k] = msgs[k]
             /\ crashes' \in 0..MaxCrashes /\ faults' = faults
  BY <1>1, <1>3, <1>6, AcknowledgeTyped
<1>7. ~Finished(jobs[j]) => ~jobs[j].released /\ jobs[j].state \notin OverStates
  BY <1>1 DEF Finished, JobInv, OverStates
<1>8. ~jobs[j].released /\ jobs[j].op \in Metered /\ ~jobs[j].completed
        => quota.reserved > quota.completed
  <2>1. quota.completed \in Nat /\ quota.reserved \in Nat
    BY <1>1, CountsFacts
  <2>2. ASSUME ~jobs[j].released, jobs[j].op \in Metered, ~jobs[j].completed
        PROVE  quota.completed < quota.reserved
    BY <1>1, <2>2, CountsFacts DEF Reserving
  <2> QED BY <2>1, <2>2
<1>8a. ~Finished(jobs[j]) /\ jobs[j].cancel /\ jobs[j].target = NoJob
         => ~jobs[j].started /\ NeverStarted(jobs[j])
  BY <1>1 DEF JobInv, Finished, NeverStarted
<1>9. ASSUME Ignore(j, r) PROVE SagaInv'
  <2>1. /\ Acknowledge(j, r, jobs[j].state)
        /\ UNCHANGED <<jobs, posts, bound, quota, remote, uploads, run, edits>>
    BY <1>9 DEF Ignore
  <2>2. jobs' = [jobs EXCEPT ![j] = jobs[j]]
    BY <1>1, <2>1
  <2>3. QuotaInv'
    BY <1>1, <2>1 DEF QuotaInv, QuotaMatchesJobs, Holders, Reserving
  <2>4. /\ msgs' \in [Jobs -> [0..MaxRetries -> Nat]]
        /\ \A k \in Jobs : k # j => msgs'[k] = msgs[k]
        /\ crashes' \in 0..MaxCrashes /\ faults' = faults
    BY <1>6, <2>1
  <2> QED BY <1>3, <1>5, <2>1, <2>2, <2>3, <2>4, RowChangeKeeps
<1>10. ASSUME NEW state \in {"FINAL_FAILED", "CANCELLED"}, NEW row \in Rows, ~Finished(jobs[j]),
              LET new == [ReleasedRow(jobs[j], FALSE) EXCEPT !.state = state]
              IN  /\ row.op = new.op /\ row.state = new.state /\ row.target = new.target
                  /\ (row.cancel <=> new.cancel) /\ (row.completed <=> new.completed)
                  /\ (row.released <=> new.released) /\ (row.started <=> new.started),
              state = "CANCELLED" \/ ~NeverStarted(jobs[j]),
              jobs' = [jobs EXCEPT ![j] = row], quota' = ReleasedQuota(jobs[j], FALSE),
              Acknowledge(j, r, state), UNCHANGED <<posts, bound, remote, uploads, run, edits>>
       PROVE  SagaInv'
  <2> DEFINE new == [ReleasedRow(jobs[j], FALSE) EXCEPT !.state = state]
  <2>1. state \in JobStates /\ quota \in QuotaRows
    BY <1>1, StatesOfJobs DEF OverStates, QuotaInv
  <2>2. /\ new \in Rows /\ new.state = state /\ SameRequest(jobs[j], new)
        /\ new.target = jobs[j].target /\ (new.started <=> jobs[j].started)
        /\ QuotaMoves(jobs[j], new, quota')
        /\ new.op \in Metered /\ ~new.released /\ quota.reserved > quota.completed => new.completed
    BY <1>1, <1>10, <2>1, ReleaseMoves
  <2>3. /\ row.op = new.op /\ row.state = new.state /\ row.target = new.target
        /\ (row.cancel <=> new.cancel) /\ (row.completed <=> new.completed)
        /\ (row.released <=> new.released) /\ (row.started <=> new.started)
    BY <1>10
  <2> HIDE DEF new
  <2>4. QuotaMoves(jobs[j], row, quota')
    BY <2>2, <2>3 DEF QuotaMoves
  <2>5. QuotaInv'
    BY <1>1, <1>10, <2>4, QuotaStaysExact
  <2>6. /\ row.op = jobs[j].op /\ row.target = jobs[j].target /\ row.state = state
        /\ (row.cancel <=> jobs[j].cancel) /\ (row.started <=> jobs[j].started)
    BY <2>2, <2>3 DEF SameRequest
  <2>7. row.op \in Metered /\ ~row.released => row.completed
    BY <1>7, <1>8, <1>10, <2>2, <2>3, <2>6 DEF QuotaMoves
  <2>7a. row.cancel => row.target # NoJob \/ (~row.started /\ row.state = "CANCELLED")
    BY <1>7, <1>10, <1>8a, <2>6
  <2>8. RowOK(j, row)
    BY <1>5, <1>10, <2>6, <2>7, <2>7a DEF RowOK
  <2>9. /\ msgs' \in [Jobs -> [0..MaxRetries -> Nat]]
        /\ \A k \in Jobs : k # j => msgs'[k] = msgs[k]
        /\ crashes' \in 0..MaxCrashes /\ faults' = faults
    BY <1>6, <1>10
  <2> QED BY <1>3, <1>10, <2>5, <2>8, <2>9, RowChangeKeeps
<1>11. ASSUME RefuseProvider(j, r) PROVE SagaInv'
  <2> DEFINE row == [ReleasedRow(jobs[j], FALSE) EXCEPT !.state = "FINAL_FAILED"]
  <2>1. "FINAL_FAILED" \in JobStates /\ quota \in QuotaRows
    BY <1>1, StatesOfJobs DEF OverStates, QuotaInv
  <2>2. row \in Rows
    BY <1>1, <2>1, ReleaseMoves
  <2>3. /\ ~Finished(jobs[j]) /\ ~NeverStarted(jobs[j]) /\ jobs' = [jobs EXCEPT ![j] = row]
        /\ quota' = ReleasedQuota(jobs[j], FALSE) /\ Acknowledge(j, r, "FINAL_FAILED")
        /\ UNCHANGED <<posts, bound, remote, uploads, run, edits>>
    BY <1>11 DEF RefuseProvider
  <2> QED BY <1>10, <2>2, <2>3
<1>12. ASSUME CancelLocalJob(j, r) PROVE SagaInv'
  <2> DEFINE new == [ReleasedRow(jobs[j], FALSE) EXCEPT !.state = "CANCELLED"]
             row == [ReleasedRow(jobs[j], FALSE) EXCEPT !.state = "CANCELLED", !.attempt = @ + 1]
  <2>1. "CANCELLED" \in JobStates /\ quota \in QuotaRows
    BY <1>1, StatesOfJobs DEF OverStates, QuotaInv
  <2>2. ReleasedRow(jobs[j], FALSE) \in Rows
    <3>1. jobs[j].released \in BOOLEAN /\ Reverses(jobs[j], FALSE) \in BOOLEAN /\ Returns(jobs[j]) \in BOOLEAN
      BY <1>1 DEF Rows, Reverses, Returns
    <3> QED BY <1>1, <3>1 DEF ReleasedRow, Rows
  <2>3. ReleasedRow(jobs[j], FALSE).attempt + 1 \in Nat
    <3>1. \A m \in Rows : m.attempt + 1 \in Nat
      BY DEF Rows
    <3> QED BY <2>2, <3>1
  <2>4. /\ row \in Rows /\ row.op = new.op /\ row.state = new.state /\ row.target = new.target
        /\ (row.cancel <=> new.cancel) /\ (row.completed <=> new.completed)
        /\ (row.released <=> new.released) /\ (row.started <=> new.started)
    BY <2>1, <2>2, <2>3 DEF Rows
  <2>5. /\ ~Finished(jobs[j]) /\ jobs' = [jobs EXCEPT ![j] = row]
        /\ quota' = ReleasedQuota(jobs[j], FALSE) /\ Acknowledge(j, r, "CANCELLED")
        /\ UNCHANGED <<posts, bound, remote, uploads, run, edits>>
    BY <1>12 DEF CancelLocalJob
  <2> HIDE DEF row
  <2> QED BY <1>10, <2>4, <2>5
<1>13. ASSUME Start(j, r) PROVE SagaInv'
  <2> DEFINE old == jobs[j]
             subject == IF old.op = "CREATE" THEN j ELSE old.target
             pc == IF Cancelling(old) THEN "cancel" ELSE FirstCall(old.op)
             row == IF Cancelling(old) THEN [old EXCEPT !.attempt = @ + 1]
                    ELSE [old EXCEPT !.attempt = @ + 1, !.started = TRUE, !.state = "PUBLISHING"]
  <2>1. /\ ~Finished(old) /\ ~NeverStarted(old)
        /\ run' = [ job |-> j, retries |-> r, subject |-> subject, post |-> posts[subject],
                    bound |-> bound, partial |-> FALSE, seen |-> 0, pc |-> pc, row |-> row ]
        /\ UNCHANGED <<jobs, posts, bound, quota, remote, uploads, msgs, crashes, faults, edits>>
    BY <1>13 DEF Start
  <2>2. old.attempt + 1 \in Nat /\ "PUBLISHING" \in JobStates
    BY <1>1, StatesOfJobs DEF Rows
  <2>3. /\ row \in Rows /\ SameRequest(old, row) /\ row.attempt = old.attempt + 1
        /\ row.target = old.target
        /\ (row.completed <=> old.completed) /\ (row.released <=> old.released)
    BY <1>1, <2>2 DEF Rows, SameRequest
  <2>4. /\ pc \in {"upload", "fetch", "cancel"} /\ (pc = "cancel" => old.cancel)
        /\ (pc = "fetch" => old.op # "CREATE")
    BY DEF FirstCall, Cancelling
  <2>5. subject \in Jobs /\ (old.op = "CREATE" => subject = j) /\ (old.op # "CREATE" => subject = old.target)
    BY <1>1, <1>5 DEF RowOK, Rows
  <2>6. posts[subject] \in PostRows /\ bound \in BOOLEAN
    BY <1>1, <2>5 DEF Typed
  <2> HIDE DEF row, pc, subject
  <2>7. /\ run' \in Runs /\ run'.job = j /\ run'.retries = r /\ run'.subject = subject
        /\ run'.post = posts[subject] /\ run'.row = row /\ run'.pc = pc
    BY <2>1, <2>3, <2>4, <2>5, <2>6 DEF Runs
  <2>8. Typed'
    BY <1>1, <2>1, <2>7 DEF Typed
  <2>9. RemoteInv' /\ JobsInv' /\ QuotaInv' /\ QuotaSettled' /\ RecordedPostExists'
    <3>1. RemoteInv' /\ JobsInv' /\ RecordedPostExists'
      BY <2>1 DEF SagaInv, RemoteInv, JobsInv, JobInv, RecordedPostExists
    <3>2. QuotaInv' /\ QuotaSettled'
      BY <1>1, <2>1 DEF SagaInv, QuotaInv, QuotaSettled, QuotaMatchesJobs, Holders, Reserving
    <3> QED BY <3>1, <3>2
  <2>10. NoJob \notin Jobs
    BY PublishAssumption
  <2>11. row.op = old.op /\ (row.cancel <=> old.cancel)
    BY <2>3 DEF SameRequest
  <2>12. ~old.released /\ old.state \notin OverStates
    BY <1>7, <2>1
  <2>13. posts[subject].state # "NONE" <=> row.target # NoJob
    <3>1. CASE old.op = "CREATE"
      BY <1>1, <1>5, <2>3, <2>5, <2>10, <3>1 DEF RowOK
    <3>2. CASE old.op # "CREATE"
      BY <1>1, <1>5, <2>3, <2>5, <3>2 DEF RowOK
    <3> QED BY <3>1, <3>2
  <2>14. PostAt(posts[subject], remote[subject])
    BY <2>5 DEF SagaInv, RecordedPostExists, PostAt
  <2>15. row.op = "CREATE" => row.target \in {NoJob, j}
    BY <1>5, <2>3, <2>11 DEF RowOK
  <2>16. row.cancel => row.target # NoJob
    BY <1>8a, <2>1, <2>3, <2>11
  <2>17. old.op # "CREATE" => pc # "upload"
    BY DEF FirstCall, pc
  <2> QED BY <1>3, <1>4, <2>1, <2>3, <2>4, <2>5, <2>7, <2>8, <2>9, <2>11, <2>12, <2>13, <2>14, <2>15,
             <2>16, <2>17 DEF SagaInv, RunInv
<1> QED BY <1>2, <1>9, <1>11, <1>12, <1>13

\* The CMS publishes what is due and people change posts.
LEMMA PeopleAdvance ==
  ASSUME SagaInv, NEW p \in Jobs, GoLive(p) \/ EditRemote(p)
  PROVE  RemoteAdvances
<1>1. Typed /\ RemoteInv
  BY DEF SagaInv
<1>2. ASSUME GoLive(p) PROVE RemoteAdvances
  <2> DEFINE r == remote[p]
             s == [r EXCEPT !.state = "published", !.hash = @ + 1]
  <2>1. /\ r.state = "scheduled" /\ remote' = [remote EXCEPT ![p] = s] /\ edits' = edits
        /\ UNCHANGED <<jobs, posts, bound, quota, uploads, msgs, run, crashes, faults>>
    BY <1>1, <1>2 DEF GoLive, Typed
  <2>2. RemoteOK(r) /\ r \in RemotePosts
    BY <1>1 DEF RemoteInv, RemoteOK
  <2>3. /\ r.hash \in Nat /\ r.id \in Nat /\ r.copies \in Nat /\ r.hash + 1 \in Nat
    BY <2>2, RemoteFields
  <2>4. /\ s \in RemotePosts /\ s.state = "published" /\ s.hash = r.hash + 1 /\ s.id = r.id
        /\ s.copies = r.copies
    BY <2>2, <2>3 DEF RemotePosts, RemoteStates
  <2> HIDE DEF s
  <2>5. RemoteMoves(r, s)
    BY <2>1, <2>2, <2>3, <2>4 DEF RemoteMoves, RemoteOK, LiveStates
  <2> QED BY <1>1, <2>1, <2>5, RemoteAdvancesAt
<1>3. ASSUME EditRemote(p) PROVE RemoteAdvances
  <2> DEFINE r == remote[p]
             s == [r EXCEPT !.hash = @ + 1, !.body = @ + 1, !.editor = NoJob]
  <2>1. /\ r.copies > 0 /\ edits < MaxEdits /\ edits' = edits + 1
        /\ \/ remote' = [remote EXCEPT ![p] = s]
           \/ \E force \in BOOLEAN : remote' = [remote EXCEPT ![p] = Deleted(r, force)]
        /\ UNCHANGED <<jobs, posts, bound, quota, uploads, msgs, run, crashes, faults>>
    BY <1>1, <1>3 DEF EditRemote, Typed
  <2>2. RemoteOK(r) /\ r \in RemotePosts /\ r.state # "gone"
    BY <1>1, <2>1 DEF RemoteInv, RemoteOK, LiveStates
  <2>3. /\ r.hash \in Nat /\ r.id \in Nat /\ r.copies \in Nat /\ r.body \in Nat
        /\ r.hash + 1 \in Nat /\ r.body + 1 \in Nat
    BY <2>2, RemoteFields
  <2>4. /\ s \in RemotePosts /\ s.state = r.state /\ s.hash = r.hash + 1 /\ s.id = r.id
        /\ s.copies = r.copies
    BY <2>2, <2>3 DEF RemotePosts, RemoteStates
  <2> HIDE DEF s
  <2>5. RemoteMoves(r, s)
    BY <2>2, <2>3, <2>4 DEF RemoteMoves, RemoteOK
  <2>6. \A force \in BOOLEAN : RemoteMoves(r, Deleted(r, force))
    BY <2>2, DeletedMoves
  <2> QED BY <1>1, <2>1, <2>5, <2>6, RemoteAdvancesAt
<1> QED BY <1>2, <1>3

\* The CMS, people and lost workers.
LEMMA EnvironmentKeeps ==
  ASSUME SagaInv, WorkerLost \/ UnexpectedError \/ \E p \in Jobs : GoLive(p) \/ EditRemote(p)
  PROVE  SagaInv'
<1>1. Typed /\ RemoteInv /\ JobsInv /\ RunInv /\ QuotaInv /\ QuotaSettled /\ RecordedPostExists
  BY DEF SagaInv
<1>2. ASSUME WorkerLost PROVE SagaInv'
  <2>1. /\ crashes < MaxCrashes /\ crashes' = crashes + 1 /\ run' = NoRun
        /\ UNCHANGED <<jobs, posts, bound, quota, remote, uploads, msgs, faults, edits>>
    BY <1>2 DEF WorkerLost
  <2>2. crashes' \in 0..MaxCrashes
    BY <1>1, <2>1, PublishAssumption DEF Typed
  <2>3. Typed' /\ RunInv'
    BY <1>1, <2>1, <2>2 DEF Typed, RunInv
  <2>4. RemoteInv' /\ JobsInv' /\ RecordedPostExists'
    BY <1>1, <2>1 DEF RemoteInv, JobsInv, JobInv, RecordedPostExists
  <2>5. QuotaInv' /\ QuotaSettled'
    BY <1>1, <2>1 DEF QuotaInv, QuotaSettled, QuotaMatchesJobs, Holders, Reserving
  <2> QED BY <2>3, <2>4, <2>5 DEF SagaInv
<1>3. ASSUME UnexpectedError PROVE SagaInv'
  <2> DEFINE m == Retried(run.job, run.retries)
  <2>1. /\ run # NoRun /\ faults < MaxFaults /\ faults' = faults + 1 /\ run' = NoRun
        /\ msgs' = [msgs EXCEPT ![run.job] = m]
        /\ UNCHANGED <<jobs, posts, bound, quota, remote, uploads, crashes, edits>>
    BY <1>3 DEF UnexpectedError
  <2>2. run.job \in Jobs /\ run.retries \in 0..MaxRetries
    BY <2>1, RunFacts
  <2>3. /\ msgs \in [Jobs -> [0..MaxRetries -> Nat]] /\ msgs[run.job][run.retries] > 0
        /\ jobs[run.job].op # "NONE"
    BY <1>1, <2>1 DEF Typed, RunInv
  <2>4. m \in [0..MaxRetries -> Nat]
    BY <2>2, <2>3, RetriedCounts
  <2> HIDE DEF m
  <2>5. msgs' \in [Jobs -> [0..MaxRetries -> Nat]] /\ \A k \in Jobs : k # run.job => msgs'[k] = msgs[k]
    BY <2>1, <2>2, <2>3, <2>4
  <2>6. faults' \in 0..MaxFaults
    BY <1>1, <2>1, PublishAssumption DEF Typed
  <2>7. Typed' /\ RunInv'
    BY <1>1, <2>1, <2>5, <2>6 DEF Typed, RunInv
  <2>8. RemoteInv' /\ RecordedPostExists'
    BY <1>1, <2>1 DEF RemoteInv, RecordedPostExists
  <2>9. JobsInv'
    BY <1>1, <2>1, <2>3, <2>5 DEF JobsInv, JobInv
  <2>10. QuotaInv' /\ QuotaSettled'
    BY <1>1, <2>1 DEF QuotaInv, QuotaSettled, QuotaMatchesJobs, Holders, Reserving
  <2> QED BY <2>7, <2>8, <2>9, <2>10 DEF SagaInv
<1>4. ASSUME RemoteAdvances, edits' \in 0..MaxEdits,
             UNCHANGED <<jobs, posts, bound, quota, uploads, msgs, run, crashes, faults>>
      PROVE  SagaInv'
  <2>1. Typed'
    BY <1>1, <1>4 DEF Typed, RemoteAdvances
  <2>2. RemoteInv'
    BY <1>4 DEF RemoteInv, RemoteAdvances, RemoteMoves
  <2>3. JobsInv'
    BY <1>1, <1>4 DEF JobsInv, JobInv
  <2>4. QuotaInv' /\ QuotaSettled'
    BY <1>1, <1>4 DEF QuotaInv, QuotaSettled, QuotaMatchesJobs, Holders, Reserving
  <2>5. ASSUME NEW k \in Jobs, NEW post \in PostRows, PostAt(post, remote[k])
        PROVE  PostAt(post, remote'[k])
    BY <1>1, <1>4, <2>5, PostAtLater DEF RemoteInv, RemoteAdvances
  <2>6. RecordedPostExists'
    <3>1. \A k \in Jobs : PostAt(posts[k], remote[k]) /\ posts[k] \in PostRows
      BY <1>1 DEF RecordedPostExists, PostAt, Typed
    <3>2. \A k \in Jobs : PostAt(posts'[k], remote'[k])
      BY <1>4, <2>5, <3>1
    <3> QED BY <1>1, <1>4, <3>2 DEF RecordedPostExists, PostAt
  <2>7. RunInv'
    <3> SUFFICES ASSUME run # NoRun PROVE RunInv'
      BY <1>4 DEF RunInv
    <3>1. run.subject \in Jobs /\ run.post \in PostRows /\ PostAt(run.post, remote[run.subject])
      BY RunFacts DEF Current
    <3>2. PostAt(run.post, remote'[run.subject])
      BY <2>5, <3>1
    <3> QED BY <1>1, <1>4, <3>2 DEF RunInv
  <2> QED BY <2>1, <2>2, <2>3, <2>4, <2>6, <2>7 DEF SagaInv
<1>5. ASSUME NEW p \in Jobs, GoLive(p) PROVE SagaInv'
  <2>1. RemoteAdvances
    BY <1>5, PeopleAdvance
  <2> QED BY <1>1, <1>4, <1>5, <2>1 DEF GoLive, Typed
<1>6. ASSUME NEW p \in Jobs, EditRemote(p) PROVE SagaInv'
  <2>1. RemoteAdvances
    BY <1>6, PeopleAdvance
  <2>2. edits' \in 0..MaxEdits
    <3>1. edits < MaxEdits /\ edits' = edits + 1
      BY <1>6 DEF EditRemote
    <3> QED BY <1>1, <3>1, PublishAssumption DEF Typed
  <2> QED BY <1>4, <1>6, <2>1, <2>2 DEF EditRemote
<1> QED BY <1>2, <1>3, <1>5, <1>6

-----------------------------------------------------------------------------
(* The theorems.                                                           *)

LEMMA SagaInit ==
  ASSUME Init PROVE SagaInv
<1>1. /\ jobs = [j \in Jobs |-> NoRow] /\ posts = [j \in Jobs |-> NoPost]
      /\ remote = [j \in Jobs |-> NoRemote] /\ msgs = [j \in Jobs |-> [r \in 0..MaxRetries |-> 0]]
      /\ run = NoRun /\ quota = [reserved |-> 0, completed |-> 0]
  BY DEF Init
<1>2. NoRow \in Rows /\ NoPost \in PostRows /\ NoRemote \in RemotePosts
  BY DEF NoRow, Rows, NoPost, PostRows, PostStates, NoRemote, RemotePosts, RemoteStates
<1>3. Typed
  <2>1. 0 \in 0..MaxCrashes /\ 0 \in 0..MaxFaults /\ 0 \in 0..MaxEdits /\ 0 \in 0..2
    BY PublishAssumption
  <2>2. msgs \in [Jobs -> [0..MaxRetries -> Nat]]
    BY <1>1
  <2>3. jobs \in [Jobs -> Rows] /\ posts \in [Jobs -> PostRows] /\ remote \in [Jobs -> RemotePosts]
    BY <1>1, <1>2
  <2> QED BY <1>1, <2>1, <2>2, <2>3 DEF Typed, Init
<1>4. RemoteInv /\ JobsInv /\ RunInv
  BY <1>1, <1>2 DEF RemoteInv, RemoteOK, JobsInv, JobInv, RunInv, NoRow, NoPost, NoRemote
<1>5. QuotaInv
  <2>1. Holders = {} /\ Published = {}
    BY <1>1 DEF Holders, Published, Reserving, NoRow, Metered
  <2>2. IsFiniteSet({}) /\ Cardinality({}) = 0
    BY FS_EmptySet
  <2>3. quota \in QuotaRows /\ quota.reserved = 0 /\ quota.completed = 0
    BY <1>1 DEF QuotaRows
  <2>4. QuotaMatchesJobs
    BY <2>1, <2>2, <2>3 DEF QuotaMatchesJobs, Holders, Published
  <2> QED BY <2>1, <2>2, <2>3, <2>4, PublishAssumption DEF QuotaInv
<1>6. QuotaSettled /\ RecordedPostExists
  BY <1>1 DEF QuotaSettled, RecordedPostExists, Reserving, NoRow, NoPost, Metered
<1> QED BY <1>3, <1>4, <1>5, <1>6 DEF SagaInv

LEMMA CallRuns ==
  ASSUME Call PROVE run # NoRun
BY DEF Call, ContentRefused, ReuseBinding, UploadMedia, FetchStale, FetchMissing,
       FetchUnchanged, FetchTransition, ConflictAbort, ConflictImport, ConflictOverwrite,
       WriteNewPost, WriteKnownPost, DeletePost, VerifyRemote, CancelWithoutCall, CancelDraft,
       CancelScheduled, CancelTooLate, RevertSchedule, CallFails, UploadAnswerLost,
       WriteAnswerLost, RevertAnswerLost, At, Fetched, Conflict, CancelFetched

LEMMA SagaStep ==
  ASSUME SagaInv, [Next]_vars PROVE SagaInv'
<1>1. ASSUME Call PROVE SagaInv'
  <2>1. CallStep
    BY <1>1, CallKinds
  <2>2. run # NoRun
    BY <1>1, CallRuns
  <2> QED BY <2>1, <2>2, EndingKeeps, ContinuingKeeps DEF CallStep
<1>2. ASSUME UNCHANGED vars PROVE SagaInv'
  <2>1. Typed' /\ RemoteInv' /\ JobsInv' /\ RunInv' /\ RecordedPostExists'
    BY <1>2 DEF vars, SagaInv, Typed, RemoteInv, JobsInv, JobInv, RunInv, RecordedPostExists
  <2>2. QuotaInv' /\ QuotaSettled'
    BY <1>2 DEF vars, SagaInv, QuotaInv, QuotaSettled, QuotaMatchesJobs, Holders, Reserving
  <2> QED BY <2>1, <2>2 DEF SagaInv
<1> QED BY <1>1, <1>2, RequestsKeep, TakesKeep, EnvironmentKeeps DEF Next

LEMMA StepAdvances ==
  ASSUME SagaInv, [Next]_vars PROVE RemoteAdvances
<1>1. Typed /\ RemoteInv
  BY DEF SagaInv
<1>2. ASSUME NEW j \in Jobs, Request(j) PROVE UNCHANGED remote
  BY <1>2 DEF Request, CreatePublishJob, ChangePublishedPost, ReconcilePublishedPost,
              ScheduleReconciliation, CreateJob, CancelPublishJob, RetryPublishJob
<1>3. ASSUME NEW j \in Jobs, Take(j) PROVE UNCHANGED remote
  BY <1>3 DEF Take, Ignore, CancelLocalJob, RefuseProvider, Start
<1>4. ASSUME WorkerLost \/ UnexpectedError \/ UNCHANGED vars PROVE UNCHANGED remote
  BY <1>4 DEF WorkerLost, UnexpectedError, vars
<1>5. ASSUME Call PROVE RemoteAdvances
  BY <1>5, CallKinds DEF CallStep
<1> QED BY <1>1, <1>2, <1>3, <1>4, <1>5, PeopleAdvance, RemoteRests DEF Next

LEMMA SagaAlways == Spec => []SagaInv
BY SagaInit, SagaStep, PTL DEF Spec

\* The rows agree with each other and with the CMS in every reachable state
\* (_create_remote, _reserve_quota, _complete_quota, _release_quota).
THEOREM RowsAlwaysAgree == Spec => []RowsAgree
<1>1. ASSUME SagaInv PROVE RowsAgree
  <2>1. /\ quota.reserved \in Nat /\ quota.completed \in Nat /\ quota.completed <= quota.reserved
        /\ quota.reserved <= QuotaLimit /\ QuotaLimit \in Nat
    BY <1>1, CountsFacts, PublishAssumption DEF SagaInv, QuotaInv
  <2>2. quota \in [reserved : 0..QuotaLimit, completed : 0..QuotaLimit]
    <3>1. quota.reserved \in 0..QuotaLimit /\ quota.completed \in 0..QuotaLimit
      BY <2>1
    <3>2. quota \in QuotaRows
      BY <1>1 DEF SagaInv, QuotaInv
    <3> QED BY <3>1, <3>2 DEF QuotaRows
  <2> QED BY <1>1, <2>2 DEF SagaInv, RowsAgree, TypeOK, Typed, QuotaInv
<1> QED BY <1>1, SagaAlways, PTL

\* A search that returns posts in every live state keeps the CMS at one post per
\* job: lost answers, redeliveries and retries never make a second one
\* (find_by_marker in _create_remote).
THEOREM NeverTwoRemotePosts ==
  ASSUME LiveStates \subseteq SearchedStates PROVE Spec => []OneRemotePost
<1>1. ASSUME Init PROVE OneRemotePost
  BY <1>1 DEF Init, OneRemotePost, NoRemote
<1>2. ASSUME SagaInv, OneRemotePost, [Next]_vars PROVE OneRemotePost'
  <2>1. RemoteAdvances
    BY <1>2, StepAdvances
  <2> QED BY <1>2, <2>1 DEF OneRemotePost, RemoteAdvances, RemoteMoves
<1> QED BY <1>1, <1>2, SagaAlways, PTL DEF Spec

\* A step changes at most one job, none that is over, and cancels a started one only
\* at the end of a run that cancels.
LEMMA OneRowChanges ==
  ASSUME SagaInv, [Next]_vars
  PROVE  \/ UNCHANGED jobs
         \/ \E j \in Jobs : \E row :
              /\ jobs' = [jobs EXCEPT ![j] = row]
              /\ jobs[j].state \notin OverStates
              /\ row.state = "CANCELLED" /\ jobs[j].started
                   => run # NoRun /\ run.job = j /\ CancelReached
<1> DEFINE Changes(j, row) ==
             /\ jobs' = [jobs EXCEPT ![j] = row]
             /\ jobs[j].state \notin OverStates
             /\ row.state = "CANCELLED" /\ jobs[j].started
                  => run # NoRun /\ run.job = j /\ CancelReached
<1> SUFFICES UNCHANGED jobs \/ \E j \in Jobs : \E row : Changes(j, row)
  OBVIOUS
<1>1. jobs \in [Jobs -> Rows]
  BY DEF SagaInv, Typed
<1>2. ASSUME NEW j \in Jobs, NEW op, NEW post, NEW hash, NEW vis, NEW action,
             CreateJob(j, op, post, hash, vis, action)
      PROVE  \E row : Changes(j, row)
  <2> DEFINE row == [NoRow EXCEPT !.op = op, !.state = "SCHEDULED", !.target = post,
                                  !.expected = hash, !.vis = vis, !.action = action]
  <2>1. jobs' = [jobs EXCEPT ![j] = row] /\ jobs[j] = NoRow
    BY <1>2 DEF CreateJob
  <2>2. row.state = "SCHEDULED" /\ jobs[j].state = "NONE"
    BY <2>1 DEF NoRow
  <2> HIDE DEF row
  <2> QED BY <2>1, <2>2 DEF OverStates
<1>3. ASSUME NEW j \in Jobs, Request(j) PROVE \E row : Changes(j, row)
  <2>1. ASSUME CancelPublishJob(j) PROVE \E row : Changes(j, row)
    <3> DEFINE row == [jobs[j] EXCEPT !.state = "CANCEL_REQUESTED", !.cancel = TRUE]
    <3>1. jobs' = [jobs EXCEPT ![j] = row] /\ row.state = "CANCEL_REQUESTED"
      BY <1>1, <2>1 DEF CancelPublishJob, Rows
    <3>2. jobs[j].state \notin OverStates
      BY <2>1 DEF CancelPublishJob, Cancellable, OverStates
    <3> HIDE DEF row
    <3> QED BY <3>1, <3>2
  <2>2. ASSUME RetryPublishJob(j) PROVE \E row : Changes(j, row)
    <3> DEFINE row == [jobs[j] EXCEPT !.state = "SCHEDULED"]
    <3>1. jobs' = [jobs EXCEPT ![j] = row] /\ row.state = "SCHEDULED"
      BY <1>1, <2>2 DEF RetryPublishJob, Rows
    <3>2. jobs[j].state \notin OverStates
      BY <2>2 DEF RetryPublishJob, OverStates
    <3> HIDE DEF row
    <3> QED BY <3>1, <3>2
  <2> HIDE DEF Changes
  <2> QED BY <1>2, <1>3, <2>1, <2>2 DEF Request, CreatePublishJob, ChangePublishedPost,
             ReconcilePublishedPost, ScheduleReconciliation
<1>4. ASSUME NEW j \in Jobs, Take(j) PROVE UNCHANGED jobs \/ \E row : Changes(j, row)
  <2>1. PICK r \in 0..MaxRetries :
          Ignore(j, r) \/ CancelLocalJob(j, r) \/ Start(j, r) \/ RefuseProvider(j, r)
    BY <1>4 DEF Take
  <2>2. CASE Ignore(j, r) \/ Start(j, r)
    BY <2>2 DEF Ignore, Start
  <2>3. CASE CancelLocalJob(j, r)
    <3> DEFINE row == [ReleasedRow(jobs[j], FALSE) EXCEPT !.state = "CANCELLED", !.attempt = @ + 1]
    <3>1. jobs' = [jobs EXCEPT ![j] = row]
      BY <2>3 DEF CancelLocalJob
    <3>2. jobs[j].state \notin OverStates /\ ~jobs[j].started
      BY <2>3 DEF CancelLocalJob, Finished, OverStates, NeverStarted
    <3> HIDE DEF row
    <3> QED BY <3>1, <3>2
  <2>4. CASE RefuseProvider(j, r)
    <3> DEFINE row == [ReleasedRow(jobs[j], FALSE) EXCEPT !.state = "FINAL_FAILED"]
    <3>1. jobs' = [jobs EXCEPT ![j] = row]
      BY <2>4 DEF RefuseProvider
    <3>2. jobs[j].state \notin OverStates
      BY <2>4 DEF RefuseProvider, Finished, OverStates
    <3>3. row.state = "FINAL_FAILED"
      <4>1. "FINAL_FAILED" \in JobStates /\ quota \in QuotaRows /\ jobs[j] \in Rows
        BY <1>1, StatesOfJobs DEF OverStates, SagaInv, QuotaInv
      <4> QED BY <4>1, ReleaseMoves
    <3> HIDE DEF row
    <3> QED BY <3>1, <3>2, <3>3
  <2> QED BY <2>1, <2>2, <2>3, <2>4
<1>5. ASSUME Call PROVE UNCHANGED jobs \/ \E j \in Jobs : \E row : Changes(j, row)
  <2>1. CASE \E changed : Continue(changed)
    BY <2>1 DEF Continue
  <2>2. CASE \E post : Ends(post)
    <3>1. PICK post, row, q : /\ RowEnds(row, q) /\ Commit(row, post, run.bound, q)
                              /\ row.state = "CANCELLED" => CancelReached
      BY <2>2 DEF Ends
    <3>2. run # NoRun
      BY <1>5, CallRuns
    <3>3. run.job \in Jobs /\ jobs[run.job].state \notin OverStates
      BY <3>2, RunFacts DEF SagaInv, RunInv
    <3>4. jobs' = [jobs EXCEPT ![run.job] = row]
      BY <3>1 DEF Commit
    <3>5. Changes(run.job, row)
      BY <3>1, <3>2, <3>3, <3>4
    <3> QED BY <3>3, <3>5
  <2> QED BY <1>5, <2>1, <2>2, CallKinds DEF CallStep
<1>6. ASSUME \/ WorkerLost \/ UnexpectedError \/ \E p \in Jobs : GoLive(p) \/ EditRemote(p)
             \/ UNCHANGED vars
      PROVE  UNCHANGED jobs
  BY <1>6 DEF WorkerLost, UnexpectedError, GoLive, EditRemote, vars
<1> HIDE DEF Changes
<1> QED BY <1>3, <1>4, <1>5, <1>6 DEF Next

\* A job that is partial, failed for good or cancelled never changes its state again
\* (the early return of process_publish_job, cancel_publish_job, retry_publish_job).
THEOREM FinalJobsStayFinal == Spec => FinalStaysFinal
<1>1. ASSUME SagaInv, [Next]_vars
      PROVE  [\A j \in Jobs : jobs[j].state \in {"PARTIAL", "FINAL_FAILED", "CANCELLED"}
                               => jobs'[j].state = jobs[j].state]_vars
  <2> SUFFICES ASSUME NEW j \in Jobs, jobs[j].state \in OverStates
               PROVE  jobs'[j].state = jobs[j].state
    BY DEF OverStates
  <2>1. jobs \in [Jobs -> Rows]
    BY <1>1 DEF SagaInv, Typed
  <2>2. CASE UNCHANGED jobs
    BY <2>2
  <2>3. CASE \E k \in Jobs : \E row : jobs' = [jobs EXCEPT ![k] = row] /\ jobs[k].state \notin OverStates
    BY <2>1, <2>3
  <2> QED BY <1>1, <2>2, <2>3, OneRowChanges
<1> QED BY <1>1, SagaAlways, PTL DEF Spec, FinalStaysFinal

\* A started job whose post was recorded as scheduled is reported as cancelled only
\* when the CMS no longer has it scheduled (_cancel_job).
THEOREM CancellationsReachRemote == Spec => CancelReachesRemote
<1>1. ASSUME SagaInv, [Next]_vars
      PROVE  [\A j \in Jobs :
                (/\ BecomesCancelled(j) /\ jobs[j].started
                 /\ posts[jobs[j].target].state = "SCHEDULED")
                => remote'[jobs[j].target].state = "draft"]_vars
  <2> SUFFICES ASSUME NEW j \in Jobs, BecomesCancelled(j), jobs[j].started,
                      posts[jobs[j].target].state = "SCHEDULED"
               PROVE  remote'[jobs[j].target].state = "draft"
    OBVIOUS
  <2>1. jobs \in [Jobs -> Rows] /\ RunInv /\ JobInv(j) /\ NoJob \notin Jobs
    BY <1>1, PublishAssumption DEF SagaInv, Typed, JobsInv
  <2>2. PICK k, row :
          /\ k \in Jobs /\ jobs' = [jobs EXCEPT ![k] = row]
          /\ row.state = "CANCELLED" /\ jobs[k].started => run # NoRun /\ run.job = k /\ CancelReached
    BY <1>1, OneRowChanges DEF BecomesCancelled
  <2>3. k = j /\ row.state = "CANCELLED"
    BY <2>1, <2>2 DEF BecomesCancelled
  <2>4. run # NoRun /\ run.job = j /\ CancelReached
    BY <2>2, <2>3
  <2>5. /\ run.post = posts[run.subject] /\ run.row.target # NoJob /\ run.post.state # "NONE"
        /\ run.subject = IF run.row.op = "CREATE" THEN j ELSE run.row.target
        /\ run.row.op # "CREATE" => run.row.target = jobs[j].target
        /\ SameRequest(jobs[j], run.row)
    BY <2>1, <2>4 DEF RunInv, CancelReached
  <2>6. jobs[j].target = run.subject
    BY <2>1, <2>5 DEF JobInv, SameRequest
  <2> QED BY <2>4, <2>5, <2>6 DEF CancelReached
<1> QED BY <1>1, SagaAlways, PTL DEF Spec, CancelReachesRemote

\* What a call of a run that is not publishing a new post makes of the CMS.
LEMMA KnownPostCalls ==
  ASSUME SagaInv, Call, run.row.op # "CREATE"
  PROVE  \/ UNCHANGED remote
         \/ /\ remote' = [remote EXCEPT ![run.subject] = Written(Current)]
            /\ run.pc = "write" /\ Accepted
         \/ \E s : /\ remote' = [remote EXCEPT ![run.subject] = s]
                   /\ s.body = Current.body
<1>1. run # NoRun
  BY CallRuns
<1>2. Current \in RemotePosts
  BY <1>1, RunFacts
<1>3. /\ \A force \in BOOLEAN : Deleted(Current, force).body = Current.body
      /\ Reverted(Current).body = Current.body
  BY <1>2 DEF RemotePosts, Deleted, Reverted
<1>4. CASE \/ ContentRefused \/ ReuseBinding \/ UploadMedia \/ FetchStale \/ FetchMissing
           \/ FetchUnchanged \/ FetchTransition \/ ConflictAbort \/ ConflictImport
           \/ ConflictOverwrite \/ VerifyRemote \/ CancelWithoutCall \/ CancelDraft
           \/ CancelScheduled \/ CancelTooLate \/ CallFails \/ UploadAnswerLost
  BY <1>4 DEF ContentRefused, ReuseBinding, UploadMedia, FetchStale, FetchMissing,
       FetchUnchanged, FetchTransition, ConflictAbort, ConflictImport, ConflictOverwrite,
       VerifyRemote, CancelWithoutCall, CancelDraft, CancelScheduled, CancelTooLate, CallFails,
       UploadAnswerLost, ProceedWith
<1>5. CASE WriteNewPost
  BY <1>5 DEF WriteNewPost
<1>6. CASE WriteKnownPost
  BY <1>6 DEF WriteKnownPost, At
<1>7. CASE DeletePost
  BY <1>3, <1>7 DEF DeletePost
<1>8. CASE WriteAnswerLost
  BY <1>3, <1>8 DEF WriteAnswerLost, At
<1>9. CASE RevertSchedule \/ RevertAnswerLost
  BY <1>3, <1>9 DEF RevertSchedule, RevertAnswerLost
<1> QED BY <1>4, <1>5, <1>6, <1>7, <1>8, <1>9 DEF Call

\* On a CMS with conditional writes a job on a published post replaces what somebody
\* wrote there only if the user asked for it or had seen it (_remote_conflict, the
\* etag of update_post).
THEOREM EditsAreAlwaysSeen ==
  ASSUME ConditionalWrites PROVE Spec => EditsAreSeen
<1>1. ASSUME SagaInv, [Next]_vars
      PROVE  [\A p \in Jobs :
                (/\ run # NoRun /\ run.row.op # "CREATE" /\ run.subject = p
                 /\ remote[p].editor = NoJob
                 /\ remote'[p].body # remote[p].body /\ remote'[p].editor = run.job)
                => run.row.action = "OVERWRITE" \/ remote[p].hash = run.row.expected]_vars
  <2> SUFFICES ASSUME NEW p \in Jobs, run # NoRun, run.row.op # "CREATE", run.subject = p,
                      remote[p].editor = NoJob, remote'[p].body # remote[p].body,
                      remote'[p].editor = run.job
               PROVE  run.row.action = "OVERWRITE" \/ remote[p].hash = run.row.expected
    OBVIOUS
  <2>1. Current = remote[p] /\ remote \in [Jobs -> RemotePosts] /\ run.job \in Jobs /\ NoJob \notin Jobs
    BY <1>1, RunFacts, PublishAssumption DEF Current, SagaInv, Typed
  <2>2. CASE Call
    <3>1. CASE remote' = [remote EXCEPT ![run.subject] = Written(Current)]
               /\ run.pc = "write" /\ Accepted
      <4>1. Current.hash = run.seen
        BY <3>1 DEF Accepted
      <4>2. run.row.action = "OVERWRITE" \/ run.seen = run.row.expected
        BY <1>1, <3>1 DEF SagaInv, RunInv
      <4> QED BY <2>1, <4>1, <4>2
    <3>2. ~\E s : /\ remote' = [remote EXCEPT ![run.subject] = s]
                  /\ s.body = Current.body
      BY <2>1
    <3>3. ~UNCHANGED remote
      OBVIOUS
    <3> QED BY <1>1, <2>2, <3>1, <3>2, <3>3, KnownPostCalls
  <2>3. CASE \E q \in Jobs : GoLive(q)
    <3>1. PICK q \in Jobs : remote' = [remote EXCEPT ![q].state = "published", ![q].hash = @ + 1]
      BY <2>3 DEF GoLive
    <3>2. remote'[p].body = remote[p].body
      BY <2>1, <3>1 DEF RemotePosts
    <3> QED BY <3>2
  <2>4. CASE \E q \in Jobs : EditRemote(q)
    <3>1. PICK q \in Jobs :
            \/ remote' = [remote EXCEPT ![q].hash = @ + 1, ![q].body = @ + 1, ![q].editor = NoJob]
            \/ \E force \in BOOLEAN : remote' = [remote EXCEPT ![q] = Deleted(remote[q], force)]
      BY <2>4 DEF EditRemote
    <3>2. CASE remote' = [remote EXCEPT ![q].hash = @ + 1, ![q].body = @ + 1, ![q].editor = NoJob]
      <4>1. remote'[p].editor = NoJob
        BY <2>1, <3>2 DEF RemotePosts
      <4> QED BY <2>1, <4>1
    <3>3. CASE \E force \in BOOLEAN : remote' = [remote EXCEPT ![q] = Deleted(remote[q], force)]
      <4>1. remote'[p].body = remote[p].body
        BY <2>1, <3>3 DEF RemotePosts, Deleted
      <4> QED BY <4>1
    <3> QED BY <3>1, <3>2, <3>3
  <2>5. ASSUME NEW j \in Jobs, Request(j) PROVE UNCHANGED remote
    BY <2>5 DEF Request, CreatePublishJob, ChangePublishedPost, ReconcilePublishedPost,
                ScheduleReconciliation, CreateJob, CancelPublishJob, RetryPublishJob
  <2>6. ASSUME NEW j \in Jobs, Take(j) PROVE UNCHANGED remote
    BY <2>6 DEF Take, Ignore, CancelLocalJob, RefuseProvider, Start
  <2>7. ASSUME WorkerLost \/ UnexpectedError \/ UNCHANGED vars PROVE UNCHANGED remote
    BY <2>7 DEF WorkerLost, UnexpectedError, vars
  <2> QED BY <1>1, <2>2, <2>3, <2>4, <2>5, <2>6, <2>7 DEF Next
<1> QED BY <1>1, SagaAlways, PTL DEF Spec, EditsAreSeen

-----------------------------------------------------------------------------
(* Deliveries.                                                             *)

WaitingStates == {"SCHEDULED", "RETRYABLE_FAILED", "CANCEL_REQUESTED"}

\* A delivery was put back at most once per counted attempt and per unexpected error, and
\* a job that waits has one that will survive its next run.
Delivers(row, m, n) ==
  /\ \A r \in 0..MaxRetries : m[r] > 0 => r <= row.attempt + n
  /\ row.state \in WaitingStates =>
       \E r \in 0..MaxRetries : m[r] > 0 /\ (row.attempt < MaxAttempts \/ r <= n)

DeliveryInv == \A j \in Jobs : Delivers(jobs[j], msgs[j], faults)

LEMMA AcknowledgeDelivers ==
  ASSUME Typed, NEW j \in Jobs, NEW r \in 0..MaxRetries, msgs[j][r] > 0, NEW state,
         Acknowledge(j, r, state)
  PROVE  /\ \A k \in 0..MaxRetries : msgs'[j][k] > 0 =>
              msgs[j][k] > 0 \/ (state = "RETRYABLE_FAILED" /\ k = r + 1)
         /\ state = "RETRYABLE_FAILED" /\ r < MaxRetries =>
              \E k \in {r, r + 1} : k \in 0..MaxRetries /\ msgs'[j][k] > 0
<1>1. msgs \in [Jobs -> [0..MaxRetries -> Nat]] /\ MaxRetries \in Nat /\ r \in Nat
  BY PublishAssumption DEF Typed
<1>2. msgs[j] \in [0..MaxRetries -> Nat] /\ \A k \in 0..MaxRetries : msgs[j][k] \in Nat
  BY <1>1
<1>3. r < MaxRetries => r + 1 \in 0..MaxRetries /\ msgs[j][r + 1] \in Nat /\ msgs[j][r + 1] + 1 > 0
  BY <1>1, <1>2
<1>4. CASE state = "RETRYABLE_FAILED" /\ msgs' = [msgs EXCEPT ![j] = Retried(j, r)]
  <2>1. msgs'[j] = Retried(j, r)
    BY <1>1, <1>4
  <2>2. /\ Retried(j, r) \in [0..MaxRetries -> Nat]
        /\ r < MaxRetries => Retried(j, r)[r + 1] = msgs[j][r + 1] + 1
        /\ \A k \in 0..MaxRetries : k # r /\ k # r + 1 => Retried(j, r)[k] = msgs[j][k]
    BY <1>1, RetriedCounts
  <2>3. \A k \in 0..MaxRetries : Retried(j, r)[k] > 0 => msgs[j][k] > 0 \/ k = r + 1
    BY <2>2
  <2> QED BY <1>3, <1>4, <2>1, <2>2, <2>3
<1>5. CASE state # "RETRYABLE_FAILED" /\ msgs' = [msgs EXCEPT ![j] = [msgs[j] EXCEPT ![r] = @ - 1]]
  <2>1. msgs'[j] = [msgs[j] EXCEPT ![r] = @ - 1]
    BY <1>1, <1>5
  <2>2. \A k \in 0..MaxRetries : msgs'[j][k] > 0 => msgs[j][k] > 0
    BY <1>2, <2>1
  <2> QED BY <1>5, <2>2
<1>6. CASE msgs' = msgs
  BY <1>6
<1>7. CASE /\ state = "RETRYABLE_FAILED" /\ r < MaxRetries
           /\ msgs' = [msgs EXCEPT ![j] = [msgs[j] EXCEPT ![r + 1] = @ + 1]]
  <2> DEFINE m == [msgs[j] EXCEPT ![r + 1] = msgs[j][r + 1] + 1]
  <2>1. msgs'[j] = m
    BY <1>1, <1>7
  <2>2. /\ m[r + 1] = msgs[j][r + 1] + 1
        /\ \A k \in 0..MaxRetries : k # r + 1 => m[k] = msgs[j][k]
    BY <1>2, <1>3, <1>7
  <2> HIDE DEF m
  <2>3. \A k \in 0..MaxRetries : m[k] > 0 => msgs[j][k] > 0 \/ k = r + 1
    BY <2>2
  <2> QED BY <1>3, <1>7, <2>1, <2>2, <2>3
<1>8. \/ msgs' = [msgs EXCEPT ![j] = IF state = "RETRYABLE_FAILED" THEN Retried(j, r)
                                                  ELSE [msgs[j] EXCEPT ![r] = @ - 1]]
      \/ msgs' = msgs
      \/ /\ state = "RETRYABLE_FAILED" /\ r < MaxRetries
         /\ msgs' = [msgs EXCEPT ![j][r + 1] = @ + 1]
  BY DEF Acknowledge
<1>9. [msgs EXCEPT ![j][r + 1] = @ + 1] = [msgs EXCEPT ![j] = [msgs[j] EXCEPT ![r + 1] = @ + 1]]
  BY <1>1
<1>10. CASE state = "RETRYABLE_FAILED"
  BY <1>4, <1>6, <1>7, <1>8, <1>9, <1>10
<1>11. CASE state # "RETRYABLE_FAILED"
  BY <1>5, <1>6, <1>8, <1>11
<1> QED BY <1>10, <1>11

\* The rest of the jobs does not notice.
LEMMA OneDelivers ==
  ASSUME DeliveryInv, NEW j \in Jobs, faults' = faults,
         \A k \in Jobs : k # j => jobs'[k] = jobs[k] /\ msgs'[k] = msgs[k],
         Delivers(jobs'[j], msgs'[j], faults)
  PROVE  DeliveryInv'
BY DEF DeliveryInv

LEMMA EnqueuedDelivers ==
  ASSUME SagaInv, DeliveryInv, ~LossyEnqueue, NEW j \in Jobs, Enqueue(j), faults' = faults,
         jobs'[j].attempt = jobs[j].attempt, \A k \in Jobs : k # j => jobs'[k] = jobs[k]
  PROVE  DeliveryInv'
<1>1. /\ \A k \in Jobs : k # j => msgs'[k] = msgs[k]
      /\ msgs'[j][0] > 0 /\ \A r \in 0..MaxRetries : r # 0 => msgs'[j][r] = msgs[j][r]
  BY EnqueueTyped DEF SagaInv
<1>2. jobs[j].attempt \in Nat /\ faults \in Nat /\ 0 \in 0..MaxRetries
  BY PublishAssumption DEF SagaInv, Typed, Rows
<1>3. \A r \in 0..MaxRetries : msgs'[j][r] > 0 => r <= jobs'[j].attempt + faults
  BY <1>1, <1>2 DEF DeliveryInv, Delivers
<1>4. \E r \in 0..MaxRetries : msgs'[j][r] > 0 /\ r <= faults
  BY <1>1, <1>2
<1> QED BY <1>1, <1>3, <1>4, OneDelivers DEF Delivers

LEMMA DeliveryStep ==
  ASSUME SagaInv, DeliveryInv, ~LossyEnqueue, MaxAttempts + MaxFaults <= MaxRetries + 1,
         [Next]_vars
  PROVE  DeliveryInv'
<1>1. /\ Typed /\ RunInv /\ jobs \in [Jobs -> Rows] /\ msgs \in [Jobs -> [0..MaxRetries -> Nat]]
      /\ faults \in 0..MaxFaults /\ faults \in Nat
      /\ MaxAttempts \in Nat /\ MaxFaults \in Nat /\ MaxRetries \in Nat
      /\ \A j \in Jobs : jobs[j].attempt \in Nat
  BY PublishAssumption DEF SagaInv, Typed, Rows
<1>2. ASSUME UNCHANGED <<jobs, msgs, faults>> PROVE DeliveryInv'
  BY <1>2 DEF DeliveryInv
<1>3. ASSUME NEW j \in Jobs, Request(j) PROVE DeliveryInv'
  <2>1. ASSUME NEW op, NEW post, NEW hash, NEW vis, NEW action,
               CreateJob(j, op, post, hash, vis, action)
        PROVE  DeliveryInv'
    <3> DEFINE row == [NoRow EXCEPT !.op = op, !.state = "SCHEDULED", !.target = post,
                                    !.expected = hash, !.vis = vis, !.action = action]
    <3>1. /\ jobs' = [jobs EXCEPT ![j] = row] /\ jobs[j] = NoRow /\ Enqueue(j) /\ faults' = faults
      BY <2>1 DEF CreateJob
    <3>2. row.attempt = NoRow.attempt
      BY DEF NoRow
    <3> HIDE DEF row
    <3>3. jobs'[j].attempt = jobs[j].attempt /\ \A k \in Jobs : k # j => jobs'[k] = jobs[k]
      BY <1>1, <3>1, <3>2
    <3> QED BY <3>1, <3>3, EnqueuedDelivers
  <2>2. ASSUME CancelPublishJob(j) PROVE DeliveryInv'
    <3>1. /\ jobs' = [jobs EXCEPT ![j].state = "CANCEL_REQUESTED", ![j].cancel = TRUE]
          /\ Enqueue(j) /\ faults' = faults
      BY <2>2 DEF CancelPublishJob
    <3>2. jobs'[j].attempt = jobs[j].attempt /\ \A k \in Jobs : k # j => jobs'[k] = jobs[k]
      BY <1>1, <3>1 DEF Rows
    <3> QED BY <3>1, <3>2, EnqueuedDelivers
  <2>3. ASSUME RetryPublishJob(j) PROVE DeliveryInv'
    <3>1. jobs' = [jobs EXCEPT ![j].state = "SCHEDULED"] /\ Enqueue(j) /\ faults' = faults
      BY <2>3 DEF RetryPublishJob
    <3>2. jobs'[j].attempt = jobs[j].attempt /\ \A k \in Jobs : k # j => jobs'[k] = jobs[k]
      BY <1>1, <3>1 DEF Rows
    <3> QED BY <3>1, <3>2, EnqueuedDelivers
  <2> QED BY <1>3, <2>1, <2>2, <2>3 DEF Request, CreatePublishJob, ChangePublishedPost,
             ReconcilePublishedPost, ScheduleReconciliation
\* The end of a run, or of a delivery that was not run.
<1>4. ASSUME NEW j \in Jobs, NEW r \in 0..MaxRetries, msgs[j][r] > 0,
             Acknowledge(j, r, jobs'[j].state),
             \A k \in Jobs : k # j => jobs'[k] = jobs[k],
             jobs'[j].attempt \in {jobs[j].attempt, jobs[j].attempt + 1},
             jobs'[j].state \notin {"SCHEDULED", "CANCEL_REQUESTED"},
             jobs'[j].state = "RETRYABLE_FAILED" =>
               jobs'[j].attempt = jobs[j].attempt + 1 /\ jobs'[j].attempt < MaxAttempts
      PROVE  DeliveryInv'
  <2> DEFINE a == jobs[j].attempt
             b == jobs'[j].attempt
             state == jobs'[j].state
  <2>1. /\ \A k \in 0..MaxRetries : msgs'[j][k] > 0 =>
             msgs[j][k] > 0 \/ (state = "RETRYABLE_FAILED" /\ k = r + 1)
        /\ state = "RETRYABLE_FAILED" /\ r < MaxRetries =>
             \E k \in {r, r + 1} : k \in 0..MaxRetries /\ msgs'[j][k] > 0
    <3>1. Typed /\ msgs[j][r] > 0 /\ Acknowledge(j, r, state)
      BY <1>1, <1>4
    <3> HIDE DEF state, a, b
    <3> QED BY <3>1, AcknowledgeDelivers
  <2>2. (\A k \in Jobs : k # j => msgs'[k] = msgs[k]) /\ faults' = faults
    BY <1>1, <1>4, AcknowledgeTyped
  <2>3. \A k \in 0..MaxRetries : msgs[j][k] > 0 => k <= a + faults
    BY DEF DeliveryInv, Delivers
  <2>4. /\ a \in Nat /\ b \in {a, a + 1} /\ r \in Nat
        /\ state = "RETRYABLE_FAILED" => b = a + 1 /\ b < MaxAttempts
        /\ state \notin {"SCHEDULED", "CANCEL_REQUESTED"}
    BY <1>1, <1>4
  <2> HIDE DEF a, b, state
  <2>5. r <= a + faults
    BY <1>4, <2>3
  <2>6. \A k \in 0..MaxRetries : msgs'[j][k] > 0 => k <= b + faults
    <3>1. faults \in Nat /\ b \in Nat /\ a <= b
      BY <1>1, <2>4
    <3>2. ASSUME NEW k \in 0..MaxRetries, k <= a + faults PROVE k <= b + faults
      BY <2>4, <3>1, <3>2
    <3>3. state = "RETRYABLE_FAILED" => r + 1 <= b + faults
      BY <2>4, <2>5, <3>1
    <3> QED BY <2>1, <2>3, <3>2, <3>3
  <2>7. state = "RETRYABLE_FAILED" => r < MaxRetries
    BY <1>1, <2>4, <2>5
  <2>8. state \in WaitingStates =>
          \E k \in 0..MaxRetries : msgs'[j][k] > 0 /\ (b < MaxAttempts \/ k <= faults)
    BY <2>1, <2>4, <2>7 DEF WaitingStates
  <2>9. Delivers(jobs'[j], msgs'[j], faults)
    BY <2>6, <2>8 DEF Delivers, b, state
  <2> QED BY <1>4, <2>2, <2>9, OneDelivers
<1>5. ASSUME NEW j \in Jobs, Take(j) PROVE DeliveryInv'
  <2>1. PICK r \in 0..MaxRetries :
          Ignore(j, r) \/ CancelLocalJob(j, r) \/ Start(j, r) \/ RefuseProvider(j, r)
    BY <1>5 DEF Take
  <2>2. CASE Start(j, r)
    BY <1>2, <2>2 DEF Start
  <2>3. CASE Ignore(j, r)
    BY <1>4, <2>3 DEF Ignore, Delivered, Finished
  <2>4. quota \in QuotaRows /\ jobs[j] \in Rows /\ {"CANCELLED", "FINAL_FAILED"} \subseteq JobStates
    BY <1>1, StatesOfJobs DEF SagaInv, QuotaInv, OverStates
  <2>5. CASE CancelLocalJob(j, r)
    <3> DEFINE mid == ReleasedRow(jobs[j], FALSE)
               row == [mid EXCEPT !.state = "CANCELLED", !.attempt = @ + 1]
    <3>1. /\ jobs' = [jobs EXCEPT ![j] = row] /\ Acknowledge(j, r, "CANCELLED") /\ msgs[j][r] > 0
      BY <2>5 DEF CancelLocalJob, Delivered
    <3>2. mid \in Rows /\ mid.attempt = jobs[j].attempt
      <4>1. /\ Reverses(jobs[j], FALSE) \in BOOLEAN /\ Returns(jobs[j]) \in BOOLEAN
            /\ jobs[j].released \in BOOLEAN
        BY <2>4 DEF Reverses, Returns, Rows
      <4> QED BY <2>4, <4>1 DEF ReleasedRow, Rows
    <3> HIDE DEF mid
    <3>3. row.state = "CANCELLED" /\ row.attempt = jobs[j].attempt + 1
      BY <3>2 DEF Rows
    <3> HIDE DEF row
    <3>4. jobs'[j] = row /\ \A k \in Jobs : k # j => jobs'[k] = jobs[k]
      BY <1>1, <3>1
    <3> QED BY <1>4, <3>1, <3>3, <3>4
  <2>6. CASE RefuseProvider(j, r)
    <3> DEFINE row == [ReleasedRow(jobs[j], FALSE) EXCEPT !.state = "FINAL_FAILED"]
    <3>1. /\ jobs' = [jobs EXCEPT ![j] = row] /\ Acknowledge(j, r, "FINAL_FAILED") /\ msgs[j][r] > 0
      BY <2>6 DEF RefuseProvider, Delivered
    <3>2. row.state = "FINAL_FAILED" /\ row.attempt = jobs[j].attempt
      BY <2>4, ReleaseMoves
    <3> HIDE DEF row
    <3>3. jobs'[j] = row /\ \A k \in Jobs : k # j => jobs'[k] = jobs[k]
      BY <1>1, <3>1
    <3> QED BY <1>4, <3>1, <3>2, <3>3
  <2> QED BY <2>1, <2>2, <2>3, <2>5, <2>6
<1>6. ASSUME Call PROVE DeliveryInv'
  <2>1. CASE \E changed : Continue(changed)
    BY <1>2, <2>1 DEF Continue
  <2>2. CASE \E post : Ends(post)
    <3>1. PICK post, row, q : RowEnds(row, q) /\ Commit(row, post, run.bound, q)
      BY <2>2 DEF Ends
    <3>2. run # NoRun
      BY <1>6, CallRuns
    <3>3. run.job \in Jobs /\ run.retries \in 0..MaxRetries
      BY <3>2, RunFacts
    <3>4. msgs[run.job][run.retries] > 0 /\ run.row.attempt = jobs[run.job].attempt + 1
      BY <1>1, <3>2 DEF RunInv
    <3>5. /\ jobs' = [jobs EXCEPT ![run.job] = row] /\ Acknowledge(run.job, run.retries, row.state)
      BY <3>1 DEF Commit
    <3>6. jobs'[run.job] = row /\ \A k \in Jobs : k # run.job => jobs'[k] = jobs[k]
      BY <1>1, <3>3, <3>5
    <3>7. /\ row.attempt = jobs[run.job].attempt + 1
          /\ row.state \notin {"SCHEDULED", "CANCEL_REQUESTED"}
          /\ row.state = "RETRYABLE_FAILED" => row.attempt < MaxAttempts
      BY <3>1, <3>4 DEF RowEnds, OverStates
    <3> QED BY <1>4, <3>3, <3>4, <3>5, <3>6, <3>7
  <2> QED BY <1>6, <2>1, <2>2, CallKinds DEF CallStep
<1>7. ASSUME UnexpectedError PROVE DeliveryInv'
  <2> DEFINE j == run.job
             r == run.retries
             a == jobs[j].attempt
             m == Retried(j, r)
  <2>1. /\ run # NoRun /\ faults < MaxFaults /\ faults' = faults + 1
        /\ msgs' = [msgs EXCEPT ![j] = m] /\ jobs' = jobs
    BY <1>7 DEF UnexpectedError
  <2>2. j \in Jobs /\ r \in 0..MaxRetries /\ msgs[j][r] > 0
    BY <1>1, <2>1, RunFacts DEF RunInv
  <2>3. msgs'[j] = m /\ \A k \in Jobs : k # j => msgs'[k] = msgs[k]
    BY <1>1, <2>1, <2>2
  <2>4. /\ m \in [0..MaxRetries -> Nat]
        /\ r < MaxRetries => m[r + 1] = msgs[j][r + 1] + 1
        /\ \A k \in 0..MaxRetries : k # r /\ k # r + 1 => m[k] = msgs[j][k]
        /\ \A k \in 0..MaxRetries : k # r => m[k] >= msgs[j][k]
    BY <1>1, <2>2, RetriedCounts
  <2>5. /\ a \in Nat /\ \A k \in 0..MaxRetries : msgs[j][k] \in Nat /\ m[k] \in Nat
    BY <1>1, <2>2, <2>4
  <2>6. Delivers(jobs[j], msgs[j], faults)
    BY <2>2 DEF DeliveryInv
  <2> HIDE DEF j, r, m
  <2>7. \A k \in 0..MaxRetries : msgs[j][k] > 0 => k <= a + faults
    BY <2>6 DEF Delivers
  <2>8. jobs[j].state \in WaitingStates =>
          \E k \in 0..MaxRetries : msgs[j][k] > 0 /\ (a < MaxAttempts \/ k <= faults)
    BY <2>6 DEF Delivers
  <2> HIDE DEF a
  <2>9. r <= a + faults /\ r \in Nat
    BY <1>1, <2>2, <2>7
  <2>10. \A k \in 0..MaxRetries : m[k] > 0 => k <= a + (faults + 1)
    <3> SUFFICES ASSUME NEW k \in 0..MaxRetries, m[k] > 0 PROVE k <= a + (faults + 1)
      OBVIOUS
    <3>1. faults \in Nat /\ a \in Nat /\ k \in Nat
      BY <1>1, <2>5
    <3>2. CASE k = r \/ k = r + 1
      BY <2>9, <3>1, <3>2
    <3>3. CASE k # r /\ k # r + 1
      <4>1. msgs[j][k] > 0
        BY <2>4, <3>3
      <4>2. k <= a + faults
        BY <2>7, <4>1
      <4> QED BY <3>1, <4>2
    <3> QED BY <3>2, <3>3
  <2>11. ASSUME jobs[j].state \in WaitingStates
         PROVE  \E k \in 0..MaxRetries : m[k] > 0 /\ (a < MaxAttempts \/ k <= faults + 1)
    <3>1. PICK k \in 0..MaxRetries : msgs[j][k] > 0 /\ (a < MaxAttempts \/ k <= faults)
      BY <2>8, <2>11
    <3>2. CASE k # r
      <4>1. m[k] > 0
        BY <2>4, <2>5, <3>1, <3>2
      <4> QED BY <1>1, <3>1, <4>1
    <3>3. CASE k = r
      <4>1. r < MaxRetries
        <5>1. /\ faults \in Nat /\ a \in Nat /\ MaxAttempts \in Nat \ {0} /\ MaxFaults \in Nat
              /\ MaxRetries \in Nat /\ faults < MaxFaults /\ r \in Nat
          BY <1>1, <2>1, <2>5, <2>9, PublishAssumption
        <5>2. CASE a < MaxAttempts
          BY <2>9, <5>1, <5>2
        <5>3. CASE r <= faults
          BY <5>1, <5>3
        <5> QED BY <3>1, <3>3, <5>2, <5>3
      <4>2. r + 1 \in 0..MaxRetries
        BY <1>1, <2>9, <4>1
      <4>3. m[r + 1] > 0
        BY <2>4, <2>5, <4>1, <4>2
      <4>4. a < MaxAttempts \/ r + 1 <= faults + 1
        BY <1>1, <2>9, <3>1, <3>3
      <4> QED BY <4>2, <4>3, <4>4
    <3> QED BY <3>2, <3>3
  <2>12. Delivers(jobs[j], m, faults + 1)
    BY <2>10, <2>11 DEF Delivers, a
  <2>13. ASSUME NEW k \in Jobs, k # j PROVE Delivers(jobs[k], msgs[k], faults + 1)
    <3> DEFINE c == jobs[k].attempt
    <3>1. Delivers(jobs[k], msgs[k], faults) /\ c \in Nat
      BY <1>1 DEF DeliveryInv
    <3>2. \A i \in 0..MaxRetries : msgs[k][i] > 0 => i <= c + faults
      BY <3>1 DEF Delivers
    <3>3. jobs[k].state \in WaitingStates =>
            \E i \in 0..MaxRetries : msgs[k][i] > 0 /\ (c < MaxAttempts \/ i <= faults)
      BY <3>1 DEF Delivers
    <3> HIDE DEF c
    <3>4. \A i \in 0..MaxRetries : i <= c + faults => i <= c + (faults + 1)
      BY <1>1, <3>1
    <3>5. \A i \in 0..MaxRetries : i <= faults => i <= faults + 1
      BY <1>1
    <3> QED BY <3>2, <3>3, <3>4, <3>5 DEF Delivers, c
  <2> QED BY <2>1, <2>2, <2>3, <2>12, <2>13 DEF DeliveryInv
<1>8. ASSUME WorkerLost \/ (\E p \in Jobs : GoLive(p) \/ EditRemote(p)) \/ UNCHANGED vars
      PROVE  UNCHANGED <<jobs, msgs, faults>>
  BY <1>8 DEF WorkerLost, GoLive, EditRemote, vars
<1> QED BY <1>2, <1>3, <1>5, <1>6, <1>7, <1>8 DEF Next

\* Where the API does not lose the hand-over to the broker and the task may be retried
\* once per attempt and per unexpected error, the day's counters are exact, whatever is
\* over has given back what it held, and no job waits without a delivery
\* (process_publish_job_task, _release_quota).
THEOREM JobsAlwaysAccountedFor ==
  ASSUME ~LossyEnqueue, MaxAttempts + MaxFaults <= MaxRetries + 1
  PROVE  Spec => []JobsAccountedFor
<1>1. ASSUME Init PROVE DeliveryInv
  <2>1. \A j \in Jobs : jobs[j].state = "NONE" /\ \A r \in 0..MaxRetries : msgs[j][r] = 0
    BY <1>1 DEF Init, NoRow
  <2> QED BY <2>1 DEF DeliveryInv, Delivers, WaitingStates
<1>2. ASSUME SagaInv, DeliveryInv PROVE JobsAccountedFor
  <2>1. NoJobForgotten
    BY <1>2 DEF NoJobForgotten, DeliveryInv, Delivers, WaitingStates, Waiting
  <2> QED BY <1>2, <2>1 DEF JobsAccountedFor, SagaInv, QuotaInv
<1>3. SagaInv /\ DeliveryInv /\ [Next]_vars => DeliveryInv'
  BY DeliveryStep
<1> QED BY <1>1, <1>2, <1>3, SagaAlways, PTL DEF Spec
=============================================================================
