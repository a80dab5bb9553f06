------------------------ MODULE HoldSettlementProofs ------------------------
(***************************************************************************)
(* Proofs about HoldSettlement, for any number of holds, workers, events   *)
(* and calls: the inductive invariant, the safety properties it implies    *)
(* and the implementation of HoldLifecycle.                                *)
(***************************************************************************)
EXTENDS HoldSettlement, TLAPS

\* The parts of the invariant that only read committed rows.
CommittedOK == /\ VersionsOK
               /\ SettledAtMostOnce
               /\ BooksBalance
               /\ UsageIsCharged

\* The functions the session variables are.
SessionTypes ==
  /\ pc \in [Workers -> PCs]
  /\ req \in [Workers -> Requests \cup {NoRequest}]
  /\ seen \in [Workers -> HoldRows]
  /\ books \in [Workers -> [available : Int, held : Int]]

LockTypes ==
  /\ holdLock \in [Holds -> Workers \cup {NoWorker}]
  /\ accountLock \in Workers \cup {NoWorker}
  /\ usageLock \in [Events -> Workers \cup {NoWorker}]

DatabaseTypes ==
  /\ hold \in [Holds -> HoldRows]
  /\ \A h \in Holds : hold[h].charged <= Maximum[h]
  /\ account \in [available : Int, held : Int]
  /\ spent \in Nat
  /\ posted \in [Holds -> Nat]
  /\ usage \in [Events -> Nat \cup {None}]

\* TypeOK, cut along the lines a step writes.
LEMMA TypeParts == TypeOK <=> SessionTypes /\ LockTypes /\ DatabaseTypes
BY DEF TypeOK, SessionTypes, LockTypes, DatabaseTypes

\* A call has the fields of a settlement call.
LEMMA RequestFields ==
  ASSUME NEW r \in Requests
  PROVE  /\ r.hold \in Holds
         /\ r.event \in Events
         /\ r.amount \in Nat
         /\ r.kind \in {"finalize", "release"}
         /\ r.path \in {"job", "api"}
BY RequestsAssumption

\* A step that writes no row keeps what is said of the committed rows.
LEMMA DatabaseUnchanged ==
  ASSUME CommittedOK, DatabaseTypes, UNCHANGED database
  PROVE  CommittedOK' /\ DatabaseTypes'
BY DEF CommittedOK, VersionsOK, SettledAtMostOnce, BooksBalance, UsageIsCharged,
       database, DatabaseTypes

\* A session is not disturbed by a step of another one that writes no row and
\* takes none of its locks.
LEMMA OtherSession ==
  ASSUME NEW v, SessionOK(v),
         UNCHANGED <<hold, account>>,
         pc'[v] = pc[v], req'[v] = req[v], seen'[v] = seen[v], books'[v] = books[v],
         req[v] \in Requests /\ holdLock[req[v].hold] = v
           => holdLock'[req[v].hold] = v,
         accountLock = v => accountLock' = v
  PROVE  SessionOK(v)'
BY DEF SessionOK, HasRead, MaySettle

\* The end of a transaction leaves an idle session and its locks free.
LEMMA EndTypes ==
  ASSUME SessionTypes, LockTypes, NEW w \in Workers, End(w)
  PROVE  SessionTypes' /\ LockTypes'
<1>1. SessionTypes'
  BY DEF SessionTypes, End, HoldRows, HeldRow, PCs
<1>2. LockTypes'
  BY DEF LockTypes, End, Unlocked
<1> QED BY <1>1, <1>2

LEMMA EndSessions ==
  ASSUME SessionTypes, LockTypes, NEW w \in Workers, End(w),
         SessionsOK, UNCHANGED <<hold, account>>
  PROVE  SessionsOK'
<1> SUFFICES ASSUME NEW v \in Workers PROVE SessionOK(v)'
  BY DEF SessionsOK
<1>1. CASE v = w
  <2>1. pc'[v] = "idle"
    BY <1>1 DEF SessionTypes, End
  <2> QED BY <2>1 DEF SessionOK, HasRead
<1>2. CASE v # w
  <2>1. /\ pc'[v] = pc[v] /\ req'[v] = req[v] /\ seen'[v] = seen[v]
        /\ books'[v] = books[v]
    BY <1>2 DEF SessionTypes, End
  <2>2. accountLock = v => accountLock' = v
    BY <1>2 DEF End
  <2>3. req[v] \in Requests /\ holdLock[req[v].hold] = v
          => holdLock'[req[v].hold] = v
    BY <1>2, RequestFields DEF End, Unlocked, LockTypes
  <2> QED BY <2>1, <2>2, <2>3, OtherSession DEF SessionsOK
<1> QED BY <1>1, <1>2

LEMMA EndUsageLocks ==
  ASSUME SessionTypes, LockTypes, NEW w \in Workers, End(w), UsageLocksOK
  PROVE  UsageLocksOK'
<1> SUFFICES ASSUME NEW ev \in Events, NEW v \in Workers, usageLock'[ev] = v
             PROVE  /\ pc'[v] \notin {"idle", "usage"}
                    /\ req'[v].event = ev
                    /\ req'[v].kind = "finalize"
  BY DEF UsageLocksOK
<1>1. v # w /\ usageLock[ev] = v
  BY NoWorkerAssumption DEF End, Unlocked, LockTypes
<1>2. pc'[v] = pc[v] /\ req'[v] = req[v]
  BY <1>1 DEF End, SessionTypes
<1> QED BY <1>1, <1>2 DEF UsageLocksOK

\* A rollback keeps the invariant: it only drops locks and a session.
LEMMA RollbackKeeps ==
  ASSUME SettlementInv, NEW w \in Workers, Rollback(w)
  PROVE  SettlementInv'
<1>1. SessionTypes /\ LockTypes /\ DatabaseTypes
  BY TypeParts DEF SettlementInv
<1>2. UNCHANGED <<hold, account>>
  BY DEF Rollback, database
<1>3. CommittedOK' /\ DatabaseTypes'
  BY <1>1, DatabaseUnchanged DEF Rollback, CommittedOK, SettlementInv
<1>4. SessionTypes' /\ LockTypes'
  BY <1>1, EndTypes DEF Rollback
<1>5. SessionsOK'
  BY <1>1, <1>2, EndSessions DEF Rollback, SettlementInv
<1>6. UsageLocksOK'
  BY <1>1, EndUsageLocks DEF Rollback, SettlementInv
<1>7. TypeOK'
  BY <1>3, <1>4 DEF TypeOK, SessionTypes, LockTypes, DatabaseTypes
<1> QED BY <1>3, <1>5, <1>6, <1>7 DEF SettlementInv, CommittedOK

\* What a step has to show when it writes no row and goes on.
LEMMA StepKeeps ==
  ASSUME SettlementInv, NEW w \in Workers, UNCHANGED database,
         SessionTypes', LockTypes', SessionOK(w)', UsageLocksOK',
         \A v \in Workers \ {w} :
           /\ pc'[v] = pc[v] /\ req'[v] = req[v] /\ seen'[v] = seen[v]
           /\ books'[v] = books[v]
           /\ req[v] \in Requests /\ holdLock[req[v].hold] = v
                => holdLock'[req[v].hold] = v
           /\ accountLock = v => accountLock' = v
  PROVE  SettlementInv'
<1>1. CommittedOK' /\ DatabaseTypes'
  BY TypeParts, DatabaseUnchanged DEF CommittedOK, SettlementInv
<1>2. UNCHANGED <<hold, account>>
  BY DEF database
<1>3. SessionsOK'
  <2> SUFFICES ASSUME NEW v \in Workers \ {w} PROVE SessionOK(v)'
    BY DEF SessionsOK
  <2> QED BY <1>2, OtherSession DEF SessionsOK, SettlementInv
<1>4. TypeOK'
  BY <1>1 DEF TypeOK, SessionTypes, LockTypes, DatabaseTypes
<1> QED BY <1>1, <1>3, <1>4 DEF SettlementInv, CommittedOK

LEMMA BeginKeeps ==
  ASSUME SettlementInv, NEW w \in Workers, NEW r \in Requests, Begin(w, r)
  PROVE  SettlementInv'
<1>1. SessionTypes /\ LockTypes /\ DatabaseTypes
  BY TypeParts DEF SettlementInv
<1>2. hold[r.hold] \in HoldRows
  BY <1>1, RequestFields DEF DatabaseTypes
<1>3. SessionTypes'
  BY <1>1, <1>2 DEF SessionTypes, Begin, PCs
<1>4. LockTypes'
  BY <1>1 DEF LockTypes, Begin, locks
<1>5. SessionOK(w)'
  BY <1>1, RequestFields DEF SessionTypes, SessionOK, Begin, HasRead, database
<1>6. UsageLocksOK'
  BY <1>1 DEF SessionTypes, UsageLocksOK, SettlementInv, Begin, locks
<1> QED BY <1>1, <1>3, <1>4, <1>5, <1>6, StepKeeps DEF Begin, SessionTypes, locks

LEMMA RecordUsageKeeps ==
  ASSUME SettlementInv, NEW w \in Workers, RecordUsage(w)
  PROVE  SettlementInv'
<1> DEFINE ev == req[w].event
<1>1. SessionTypes /\ LockTypes /\ DatabaseTypes
  BY TypeParts DEF SettlementInv
<1>2. req[w] \in Requests /\ req[w].kind = "finalize" /\ req[w].path = "job"
  BY DEF SessionsOK, SessionOK, SettlementInv, RecordUsage
<1>3. CASE usage[ev] \notin {None, req[w].amount}
  BY <1>3, RollbackKeeps DEF RecordUsage
<1>4. CASE usage[ev] \in {None, req[w].amount}
  <2>1. /\ pc' = [pc EXCEPT ![w] = "lock"]
        /\ UNCHANGED <<database, holdLock, accountLock, req, seen, books>>
        /\ \/ UNCHANGED usageLock
           \/ usageLock' = [usageLock EXCEPT ![ev] = w]
    BY <1>4 DEF RecordUsage, locks
  <2>2. SessionTypes'
    BY <1>1, <2>1 DEF SessionTypes, PCs
  <2>3. LockTypes'
    BY <1>1, <2>1 DEF LockTypes
  <2>4. SessionOK(w)'
    BY <1>1, <1>2, <2>1
       DEF SessionTypes, SessionsOK, SessionOK, SettlementInv, HasRead, RecordUsage, database
  <2>5. UsageLocksOK'
    BY <1>1, <1>2, <2>1 DEF SessionTypes, LockTypes, UsageLocksOK, SettlementInv
  <2> QED BY <1>1, <2>1, <2>2, <2>3, <2>4, <2>5, StepKeeps DEF SessionTypes
<1> QED BY <1>3, <1>4

LEMMA LockHoldKeeps ==
  ASSUME SettlementInv, NEW w \in Workers, LockHold(w)
  PROVE  SettlementInv'
<1>1. SessionTypes /\ LockTypes /\ DatabaseTypes
  BY TypeParts DEF SettlementInv
<1>2. req[w] \in Requests
  BY DEF SessionsOK, SessionOK, SettlementInv, LockHold
<1>3. req[w].hold \in Holds /\ hold[req[w].hold] \in HoldRows
  BY <1>1, <1>2, RequestFields DEF DatabaseTypes
<1>4. SessionTypes'
  BY <1>1, <1>3 DEF SessionTypes, LockHold, PCs
<1>5. LockTypes'
  BY <1>1 DEF LockTypes, LockHold
<1>6. SessionOK(w)'
  BY <1>1, <1>2, <1>3, RequestFields
     DEF SessionTypes, LockTypes, SessionsOK, SessionOK, SettlementInv, LockHold,
         HasRead, database
<1>7. UsageLocksOK'
  BY <1>1 DEF SessionTypes, UsageLocksOK, SettlementInv, LockHold
<1>8. \A v \in Workers \ {w} : req[v] \in Requests /\ holdLock[req[v].hold] = v
                                => holdLock'[req[v].hold] = v
  BY <1>1, <1>3, NoWorkerAssumption, RequestFields DEF LockTypes, LockHold
<1> QED BY <1>1, <1>4, <1>5, <1>6, <1>7, <1>8, StepKeeps DEF SessionTypes, LockHold

LEMMA LockAccountKeeps ==
  ASSUME SettlementInv, NEW w \in Workers, LockAccount(w)
  PROVE  SettlementInv'
<1>1. SessionTypes /\ LockTypes /\ DatabaseTypes
  BY TypeParts DEF SettlementInv
<1>2. SessionTypes'
  BY <1>1 DEF SessionTypes, DatabaseTypes, LockAccount, PCs
<1>3. LockTypes'
  BY <1>1 DEF LockTypes, LockAccount
<1>4. SessionOK(w)'
  BY <1>1 DEF SessionTypes, SessionsOK, SessionOK, SettlementInv, LockAccount,
              HasRead, MaySettle, database
<1>5. UsageLocksOK'
  BY <1>1 DEF SessionTypes, UsageLocksOK, SettlementInv, LockAccount
<1> QED BY <1>1, <1>2, <1>3, <1>4, <1>5, NoWorkerAssumption, StepKeeps
        DEF SessionTypes, LockAccount

\* The version check: a session that decided to settle saw version 1, so a row
\* that still has that version is still open.
LEMMA FlushKeeps ==
  ASSUME SettlementInv, NEW w \in Workers, Flush(w)
  PROVE  SettlementInv'
<1>1. SessionTypes /\ LockTypes /\ DatabaseTypes
  BY TypeParts DEF SettlementInv
<1>2. CASE VersionMatches(w) /\ EventFree(w)
  <2>1. /\ pc[w] = "flush" /\ pc' = [pc EXCEPT ![w] = "commit"]
        /\ UNCHANGED <<database, locks, req, seen, books>>
    BY <1>2 DEF Flush
  <2>2. /\ req[w].hold \in Holds
        /\ seen[w].state = "HELD"
        /\ seen[w] \in {HeldRow, hold[req[w].hold]}
    BY <2>1, RequestFields DEF SessionsOK, SessionOK, SettlementInv, HasRead, MaySettle
  <2>3. hold[req[w].hold] = HeldRow
    BY <1>2, <2>2 DEF VersionsOK, SettlementInv, VersionMatches, HeldRow
  <2>4. SessionTypes'
    BY <1>1, <2>1 DEF SessionTypes, PCs
  <2>5. LockTypes'
    BY <1>1, <2>1 DEF LockTypes, locks
  <2>6. SessionOK(w)'
    BY <1>1, <2>1, <2>3
       DEF SessionTypes, SessionsOK, SessionOK, SettlementInv, HasRead, MaySettle,
           database, locks
  <2>7. UsageLocksOK'
    BY <1>1, <2>1 DEF SessionTypes, UsageLocksOK, SettlementInv, locks
  <2> QED BY <1>1, <2>1, <2>4, <2>5, <2>6, <2>7, StepKeeps DEF SessionTypes, locks
<1>3. CASE ~(VersionMatches(w) /\ EventFree(w))
  BY <1>3, RollbackKeeps DEF Flush
<1> QED BY <1>2, <1>3

\* A replay may publish the usage row its transaction inserted: the settled
\* hold it replays carries the same event and the same charge.
LEMMA ReplayKeeps ==
  ASSUME SettlementInv, NEW w \in Workers, pc[w] = "decide",
         ~MaySettle(w), IsReplay(w), End(w), usage' = CommittedUsage(w),
         UNCHANGED <<hold, account, spent, posted>>
  PROVE  SettlementInv'
<1>1. SessionTypes /\ LockTypes /\ DatabaseTypes
  BY TypeParts DEF SettlementInv
<1>2. req[w] \in Requests /\ seen[w] = hold[req[w].hold]
  BY DEF SessionsOK, SessionOK, SettlementInv, HasRead, IsReplay, HeldRow
<1>3. DatabaseTypes'
  BY <1>1, <1>2, RequestFields DEF DatabaseTypes, CommittedUsage
<1>4. TypeOK'
  BY <1>1, <1>3, EndTypes DEF TypeOK, SessionTypes, LockTypes, DatabaseTypes
<1>5. VersionsOK' /\ SettledAtMostOnce' /\ BooksBalance'
  BY DEF SettlementInv, VersionsOK, SettledAtMostOnce, BooksBalance
<1>6. UsageIsCharged'
  <2> SUFFICES ASSUME NEW ev \in Events, usage'[ev] # None
               PROVE  \E h \in Holds : hold[h].event = ev /\ hold[h].charged = usage'[ev]
    BY DEF UsageIsCharged
  <2>1. CASE usageLock[ev] = w
    <3>1. req[w].event = ev /\ req[w].kind = "finalize"
      BY <2>1 DEF UsageLocksOK, SettlementInv
    <3> QED BY <1>2, <2>1, <3>1, RequestFields DEF CommittedUsage, IsReplay
  <2>2. CASE usageLock[ev] # w
    BY <2>2 DEF CommittedUsage, UsageIsCharged, SettlementInv
  <2> QED BY <2>1, <2>2
<1>7. SessionsOK'
  BY <1>1, EndSessions DEF SettlementInv
<1>8. UsageLocksOK'
  BY <1>1, EndUsageLocks DEF SettlementInv
<1> QED BY <1>4, <1>5, <1>6, <1>7, <1>8 DEF SettlementInv

LEMMA DecideKeeps ==
  ASSUME SettlementInv, NEW w \in Workers, Decide(w)
  PROVE  SettlementInv'
<1>1. SessionTypes /\ LockTypes /\ DatabaseTypes
  BY TypeParts DEF SettlementInv
<1>2. CASE MaySettle(w)
  <2>1. /\ pc[w] = "decide" /\ pc' = [pc EXCEPT ![w] = "account"]
        /\ UNCHANGED <<database, locks, req, seen, books>>
    BY <1>2 DEF Decide
  <2>2. SessionTypes'
    BY <1>1, <2>1 DEF SessionTypes, PCs
  <2>3. LockTypes'
    BY <1>1, <2>1 DEF LockTypes, locks
  <2>4. SessionOK(w)'
    BY <1>1, <1>2, <2>1
       DEF SessionTypes, SessionsOK, SessionOK, SettlementInv, HasRead, MaySettle,
           database, locks
  <2>5. UsageLocksOK'
    BY <1>1, <2>1 DEF SessionTypes, UsageLocksOK, SettlementInv, locks
  <2> QED BY <1>1, <2>1, <2>2, <2>3, <2>4, <2>5, StepKeeps DEF SessionTypes, locks
<1>3. CASE ~MaySettle(w) /\ IsReplay(w)
  BY <1>3, ReplayKeeps DEF Decide
<1>4. CASE ~MaySettle(w) /\ ~IsReplay(w)
  BY <1>4, RollbackKeeps DEF Decide
<1> QED BY <1>2, <1>3, <1>4

\* The commit settles an open row: its transaction holds both locks, so no
\* other session is between its own version check and its commit.
LEMMA CommitKeeps ==
  ASSUME SettlementInv, NEW w \in Workers, Commit(w)
  PROVE  SettlementInv'
<1> DEFINE h == req[w].hold
<1>1. SessionTypes /\ LockTypes /\ DatabaseTypes
  BY TypeParts DEF SettlementInv
<1>2. /\ req[w] \in Requests
      /\ hold[h] = HeldRow
      /\ holdLock[h] = w
      /\ accountLock = w
      /\ books[w] = account
      /\ seen[w] = HeldRow
      /\ req[w].kind = "finalize" => req[w].amount <= Maximum[h]
  BY DEF Commit, SessionsOK, SessionOK, SettlementInv, HasRead, MaySettle
<1>3. h \in Holds /\ req[w].event \in Events /\ req[w].amount \in Nat
  BY <1>2, RequestFields
<1>4. Maximum[h] \in Nat /\ Charge(w) \in 0..Maximum[h]
  BY <1>2, <1>3, MaximumAssumption DEF Charge
<1> DEFINE row == [state |-> IF req[w].kind = "finalize" THEN "FINALIZED" ELSE "RELEASED",
                   version |-> 2, event |-> req[w].event, charged |-> Charge(w)]
<1>5. hold' = [hold EXCEPT ![h] = row]
  BY <1>2 DEF Commit, HeldRow
<1>6. row \in HoldRows
  BY <1>3, <1>4 DEF HoldRows
<1>7. DatabaseTypes'
  <2>1. hold' \in [Holds -> HoldRows] /\ \A g \in Holds : hold'[g].charged <= Maximum[g]
    BY <1>1, <1>3, <1>4, <1>5, <1>6 DEF DatabaseTypes
  <2>2. account' \in [available : Int, held : Int] /\ spent' \in Nat
    BY <1>1, <1>2, <1>4 DEF DatabaseTypes, Commit
  <2>3. posted' \in [Holds -> Nat] /\ usage' \in [Events -> Nat \cup {None}]
    BY <1>1, <1>3 DEF DatabaseTypes, Commit, CommittedUsage
  <2> QED BY <2>1, <2>2, <2>3 DEF DatabaseTypes
<1>8. TypeOK'
  BY <1>1, <1>7, EndTypes DEF Commit, TypeOK, SessionTypes, LockTypes, DatabaseTypes
<1>9. VersionsOK'
  BY <1>1, <1>3, <1>5 DEF VersionsOK, SettlementInv, DatabaseTypes
<1>10. SettledAtMostOnce'
  BY <1>1, <1>2, <1>3, <1>5
     DEF SettledAtMostOnce, SettlementInv, DatabaseTypes, Commit, HeldRow
<1>11. BooksBalance'
  BY <1>1, <1>2, <1>4, FundsAssumption
     DEF BooksBalance, SettlementInv, DatabaseTypes, Commit
<1>12. UsageIsCharged'
  <2> SUFFICES ASSUME NEW ev \in Events, usage'[ev] # None
               PROVE  \E g \in Holds : hold'[g].event = ev /\ hold'[g].charged = usage'[ev]
    BY DEF UsageIsCharged
  <2>1. CASE usageLock[ev] = w
    <3>1. req[w].event = ev /\ Charge(w) = req[w].amount
      BY <2>1 DEF UsageLocksOK, SettlementInv, Charge
    <3>2. usage'[ev] = req[w].amount
      BY <2>1 DEF Commit, CommittedUsage
    <3>3. hold'[h] = row
      BY <1>1, <1>3, <1>5 DEF DatabaseTypes
    <3> QED BY <1>3, <3>1, <3>2, <3>3
  <2>2. CASE usageLock[ev] # w
    <3>1. usage'[ev] = usage[ev]
      BY <2>2 DEF Commit, CommittedUsage
    <3>2. PICK g \in Holds : hold[g].event = ev /\ hold[g].charged = usage[ev]
      BY <3>1 DEF UsageIsCharged, SettlementInv
    <3>3. g # h
      BY <1>2, <3>2, NoEventAssumption DEF HeldRow
    <3> QED BY <1>1, <1>5, <3>1, <3>2, <3>3 DEF DatabaseTypes
  <2> QED BY <2>1, <2>2
<1>13. SessionsOK'
  <2> SUFFICES ASSUME NEW v \in Workers PROVE SessionOK(v)'
    BY DEF SessionsOK
  <2>1. CASE v = w
    <3>1. pc'[v] = "idle"
      BY <1>1, <2>1 DEF SessionTypes, Commit, End
    <3> QED BY <3>1 DEF SessionOK, HasRead
  <2>2. CASE v # w
    <3>1. /\ pc'[v] = pc[v] /\ req'[v] = req[v] /\ seen'[v] = seen[v]
          /\ books'[v] = books[v]
      BY <1>1, <2>2 DEF SessionTypes, Commit, End
    <3>2. SessionOK(v) /\ pc[v] \notin {"flush", "commit"}
      BY <1>2, <2>2 DEF SessionsOK, SessionOK, SettlementInv
    <3>3. CASE req[v] \in Requests
      <4>1. req[v].hold \in Holds
        BY <3>3, RequestFields
      <4>2. holdLock[req[v].hold] = v => holdLock'[req[v].hold] = v
        BY <1>1, <2>2, <4>1 DEF Commit, End, Unlocked, LockTypes
      <4>3. HasRead(v) => seen[v] \in {HeldRow, hold'[req[v].hold]}
        BY <1>1, <1>2, <1>5, <3>2, <4>1 DEF SessionOK, DatabaseTypes
      <4> QED BY <3>1, <3>2, <3>3, <4>2, <4>3 DEF SessionOK, HasRead, MaySettle
    <3>4. CASE req[v] \notin Requests
      BY <3>1, <3>2, <3>4 DEF SessionOK, SessionTypes, PCs, HasRead
    <3> QED BY <3>3, <3>4
  <2> QED BY <2>1, <2>2
<1>14. UsageLocksOK'
  BY <1>1, EndUsageLocks DEF SettlementInv, Commit
<1> QED BY <1>8, <1>9, <1>10, <1>11, <1>12, <1>13, <1>14 DEF SettlementInv

-----------------------------------------------------------------------------
LEMMA InitInv == Init => SettlementInv
<1> SUFFICES ASSUME Init PROVE SettlementInv
  OBVIOUS
<1>1. TypeOK
  BY MaximumAssumption, FundsAssumption DEF Init, TypeOK, HoldRows, HeldRow, PCs
<1>2. VersionsOK /\ SettledAtMostOnce /\ UsageIsCharged
  BY DEF Init, VersionsOK, SettledAtMostOnce, UsageIsCharged, HeldRow
<1>3. BooksBalance
  BY FundsAssumption DEF Init, BooksBalance
<1>4. SessionsOK
  BY DEF Init, SessionsOK, SessionOK, HasRead
<1>5. UsageLocksOK
  BY NoWorkerAssumption DEF Init, UsageLocksOK
<1> QED BY <1>1, <1>2, <1>3, <1>4, <1>5 DEF SettlementInv

LEMMA StutterKeeps ==
  ASSUME SettlementInv, UNCHANGED vars
  PROVE  SettlementInv'
<1>1. TypeOK' /\ VersionsOK' /\ SettledAtMostOnce' /\ BooksBalance' /\ UsageIsCharged'
  BY DEF SettlementInv, vars, TypeOK, VersionsOK, SettledAtMostOnce, BooksBalance,
         UsageIsCharged
<1>2. SessionsOK' /\ UsageLocksOK'
  BY DEF SettlementInv, vars, SessionsOK, SessionOK, HasRead, MaySettle, UsageLocksOK
<1> QED BY <1>1, <1>2 DEF SettlementInv

LEMMA NextInv == SettlementInv /\ [Next]_vars => SettlementInv'
<1> SUFFICES ASSUME SettlementInv, [Next]_vars PROVE SettlementInv'
  OBVIOUS
<1>1. CASE UNCHANGED vars
  BY <1>1, StutterKeeps
<1>2. CASE Next
  <2> PICK w \in Workers : \/ \E r \in Requests : Begin(w, r)
                           \/ Step(w)
                           \/ Crash(w)
    BY <1>2 DEF Next
  <2>1. ASSUME NEW r \in Requests, Begin(w, r) PROVE SettlementInv'
    BY <2>1, BeginKeeps
  <2>2. CASE RecordUsage(w)
    BY <2>2, RecordUsageKeeps
  <2>3. CASE LockHold(w)
    BY <2>3, LockHoldKeeps
  <2>4. CASE Decide(w)
    BY <2>4, DecideKeeps
  <2>5. CASE LockAccount(w)
    BY <2>5, LockAccountKeeps
  <2>6. CASE Flush(w)
    BY <2>6, FlushKeeps
  <2>7. CASE Commit(w)
    BY <2>7, CommitKeeps
  <2>8. CASE Crash(w)
    BY <2>8, RollbackKeeps DEF Crash
  <2> QED BY <2>1, <2>2, <2>3, <2>4, <2>5, <2>6, <2>7, <2>8 DEF Step
<1> QED BY <1>1, <1>2

\* The inductive invariant holds in every reachable state of the settlement
\* transactions (billing/service.py finalize_hold, release_hold).
THEOREM Invariance == Spec => []SettlementInv
BY InitInv, NextInv, PTL DEF Spec

\* Rows keep their shape and no hold is charged above its maximum_amount.
THEOREM TypeCorrect == Spec => []TypeOK
<1>1. SettlementInv => TypeOK
  BY DEF SettlementInv
<1> QED BY <1>1, Invariance, PTL

\* A hold is settled at most once, whatever stale copy a worker's session
\* decided on.
THEOREM ExactlyOnce == Spec => []SettledAtMostOnce
<1>1. SettlementInv => SettledAtMostOnce
  BY DEF SettlementInv
<1> QED BY <1>1, Invariance, PTL

\* No settlement loses another one's update of the account row.
THEOREM NoLostUpdate == Spec => []BooksBalance
<1>1. SettlementInv => BooksBalance
  BY DEF SettlementInv
<1> QED BY <1>1, Invariance, PTL

\* Committed usage is always the charge of the hold its event settled.
THEOREM UsageCharged == Spec => []UsageIsCharged
<1>1. SettlementInv => UsageIsCharged
  BY DEF SettlementInv
<1> QED BY <1>1, Invariance, PTL

-----------------------------------------------------------------------------
\* Only a commit changes what HoldLifecycle sees.
LEMMA QuietStep ==
  ASSUME UNCHANGED hold
  PROVE  [Lifecycle!Next]_<<[h \in Holds |-> hold[h].state],
                            [h \in Holds |-> hold[h].charged]>>
OBVIOUS

LEMMA CommitStep ==
  ASSUME SettlementInv, NEW w \in Workers, Commit(w)
  PROVE  Lifecycle!Next
<1>1. SessionTypes /\ LockTypes /\ DatabaseTypes
  BY TypeParts DEF SettlementInv
<1>0. req[w] \in Requests
  BY DEF Commit, SessionsOK, SessionOK, SettlementInv
<1> PICK h \in Holds, a \in Nat : h = req[w].hold /\ a = req[w].amount
  BY <1>0, RequestFields
<1>2. /\ hold[h] = HeldRow
      /\ req[w].kind = "finalize" => a <= Maximum[h]
  BY DEF Commit, SessionsOK, SessionOK, SettlementInv, MaySettle
<1>3. req[w].kind \in {"finalize", "release"}
  BY <1>0, RequestFields
<1>4. Maximum[h] \in Nat
  BY MaximumAssumption
<1>5. hold[h].state = "HELD" /\ hold[h].charged = 0
  BY <1>2 DEF HeldRow
<1>6. \A g \in Holds \ {h} : hold'[g] = hold[g]
  BY <1>1, <1>3 DEF Commit, DatabaseTypes
<1>7. CASE req[w].kind = "finalize"
  <2>1. hold'[h].state = "FINALIZED" /\ hold'[h].charged = a
    BY <1>1, <1>3, <1>7 DEF Commit, DatabaseTypes, Charge
  <2>2. a \in 0..Maximum[h]
    BY <1>2, <1>3, <1>4, <1>7
  <2>3. Lifecycle!Finalize(h, a)
    BY <1>3, <1>5, <1>6, <2>1 DEF Lifecycle!Finalize
  <2> QED BY <1>3, <2>2, <2>3 DEF Lifecycle!Next
<1>8. CASE req[w].kind = "release"
  <2>1. hold'[h].state = "RELEASED" /\ hold'[h].charged = 0
    BY <1>1, <1>3, <1>8 DEF Commit, DatabaseTypes, Charge
  <2>2. Lifecycle!Release(h)
    BY <1>3, <1>5, <1>6, <2>1 DEF Lifecycle!Release
  <2> QED BY <1>3, <2>2 DEF Lifecycle!Next
<1> QED BY <1>3, <1>7, <1>8

\* The interleaved settlement transactions implement the lifecycle a hold is
\* promised: every step is one Finalize or Release of an open hold, or none.
THEOREM Implementation == Spec => ImplementsLifecycle
<1> DEFINE lvars == <<[h \in Holds |-> hold[h].state], [h \in Holds |-> hold[h].charged]>>
<1>1. Init => Lifecycle!Init
  BY DEF Init, Lifecycle!Init, HeldRow
<1>2. SettlementInv /\ [Next]_vars => [Lifecycle!Next]_lvars
  <2> SUFFICES ASSUME SettlementInv, [Next]_vars PROVE [Lifecycle!Next]_lvars
    OBVIOUS
  <2>1. CASE \E w \in Workers : Commit(w)
    BY <2>1, CommitStep
  <2>2. CASE ~\E w \in Workers : Commit(w)
    <3>1. UNCHANGED hold
      BY <2>2 DEF Next, Step, vars, Begin, RecordUsage, LockHold, Decide, LockAccount,
                  Flush, Crash, Rollback, database
    <3> QED BY <3>1, QuietStep
  <2> QED BY <2>1, <2>2
<1> QED BY <1>1, <1>2, Invariance, PTL DEF Spec, ImplementsLifecycle, Lifecycle!Spec
=============================================================================
