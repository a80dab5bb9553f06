--------------------------- MODULE HoldSettlement ---------------------------
(***************************************************************************)
(* The settlement of credit holds as the database sees it: workers and API *)
(* requests run finalize_hold and release_hold in transactions that        *)
(* interleave, die and are delivered again.                                *)
(*                                                                         *)
(* A worker comes through _BillingJobBudgetAdapter, which reads the hold   *)
(* with get_hold before finalize_hold or release_hold locks its row.  The  *)
(* locking SELECT does not refresh an object the session already holds, so *)
(* the worker decides on the row it read first; an API request reads the   *)
(* row for the first time under the lock.  What stands between a stale     *)
(* decision and a second settlement is the version column of CreditHold,   *)
(* compared when the UPDATE is flushed.                                    *)
(*                                                                         *)
(* Isolation is READ COMMITTED: a row lock is held to the end of the       *)
(* transaction, a read sees what is committed, and a rollback leaves       *)
(* nothing.  A unique key that an open transaction has inserted makes the  *)
(* next inserter wait (usageLock).                                         *)
(***************************************************************************)
EXTENDS Integers

CONSTANTS
  Holds,      \* the holds of one credit account
  Maximum,    \* maximum_amount of each hold
  Workers,    \* concurrent transactions
  Events,     \* settlement event ids
  Requests,   \* settlement calls that may arrive, any number of times
  StartFunds, \* available_balance when the holds have been taken
  StartHeld,  \* held_balance then
  NoWorker,   \* no transaction
  NoRequest   \* no call

ASSUME MaximumAssumption == Maximum \in [Holds -> Nat \ {0}]
ASSUME FundsAssumption == StartFunds \in Nat /\ StartHeld \in Nat
ASSUME RequestsAssumption ==
  Requests \subseteq [hold : Holds, path : {"job", "api"},
                      kind : {"finalize", "release"},
                      event : Events, amount : Nat]
ASSUME NoWorkerAssumption == NoWorker \notin Workers
ASSUME NoRequestAssumption == NoRequest \notin Requests

VARIABLES
  hold,        \* committed CreditHold rows
  account,     \* committed CreditAccount row
  spent,       \* committed CONSUME postings, added up
  posted,      \* settlements the ledger shows for each hold
  usage,       \* committed UsageRecord of an event, or None
  holdLock,    \* who holds each hold row's lock
  accountLock, \* who holds the account row's lock
  usageLock,   \* who has an uncommitted usage row of an event
  pc,          \* where each transaction stands
  req,         \* the call it serves
  seen,        \* the hold as its session knows it
  books        \* the account as its session knows it

database == <<hold, account, spent, posted, usage>>
locks == <<holdLock, accountLock, usageLock>>
vars == <<hold, account, spent, posted, usage, holdLock, accountLock, usageLock,
          pc, req, seen, books>>

None == -1
NoEvent == "no event"

ASSUME NoEventAssumption == NoEvent \notin Events

HeldRow == [state |-> "HELD", version |-> 1, event |-> NoEvent, charged |-> 0]

Init ==
  /\ hold = [h \in Holds |-> HeldRow]
  /\ account = [available |-> StartFunds, held |-> StartHeld]
  /\ spent = 0
  /\ posted = [h \in Holds |-> 0]
  /\ usage = [ev \in Events |-> None]
  /\ holdLock = [h \in Holds |-> NoWorker]
  /\ accountLock = NoWorker
  /\ usageLock = [ev \in Events |-> NoWorker]
  /\ pc = [w \in Workers |-> "idle"]
  /\ req = [w \in Workers |-> NoRequest]
  /\ seen = [w \in Workers |-> HeldRow]
  /\ books = [w \in Workers |-> [available |-> 0, held |-> 0]]

-----------------------------------------------------------------------------
\* The end of a transaction, committed or not: every lock is dropped.
Unlocked(lock, w) == [x \in DOMAIN lock |-> IF lock[x] = w THEN NoWorker ELSE lock[x]]

\* Deviation: the session goes back to the pool with its transaction open.
EndLeavesOpen(w) ==
  /\ pc' = [pc EXCEPT ![w] = "idle"]
  /\ req' = [req EXCEPT ![w] = NoRequest]
  /\ UNCHANGED <<locks, seen, books>>

End(w) ==
  /\ holdLock' = Unlocked(holdLock, w)
  /\ usageLock' = Unlocked(usageLock, w)
  /\ accountLock' = IF accountLock = w THEN NoWorker ELSE accountLock
  /\ pc' = [pc EXCEPT ![w] = "idle"]
  /\ req' = [req EXCEPT ![w] = NoRequest]
  /\ seen' = [seen EXCEPT ![w] = HeldRow]
  /\ books' = [books EXCEPT ![w] = [available |-> 0, held |-> 0]]

\* A usage row this transaction inserted becomes visible with its commit.
CommittedUsage(w) ==
  [ev \in Events |-> IF usageLock[ev] = w THEN req[w].amount ELSE usage[ev]]

\* Deviation: usage is committed even if the settlement that follows fails.
RollbackButUsage(w) ==
  End(w) /\ usage' = CommittedUsage(w) /\ UNCHANGED <<hold, account, spent, posted>>

Rollback(w) == End(w) /\ UNCHANGED database

\* get_hold by a job's adapter; an API request goes straight to the lock.
Begin(w, r) ==
  /\ pc[w] = "idle"
  /\ req' = [req EXCEPT ![w] = r]
  /\ \/ /\ r.path = "job"
        /\ seen' = [seen EXCEPT ![w] = hold[r.hold]]
        /\ pc' = [pc EXCEPT ![w] =
             IF r.kind = "finalize" /\ r.amount > 0 THEN "usage" ELSE "lock"]
     \/ /\ r.path = "api"
        /\ pc' = [pc EXCEPT ![w] = "lock"]
        /\ UNCHANGED seen
  /\ UNCHANGED <<database, locks, books>>

\* record_usage: an existing record of the event is reused if it is the same;
\* otherwise the row is inserted, after any transaction that is inserting it.
RecordUsage(w) ==
  LET ev == req[w].event IN
  /\ pc[w] = "usage"
  /\ usageLock[ev] = NoWorker
  /\ \/ /\ usage[ev] = None
        /\ usageLock' = [usageLock EXCEPT ![ev] = w]
        /\ pc' = [pc EXCEPT ![w] = "lock"]
        /\ UNCHANGED <<database, holdLock, accountLock, req, seen, books>>
     \/ /\ usage[ev] = req[w].amount
        /\ pc' = [pc EXCEPT ![w] = "lock"]
        /\ UNCHANGED <<database, locks, req, seen, books>>
     \/ /\ usage[ev] \notin {None, req[w].amount}
        /\ Rollback(w)

\* SELECT ... FOR UPDATE of the hold: waits for the lock, and refreshes only a
\* session that had not read the hold yet.
LockHold(w) ==
  LET h == req[w].hold IN
  /\ pc[w] = "lock"
  /\ holdLock[h] = NoWorker
  /\ holdLock' = [holdLock EXCEPT ![h] = w]
  /\ seen' = [seen EXCEPT ![w] = IF req[w].path = "api" THEN hold[h] ELSE @]
  /\ pc' = [pc EXCEPT ![w] = "decide"]
  /\ UNCHANGED <<database, accountLock, usageLock, req, books>>

\* Deviation: the actual amount is not compared with the hold.
MaySettleAnyAmount(w) == seen[w].state = "HELD"

\* finalize_hold_amounts and the state checks of release_hold, on the row the
\* session knows.
MaySettle(w) ==
  /\ seen[w].state = "HELD"
  /\ req[w].kind = "finalize" => req[w].amount <= Maximum[req[w].hold]

\* The failure class that finalize_hold compares as well is part of the event here:
\* whoever repeats an event repeats its class.
IsReplay(w) ==
  /\ seen[w].event = req[w].event
  /\ \/ /\ req[w].kind = "finalize"
        /\ seen[w].state = "FINALIZED"
        /\ seen[w].charged = req[w].amount
     \/ /\ req[w].kind = "release"
        /\ seen[w].state = "RELEASED"

Decide(w) ==
  /\ pc[w] = "decide"
  /\ \/ /\ MaySettle(w)
        /\ pc' = [pc EXCEPT ![w] = "account"]
        /\ UNCHANGED <<database, locks, req, seen, books>>
     \/ /\ ~MaySettle(w) /\ IsReplay(w)
        /\ usage' = CommittedUsage(w)
        /\ End(w)
        /\ UNCHANGED <<hold, account, spent, posted>>
     \/ /\ ~MaySettle(w) /\ ~IsReplay(w)
        /\ Rollback(w)

\* Deviation: the account is read without waiting for its lock.
LockAccountNoWait(w) ==
  /\ pc[w] = "account"
  /\ books' = [books EXCEPT ![w] = account]
  /\ pc' = [pc EXCEPT ![w] = "flush"]
  /\ UNCHANGED <<database, locks, req, seen>>

\* _account(for_update=True): the first read of the account, under its lock.
LockAccount(w) ==
  /\ pc[w] = "account"
  /\ accountLock = NoWorker
  /\ accountLock' = w
  /\ books' = [books EXCEPT ![w] = account]
  /\ pc' = [pc EXCEPT ![w] = "flush"]
  /\ UNCHANGED <<database, holdLock, usageLock, req, seen>>

\* Deviation: the UPDATE names the row only.
VersionIgnored(w) == TRUE

\* UPDATE ... WHERE lock_version = the version the session read.
VersionMatches(w) == hold[req[w].hold].version = seen[w].version

\* billing_credit_finalize_once: one hold per event.
EventFree(w) ==
  \A h \in Holds \ {req[w].hold} : hold[h].event # req[w].event

\* A failed flush raises StaleDataError or IntegrityError; either rolls back.
Flush(w) ==
  /\ pc[w] = "flush"
  /\ \/ /\ VersionMatches(w) /\ EventFree(w)
        /\ pc' = [pc EXCEPT ![w] = "commit"]
        /\ UNCHANGED <<database, locks, req, seen, books>>
     \/ /\ ~(VersionMatches(w) /\ EventFree(w))
        /\ Rollback(w)

Charge(w) == IF req[w].kind = "finalize" THEN req[w].amount ELSE 0

Commit(w) ==
  LET h == req[w].hold IN
  /\ pc[w] = "commit"
  /\ hold' = [hold EXCEPT ![h] =
       [state |-> IF req[w].kind = "finalize" THEN "FINALIZED" ELSE "RELEASED",
        version |-> seen[w].version + 1,
        event |-> req[w].event, charged |-> Charge(w)]]
  /\ account' = [available |-> books[w].available + Maximum[h] - Charge(w),
                 held |-> books[w].held - Maximum[h]]
  /\ spent' = spent + Charge(w)
  /\ posted' = [posted EXCEPT ![h] = @ + 1]
  /\ usage' = CommittedUsage(w)
  /\ End(w)

\* The worker is lost or the connection drops; the message is not
\* acknowledged and may be delivered again.
Crash(w) == pc[w] # "idle" /\ Rollback(w)

Step(w) == \/ RecordUsage(w)
           \/ LockHold(w)
           \/ Decide(w)
           \/ LockAccount(w)
           \/ Flush(w)
           \/ Commit(w)

Next == \E w \in Workers : \/ \E r \in Requests : Begin(w, r)
                           \/ Step(w)
                           \/ Crash(w)

Spec == Init /\ [][Next]_vars

\* A transaction that is not killed goes on, and PostgreSQL grants a row lock
\* to its waiters in turn.  Nothing makes a call arrive or a worker die.
Fairness == \A w \in Workers : SF_vars(Step(w))

FairSpec == Spec /\ Fairness

-----------------------------------------------------------------------------
HoldRows == [state : {"HELD", "FINALIZED", "RELEASED"}, version : Nat,
             event : Events \cup {NoEvent}, charged : Nat]

PCs == {"idle", "usage", "lock", "decide", "account", "flush", "commit"}

\* The shape of the rows, a hold never being charged above its maximum.
TypeOK ==
  /\ hold \in [Holds -> HoldRows]
  /\ \A h \in Holds : hold[h].charged <= Maximum[h]
  /\ account \in [available : Int, held : Int]
  /\ spent \in Nat
  /\ posted \in [Holds -> Nat]
  /\ usage \in [Events -> Nat \cup {None}]
  /\ holdLock \in [Holds -> Workers \cup {NoWorker}]
  /\ accountLock \in Workers \cup {NoWorker}
  /\ usageLock \in [Events -> Workers \cup {NoWorker}]
  /\ pc \in [Workers -> PCs]
  /\ req \in [Workers -> Requests \cup {NoRequest}]
  /\ seen \in [Workers -> HoldRows]
  /\ books \in [Workers -> [available : Int, held : Int]]

\* However many workers and requests settle a hold, and however stale the row
\* they decided on, the ledger shows one settlement for a settled hold and
\* none for an open one ("the same completion event delivered again does not
\* debit twice", functional specification 39.8).
SettledAtMostOnce ==
  \A h \in Holds : posted[h] = IF hold[h].state = "HELD" THEN 0 ELSE 1

\* No settlement overwrites another one's change of the balances: what the
\* account had at the start is available, held or spent.
BooksBalance ==
  account.available + account.held + spent = StartFunds + StartHeld

\* A committed usage record is the charge of a hold its event settled, so no
\* usage outlives a settlement that rolled back.
UsageIsCharged ==
  \A ev \in Events :
    usage[ev] # None =>
      \E h \in Holds : hold[h].event = ev /\ hold[h].charged = usage[ev]

\* No two transactions wait for each other: each one that starts also ends.
TransactionsEnd == \A w \in Workers : pc[w] # "idle" ~> pc[w] = "idle"

\* A session that has read its hold read it as it was first or as it is now:
\* a settled row never changes again.
HasRead(w) == \/ pc[w] \in {"decide", "account", "flush", "commit"}
              \/ pc[w] \in {"usage", "lock"} /\ req[w].path = "job"

\* What a transaction may rely on while it runs; the strengthening that makes
\* the invariants above inductive.
SessionOK(w) ==
  /\ pc[w] # "idle" => req[w] \in Requests
  /\ pc[w] = "usage" => req[w].kind = "finalize" /\ req[w].path = "job"
  /\ HasRead(w) => seen[w] \in {HeldRow, hold[req[w].hold]}
  /\ pc[w] \in {"decide", "account", "flush", "commit"}
       => holdLock[req[w].hold] = w
  /\ pc[w] \in {"account", "flush", "commit"} => MaySettle(w)
  /\ pc[w] \in {"flush", "commit"} => accountLock = w /\ books[w] = account
  /\ pc[w] = "commit" => hold[req[w].hold] = HeldRow

SessionsOK == \A w \in Workers : SessionOK(w)

\* The version column tells an open row from a settled one.
VersionsOK ==
  \A h \in Holds : \/ hold[h] = HeldRow
                   \/ hold[h].state # "HELD" /\ hold[h].version = 2

\* An uncommitted usage row belongs to the finalization that inserted it.
UsageLocksOK ==
  \A ev \in Events, w \in Workers :
    usageLock[ev] = w => /\ pc[w] \notin {"idle", "usage"}
                         /\ req[w].event = ev
                         /\ req[w].kind = "finalize"

\* The inductive invariant behind the three safety properties.
SettlementInv == /\ TypeOK
                 /\ VersionsOK
                 /\ SessionsOK
                 /\ UsageLocksOK
                 /\ SettledAtMostOnce
                 /\ BooksBalance
                 /\ UsageIsCharged

Lifecycle == INSTANCE HoldLifecycle WITH
  outcome <- [h \in Holds |-> hold[h].state],
  charged <- [h \in Holds |-> hold[h].charged]

\* The interleaved transactions implement the promise of HoldLifecycle.
ImplementsLifecycle == Lifecycle!Spec
=============================================================================
