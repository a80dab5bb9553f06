---------------------------- MODULE CreditLedger ----------------------------
(***************************************************************************)
(* The credit side of the billing domain (domain/billing/service.py): one  *)
(* workspace's credit account, its dated grants, the maximum-cost holds of *)
(* its jobs with their per-grant allocations, the append-only ledger and   *)
(* the usage records.                                                      *)
(*                                                                         *)
(* Every public method of BillingService runs in one database transaction  *)
(* that locks the account row before it changes a balance, so a call is    *)
(* one action here; HoldSettlement opens that transaction up.  A call that *)
(* raises AppError, trips a unique constraint or is an exact replay writes *)
(* nothing and is a stuttering step.                                       *)
(*                                                                         *)
(* Credit amounts are naturals in the six-decimal ledger unit.             *)
(***************************************************************************)
EXTENDS Integers, FiniteSets, FiniteSetsExt, Functions

CONSTANTS
  Sources,      \* grant sources: (source_type, source_id) of a credit grant
  Keys,         \* hold identities: (subject_type, subject_id, idempotency_key)
  Events,       \* completion and terminal event ids of jobs
  ReversalKeys, \* idempotency keys operators give to reversals
  GrantAmounts, \* amounts a grant may have
  Costs,        \* provider costs a job may be authorized for or report
  UnitSize,     \* price version: cost units per priced unit
  UnitPrice,    \* price version: credits per priced unit
  CeilingUnit,  \* price version: TRUE for CEILING_UNIT, FALSE for PROPORTIONAL
  PriceRetires, \* price version: first instant it is no longer effective
  MaxTime       \* bound on the clock

ASSUME ConstantsOK ==
  /\ GrantAmounts \subseteq Nat \ {0}
  /\ Costs \subseteq Nat \ {0}
  /\ UnitSize \in Nat \ {0}
  /\ UnitPrice \in Nat
  /\ CeilingUnit \in BOOLEAN
  /\ PriceRetires \in Nat
  /\ MaxTime \in Nat

VARIABLES
  account, \* CreditAccount: available_balance and held_balance
  grants,  \* CreditGrant rows by source
  holds,   \* CreditHold rows by identity, with their allocation rows
  ledger,  \* CreditLedgerEntry rows
  usage,   \* UsageRecord: source_event_id -> credit_amount, None if absent
  now      \* the clock behind every datetime.now(UTC)

vars == <<account, grants, holds, ledger, usage, now>>

None == -1
NoExpiry == MaxTime + 1
NoEvent == "no event"

\* The tables of one workspace are finite, and no event has the name of none.
ASSUME TablesFinite ==
  IsFiniteSet(Sources) /\ IsFiniteSet(Keys) /\ IsFiniteSet(Events) /\ NoEvent \notin Events

\* A grant row is identified by its unique (source_type, source_id): an
\* outside source, or the consume entry of an event that was reversed.
OutsideGrants == {[type |-> "SOURCE", id |-> s] : s \in Sources}
ReversalGrant(ev) == [type |-> "LEDGER_REVERSAL", id |-> ev]
GrantIds == OutsideGrants \cup {ReversalGrant(ev) : ev \in Events}

NoGrant == [exists |-> FALSE, original |-> 0, available |-> 0, held |-> 0,
            expires |-> NoExpiry, rank |-> 0]
NoAllocation == [g \in GrantIds |-> 0]
NoHold == [state |-> "ABSENT", maximum |-> 0, actual |-> None,
           event |-> NoEvent,
           allocated |-> NoAllocation, consumed |-> NoAllocation]

-----------------------------------------------------------------------------
(***************************************************************************)
(* Pricing: price_credit_amount converts a provider cost to credits,       *)
(* rounding up at the scale of the ledger.                                 *)
(***************************************************************************)
CeilDiv(a, b) == (a + b - 1) \div b

PriceCreditAmount(cost) ==
  IF CeilingUnit THEN CeilDiv(cost, UnitSize) * UnitPrice
                 ELSE CeilDiv(cost * UnitPrice, UnitSize)

PriceEffective == now < PriceRetires

\* Deviation: grants in granting order, whatever their expiry.
PrecedesIgnoringExpiry(g, h) == grants[g].rank < grants[h].rank

(***************************************************************************)
(* ORDER BY expires_at ASC NULLS LAST, granted_at, id.  The rank of a      *)
(* grant is its place in granting order.                                   *)
(***************************************************************************)
Precedes(g, h) ==
  \/ grants[g].expires < grants[h].expires
  \/ /\ grants[g].expires = grants[h].expires
     /\ grants[g].rank < grants[h].rank

UsableGrants ==
  {g \in GrantIds : /\ grants[g].exists
                    /\ grants[g].available > 0
                    /\ grants[g].expires > now}

\* The loops of create_hold and finalize_hold: walk rows in grant order and
\* take from each the smaller of what it offers and what is still missing.
TakeInOrder(offer, rows, amount) ==
  [g \in GrantIds |->
     IF g \notin rows THEN 0
     ELSE LET before == {h \in rows : Precedes(h, g)} IN
          Min({offer[g], Max({0, amount - SumFunctionOnSet(offer, before)})})]

\* A row of the ledger.  key is the idempotency_key, unique per workspace.
Entry(key, kind, id, amount, dAvailable, dHeld, reverses) ==
  [key |-> key, kind |-> kind, id |-> id, amount |-> amount,
   dAvailable |-> dAvailable, dHeld |-> dHeld, reverses |-> reverses]

EntryKeys == {e.key : e \in ledger}

-----------------------------------------------------------------------------
Init ==
  /\ account = [available |-> 0, held |-> 0]
  /\ grants = [g \in GrantIds |-> NoGrant]
  /\ holds = [k \in Keys |-> NoHold]
  /\ ledger = {}
  /\ usage = [ev \in Events |-> None]
  /\ now = 0

\* A new CreditGrant row, the last one granted so far.
NewGrant(amount, expires) ==
  [exists |-> TRUE, original |-> amount, available |-> amount, held |-> 0,
   expires |-> expires,
   rank |-> Cardinality({g \in GrantIds : grants[g].exists}) + 1]

GrantCredits(s, amount, expires) ==
  LET g == [type |-> "SOURCE", id |-> s] IN
  /\ ~grants[g].exists
  /\ expires > now
  /\ grants' = [grants EXCEPT ![g] = NewGrant(amount, expires)]
  /\ account' = [account EXCEPT !.available = @ + amount]
  /\ ledger' = ledger \cup
       {Entry(<<"grant", s>>, "GRANT", s, amount, amount, 0, <<>>)}
  /\ UNCHANGED <<holds, usage, now>>

\* create_hold: the account must cover the maximum and so must the grants
\* that have not expired, which the account's balance does not tell.
CreateHold(k, maximum) ==
  /\ holds[k].state = "ABSENT"
  /\ PriceEffective
  /\ maximum > 0
  /\ account.available >= maximum
  /\ LET offer == [g \in GrantIds |-> grants[g].available]
         taken == TakeInOrder(offer, UsableGrants, maximum)
     IN /\ SumFunctionOnSet(offer, UsableGrants) >= maximum
        /\ grants' = [g \in GrantIds |->
                        [grants[g] EXCEPT !.available = @ - taken[g],
                                          !.held = @ + taken[g]]]
        /\ holds' = [holds EXCEPT ![k] =
                       [NoHold EXCEPT !.state = "HELD", !.maximum = maximum,
                                      !.allocated = taken]]
  /\ account' = [available |-> account.available - maximum,
                 held |-> account.held + maximum]
  /\ ledger' = ledger \cup
       {Entry(<<"hold", k>>, "HOLD", k, maximum, -maximum, maximum, <<>>)}
  /\ UNCHANGED <<usage, now>>

\* _BillingJobBudgetAdapter._reserve: hold the credits of the maximum cost.
Reserve(k, maximumCost) == CreateHold(k, PriceCreditAmount(maximumCost))

\* The event id is unique over the holds of the workspace, and so are the
\* ledger keys derived from it.
EventUnused(ev) == \A k \in Keys : holds[k].event # ev

\* Deviation: any hold that exists may be settled.
SettleableAgain(k) == holds[k].state # "ABSENT"

\* finalize_hold_amounts and release_hold accept an open hold only; the same
\* event on a settled hold is a replay, another one an error.
Settleable(k) == holds[k].state = "HELD"

\* Deviation: what is not consumed is not returned to an expired grant.
SettleGrantsUnexpired(k, consumed) ==
  grants' = [g \in GrantIds |->
               [grants[g] EXCEPT
                  !.held = @ - holds[k].allocated[g],
                  !.available = @ + IF grants[g].expires > now
                                    THEN holds[k].allocated[g] - consumed[g]
                                    ELSE 0]]

\* Give every allocation of hold k back to its grant, less what was consumed.
SettleGrants(k, consumed) ==
  grants' = [g \in GrantIds |->
               [grants[g] EXCEPT
                  !.held = @ - holds[k].allocated[g],
                  !.available = @ + holds[k].allocated[g] - consumed[g]]]

\* The released amount of a row is what was allocated less what was consumed;
\* the failure class only decides between replay and conflict.
SettledHold(k, state, actual, ev, consumed) ==
  [holds[k] EXCEPT !.state = state, !.actual = actual, !.event = ev,
                   !.consumed = consumed]

\* What finalize_hold appends: a consume row and a release row, each only if
\* its amount is positive.
SettlementEntries(k, ev, actual, released) ==
  {e \in {Entry(<<"consume", ev>>, "CONSUME", k, actual, 0, -actual, <<>>),
          Entry(<<"release", ev>>, "RELEASE", k, released,
                released, -released, <<>>)} : e.amount > 0}

FinalizeHold(k, actual, ev) ==
  /\ Settleable(k)
  /\ actual <= holds[k].maximum
  /\ EventUnused(ev)
  /\ LET released == holds[k].maximum - actual
         rows == {g \in GrantIds : holds[k].allocated[g] > 0}
         consumed == TakeInOrder(holds[k].allocated, rows, actual)
     IN /\ SumFunctionOnSet(consumed, rows) = actual
        /\ account' = [available |-> account.available + released,
                       held |-> account.held - holds[k].maximum]
        /\ SettleGrants(k, consumed)
        /\ holds' = [holds EXCEPT ![k] =
                       SettledHold(k, "FINALIZED", actual, ev, consumed)]
        /\ ledger' = ledger \cup SettlementEntries(k, ev, actual, released)
  /\ UNCHANGED now

\* Credit-hold API: the caller states the actual credits.
FinalizeByApi(k, actual, ev) ==
  /\ FinalizeHold(k, actual, ev)
  /\ UNCHANGED usage

\* _BillingJobBudgetAdapter._finalize: record the usage of the event at the
\* pinned price, then finalize with the credits of that record.  A failed
\* job that has spent money takes this path too.
FinalizeJob(k, actualCost, ev) ==
  LET credits == PriceCreditAmount(actualCost) IN
  /\ usage[ev] = None
  /\ PriceEffective
  /\ usage' = [usage EXCEPT ![ev] = credits]
  /\ FinalizeHold(k, credits, ev)

ReleaseHold(k, ev) ==
  /\ Settleable(k)
  /\ EventUnused(ev)
  /\ account' = [available |-> account.available + holds[k].maximum,
                 held |-> account.held - holds[k].maximum]
  /\ SettleGrants(k, NoAllocation)
  /\ holds' = [holds EXCEPT ![k] =
                 SettledHold(k, "RELEASED", 0, ev, NoAllocation)]
  /\ ledger' = ledger \cup
       {Entry(<<"release", ev>>, "RELEASE", k, holds[k].maximum,
              holds[k].maximum, -holds[k].maximum, <<>>)}
  /\ UNCHANGED <<usage, now>>

\* Checked under the lock of the original row, and backed by the unique
\* constraints on reversal_of_id and on the source of the new grant.
NotReversed(original) == \A e \in ledger : e.reverses # original.key

ReverseCreditDebit(original, key, expires) ==
  LET g == ReversalGrant(original.key[2]) IN
  /\ NotReversed(original)
  /\ original.kind = "CONSUME"
  /\ expires > now
  /\ <<"reversal", key>> \notin EntryKeys
  /\ grants' = [grants EXCEPT ![g] = NewGrant(original.amount, expires)]
  /\ account' = [account EXCEPT !.available = @ + original.amount]
  /\ ledger' = ledger \cup
       {Entry(<<"reversal", key>>, "REVERSAL", original.id,
              original.amount, original.amount, 0, original.key)}
  /\ UNCHANGED <<holds, usage, now>>

Tick == /\ now < MaxTime
        /\ now' = now + 1
        /\ UNCHANGED <<account, grants, holds, ledger, usage>>

Next ==
  \/ \E s \in Sources, a \in GrantAmounts, t \in 1..NoExpiry : GrantCredits(s, a, t)
  \/ \E k \in Keys, c \in Costs : Reserve(k, c)
  \/ \E k \in Keys, ev \in Events :
       \/ \E a \in 0..holds[k].maximum : FinalizeByApi(k, a, ev)
       \/ \E c \in Costs : FinalizeJob(k, c, ev)
       \/ ReleaseHold(k, ev)
  \/ \E e \in ledger, key \in ReversalKeys, t \in 1..NoExpiry :
       ReverseCreditDebit(e, key, t)
  \/ Tick

Spec == Init /\ [][Next]_vars

-----------------------------------------------------------------------------
\* The shape of the rows.
TypeOK ==
  /\ account \in [available : Nat, held : Nat]
  /\ \A g \in GrantIds :
       grants[g] \in [exists : BOOLEAN, original : Nat, available : Nat,
                      held : Nat, expires : 1..NoExpiry,
                      rank : 0..Cardinality(GrantIds)]
  /\ \A k \in Keys :
       /\ holds[k].state \in {"ABSENT", "HELD", "FINALIZED", "RELEASED"}
       /\ holds[k].maximum \in Nat
       /\ holds[k].actual \in 0..holds[k].maximum \cup {None}
       /\ holds[k].event \in Events \cup {NoEvent}
       /\ \A g \in GrantIds :
            holds[k].allocated[g] \in Nat /\ holds[k].consumed[g] \in Nat
  /\ \A ev \in Events : usage[ev] \in Nat \cup {None}
  /\ now \in 0..MaxTime

\* The account row and the grant rows, which every operation updates
\* separately, always tell the same available and held balance.
BalancesMatchGrants ==
  /\ account.available = SumFunction([g \in GrantIds |-> grants[g].available])
  /\ account.held = SumFunction([g \in GrantIds |-> grants[g].held])

\* Credits on hold in a grant are exactly the allocations of the holds that
\* are still open, and the allocations of a hold add up to its maximum, so
\* no settled or vanished hold keeps credits locked.
HeldIsBackedByOpenHolds ==
  /\ \A g \in GrantIds :
       grants[g].held =
         SumFunction([k \in {x \in Keys : holds[x].state = "HELD"} |->
                        holds[k].allocated[g]])
  /\ \A k \in Keys :
       holds[k].maximum = SumFunctionOnSet(holds[k].allocated, GrantIds)

\* No credit is created or lost: what a grant was issued with is what it
\* has, what is on hold and what holds consumed from it.
CreditsConserved ==
  \A g \in GrantIds :
    grants[g].original = grants[g].available + grants[g].held
                         + SumFunction([k \in Keys |-> holds[k].consumed[g]])

\* The append-only ledger alone reproduces both balances of the account.
LedgerExplainsBalances ==
  /\ account.available = SumFunction([e \in ledger |-> e.dAvailable])
  /\ account.held = SumFunction([e \in ledger |-> e.dHeld])

\* Refunds never exceed debits: over any run of reversals with different
\* keys, the credits given back for an entry are at most its amount.
RefundNeverExceedsDebit ==
  \A d \in {e \in ledger : e.kind = "CONSUME"} :
    d.amount >= SumFunction([e \in {x \in ledger : x.reverses = d.key} |-> e.amount])

\* What a job is charged is the usage that was recorded for its completion
\* event: no usage record without its debit and no different amount.
UsageMatchesDebit ==
  \A ev \in Events :
    usage[ev] # None =>
      \E k \in Keys : /\ holds[k].state = "FINALIZED"
                      /\ holds[k].event = ev
                      /\ holds[k].actual = usage[ev]

\* The books are one consistent set: account, grants, holds, allocations, the
\* append-only ledger and the usage records, which the service's operations
\* update one by one, tell the same story, and no credit is made, lost or refunded twice.
BooksConsistent ==
  /\ TypeOK
  /\ BalancesMatchGrants
  /\ HeldIsBackedByOpenHolds
  /\ CreditsConserved
  /\ LedgerExplainsBalances
  /\ RefundNeverExceedsDebit
  /\ UsageMatchesDebit

\* A settled hold keeps its outcome and a ledger row stays as it was posted,
\* whatever events arrive later.
SettlementIsFinal ==
  [][ /\ \A k \in Keys : holds[k].state \in {"FINALIZED", "RELEASED"}
                           => holds'[k] = holds[k]
      /\ ledger \subseteq ledger' ]_vars

\* A hold takes from a grant only after every usable grant that expires
\* earlier is exhausted (create_hold orders grants by expires_at).
SoonestExpiryFirst ==
  [][ \A g, h \in GrantIds :
        (/\ grants'[g].held > grants[g].held
         /\ grants[h].exists /\ now < grants[h].expires
         /\ grants[h].expires < grants[g].expires)
          => grants'[h].available = 0 ]_vars
=============================================================================
