------------------------- MODULE CreditLedgerProofs -------------------------
(***************************************************************************)
(* Proofs about the credit side of billing: the books are consistent for   *)
(* any number of grants, holds and events, settlements are final, and a    *)
(* hold takes from the grants that expire first.                           *)
(***************************************************************************)
EXTENDS CreditLedger, FiniteSums, TLAPS

GrantRows ==
  [exists : BOOLEAN, original : Nat, available : Nat, held : Nat, expires : 1..NoExpiry, rank : Nat]

Amounts == [GrantIds -> Nat]

HoldRows ==
  [state : {"ABSENT", "HELD", "FINALIZED", "RELEASED"}, maximum : Nat, actual : Nat \cup {None},
   event : Events \cup {NoEvent}, allocated : Amounts, consumed : Amounts]

Existing == {g \in GrantIds : grants[g].exists}

Typed ==
  /\ account \in [available : Nat, held : Nat]
  /\ grants \in [GrantIds -> GrantRows]
  /\ holds \in [Keys -> HoldRows]
  /\ usage \in [Events -> Nat \cup {None}]
  /\ now \in 0..MaxTime

\* A grant that does not exist has nothing; the ranks of the others are distinct.
GrantsInv ==
  /\ \A g \in GrantIds : ~grants[g].exists => grants[g] = NoGrant
  /\ \A g \in Existing : grants[g].rank \in 1..Cardinality(Existing)
  /\ \A g, h \in Existing : grants[g].rank = grants[h].rank => g = h

\* An open hold has consumed nothing and has no event; a settled one has.
HoldsInv ==
  \A k \in Keys :
    /\ holds[k].state = "ABSENT" => holds[k] = NoHold
    /\ holds[k].state = "HELD" => holds[k].event = NoEvent /\ holds[k].consumed = NoAllocation
    /\ holds[k].state \in {"FINALIZED", "RELEASED"} => holds[k].event \in Events
    /\ holds[k].actual \in 0..holds[k].maximum \cup {None}

\* Every entry of the ledger belongs to the row it was posted for: so what is
\* posted next is a new entry, and a debit is reversed at most once.
EntryOK(e) ==
  /\ e.amount \in Nat /\ e.dAvailable \in Int /\ e.dHeld \in Int
  /\ e.kind = "GRANT" => e.id \in Sources /\ grants[[type |-> "SOURCE", id |-> e.id]].exists
  /\ e.kind = "HOLD" => e.id \in Keys /\ holds[e.id].state # "ABSENT"
  /\ e.kind = "CONSUME" => \E ev \in Events : e.key = <<"consume", ev>> /\ ~EventUnused(ev)
  /\ e.kind = "RELEASE" => \E ev \in Events : e.key = <<"release", ev>> /\ ~EventUnused(ev)
  /\ e.kind # "REVERSAL" => e.reverses = <<>>
  /\ e.kind = "REVERSAL" =>
       \E d \in ledger : d.kind = "CONSUME" /\ d.key = e.reverses /\ d.amount = e.amount

SameConsume(d, e) == d.kind = "CONSUME" /\ e.kind = "CONSUME" /\ d.key = e.key
SameReversal(d, e) == d.kind = "REVERSAL" /\ e.kind = "REVERSAL" /\ d.reverses = e.reverses

LedgerInv ==
  /\ IsFiniteSet(ledger)
  /\ \A e \in ledger : EntryOK(e)
  /\ \A d, e \in ledger : SameConsume(d, e) \/ SameReversal(d, e) => d = e
  /\ \A ev \in Events : grants[ReversalGrant(ev)].exists =>
       \E e \in ledger : e.kind = "REVERSAL" /\ e.reverses = <<"consume", ev>>

BooksInv ==
  /\ Typed /\ GrantsInv /\ HoldsInv /\ LedgerInv
  /\ BalancesMatchGrants /\ HeldIsBackedByOpenHolds /\ CreditsConserved
  /\ LedgerExplainsBalances /\ UsageMatchesDebit

-----------------------------------------------------------------------------
(* The rows, the price, and taking in order.                               *)

LEMMA GrantIdsFinite == IsFiniteSet(GrantIds)
<1> DEFINE T == {[type |-> "SOURCE", id |-> s] : s \in Sources}
           U == {[type |-> "LEDGER_REVERSAL", id |-> ev] : ev \in Events}
           f == [s \in Sources |-> [type |-> "SOURCE", id |-> s]]
           g == [ev \in Events |-> [type |-> "LEDGER_REVERSAL", id |-> ev]]
<1>1. f \in Surjection(Sources, T) /\ g \in Surjection(Events, U)
  BY DEF Surjection
<1>2. IsFiniteSet(T) /\ IsFiniteSet(U)
  <2> HIDE DEF T, U, f, g
  <2> QED BY <1>1, TablesFinite, FS_Surjection
<1>3. IsFiniteSet(T \cup U)
  <2> HIDE DEF T, U
  <2> QED BY <1>2, FS_Union
<1> QED BY <1>3 DEF GrantIds, OutsideGrants, ReversalGrant

LEMMA SmallerOf ==
  ASSUME NEW a \in Int, NEW b \in Int
  PROVE  /\ Min({a, b}) = IF a <= b THEN a ELSE b
         /\ Max({a, b}) = IF a >= b THEN a ELSE b
<1>1. \E x \in {a, b} : \A y \in {a, b} : x =< y
  OBVIOUS
<1>2. Min({a, b}) \in {a, b} /\ \A y \in {a, b} : Min({a, b}) =< y
  BY <1>1 DEF Min
<1>3. \E x \in {a, b} : \A y \in {a, b} : x >= y
  OBVIOUS
<1>4. Max({a, b}) \in {a, b} /\ \A y \in {a, b} : Max({a, b}) >= y
  BY <1>3 DEF Max
<1> DEFINE lo == Min({a, b})
           hi == Max({a, b})
<1>5. lo \in {a, b} /\ lo <= a /\ lo <= b /\ hi \in {a, b} /\ hi >= a /\ hi >= b
  BY <1>2, <1>4
<1> HIDE DEF lo, hi
<1>6. lo = (IF a <= b THEN a ELSE b) /\ hi = (IF a >= b THEN a ELSE b)
  BY <1>5
<1> QED BY <1>6 DEF lo, hi

\* The price of a cost is a number of credits.
LEMMA PriceType ==
  ASSUME NEW cost \in Costs PROVE PriceCreditAmount(cost) \in Nat
<1>1. cost \in Nat /\ UnitSize \in Nat /\ UnitSize > 0 /\ UnitPrice \in Nat
  BY ConstantsOK
<1>2. ASSUME NEW a \in Nat, NEW b \in Nat, b > 0 PROVE CeilDiv(a, b) \in Nat
  <2>1. a + b - 1 \in Nat
    BY <1>2
  <2>2. \A n \in Nat : n \div b \in Nat
    BY <1>2
  <2> QED BY <2>1, <2>2 DEF CeilDiv
<1>3. cost * UnitPrice \in Nat
  BY <1>1
<1>4. CeilDiv(cost, UnitSize) \in Nat /\ CeilDiv(cost * UnitPrice, UnitSize) \in Nat
  BY <1>1, <1>2, <1>3
<1>5. CeilDiv(cost, UnitSize) * UnitPrice \in Nat
  <2> DEFINE c == CeilDiv(cost, UnitSize)
  <2>1. c \in Nat /\ UnitPrice \in Nat
    BY <1>1, <1>4
  <2> HIDE DEF c
  <2>2. c * UnitPrice \in Nat
    BY <2>1
  <2> QED BY <2>2 DEF c
<1> QED BY <1>4, <1>5 DEF PriceCreditAmount

\* Grants have one order, by expiry and then by the order they were granted in.
LEMMA OrderIsTotal ==
  ASSUME Typed, GrantsInv
  PROVE  /\ \A g \in Existing : ~Precedes(g, g)
         /\ \A g, h \in Existing : g # h => Precedes(g, h) \/ Precedes(h, g)
         /\ \A g, h \in Existing : ~(Precedes(g, h) /\ Precedes(h, g))
         /\ \A g, h, i \in Existing : Precedes(g, h) /\ Precedes(h, i) => Precedes(g, i)
<1>1. \A g \in Existing : grants[g].expires \in Int /\ grants[g].rank \in Int
  BY ConstantsOK DEF Typed, Existing, GrantRows, NoExpiry
<1>2. \A g, h \in Existing : grants[g].rank = grants[h].rank => g = h
  BY DEF GrantsInv
<1> QED BY <1>1, <1>2 DEF Precedes

\* Of some grants one comes last.
LEMMA LastGrant ==
  ASSUME Typed, GrantsInv, NEW rows, rows \subseteq Existing, rows # {}
  PROVE  \E last \in rows : \A g \in rows : g # last => Precedes(g, last)
<1> DEFINE Good(R) == R = {} \/ \E last \in R : \A g \in R : g # last => Precedes(g, last)
           Bad == {R \in SUBSET rows : ~Good(R)}
<1>1. SUFFICES ASSUME Bad # {} PROVE FALSE
  OBVIOUS
<1>2. \A R \in Bad : IsFiniteSet(R)
  BY GrantIdsFinite, FS_Subset DEF Existing
<1>3. PICK R \in Bad : \A t \in Bad : ~(Cardinality(t) < Cardinality(R))
  <2> HIDE DEF Bad
  <2> QED BY <1>1, <1>2, SmallestSet
<1>4. R \in SUBSET rows /\ IsFiniteSet(R) /\ ~Good(R)
  BY <1>2, <1>3
<1>5. PICK c \in R : TRUE
  BY <1>4
<1>6. Good(R \ {c})
  <2> HIDE DEF Good
  <2> QED BY <1>3, <1>4, Removed
<1>7. CASE R \ {c} = {}
  BY <1>4, <1>7
<1>8. CASE R \ {c} # {}
  <2>1. PICK last \in R \ {c} : \A g \in R \ {c} : g # last => Precedes(g, last)
    BY <1>6, <1>8
  <2>2. Precedes(c, last) \/ Precedes(last, c)
    BY <1>4, <2>1, OrderIsTotal
  <2>3. CASE Precedes(c, last)
    BY <1>4, <2>1, <2>3
  <2>4. CASE Precedes(last, c)
    <3>1. \A g \in R : g # c => Precedes(g, c)
      BY <1>4, <2>1, <2>4, OrderIsTotal
    <3> QED BY <1>4, <3>1
  <2> QED BY <2>2, <2>3, <2>4
<1> QED BY <1>7, <1>8

Before(rows, g) == {h \in rows : Precedes(h, g)}

\* What one row gives: as much of what is missing as it offers.
LEMMA TakenFromRow ==
  ASSUME NEW rows, rows \subseteq GrantIds, NEW offer, \A g \in rows : offer[g] \in Nat,
         NEW amount \in Nat, NEW g \in rows, NEW p, p = SumFunctionOnSet(offer, Before(rows, g))
  PROVE  /\ p \in Nat
         /\ TakeInOrder(offer, rows, amount)[g] =
              IF amount <= p THEN 0 ELSE IF offer[g] <= amount - p THEN offer[g] ELSE amount - p
<1>1. Summable(offer, Before(rows, g)) /\ \A h \in Before(rows, g) : offer[h] \in Nat
  BY GrantIdsFinite, FS_Subset DEF Summable, Before
<1>2. p \in Nat
  BY <1>1, SumType
<1>3. TakeInOrder(offer, rows, amount)[g] = Min({offer[g], Max({0, amount - p})})
  BY DEF TakeInOrder, Before
<1>4. Max({0, amount - p}) = IF amount <= p THEN 0 ELSE amount - p
  <2>1. amount - p \in Int /\ (0 >= amount - p <=> amount <= p)
    BY <1>2
  <2>2. Max({0, amount - p}) = IF 0 >= amount - p THEN 0 ELSE amount - p
    <3> DEFINE d == amount - p
    <3>1. d \in Int /\ 0 \in Int
      BY <2>1
    <3> HIDE DEF d
    <3>2. Max({0, d}) = IF 0 >= d THEN 0 ELSE d
      BY <3>1, SmallerOf
    <3> QED BY <3>2 DEF d
  <2> QED BY <2>1, <2>2
<1>5. offer[g] \in Nat
  OBVIOUS
<1>6. Max({0, amount - p}) \in Int
  BY <1>2, <1>4
<1>7. Min({offer[g], Max({0, amount - p})}) =
        IF offer[g] <= Max({0, amount - p}) THEN offer[g] ELSE Max({0, amount - p})
  BY <1>5, <1>6, SmallerOf
<1> DEFINE m == Max({0, amount - p})
           o == offer[g]
<1>8. m = (IF amount <= p THEN 0 ELSE amount - p) /\ o \in Nat
  BY <1>4, <1>5
<1>9. TakeInOrder(offer, rows, amount)[g] = IF o <= m THEN o ELSE m
  BY <1>3, <1>7
<1> HIDE DEF m, o
<1>10. TakeInOrder(offer, rows, amount)[g] =
         IF amount <= p THEN 0 ELSE IF o <= amount - p THEN o ELSE amount - p
  BY <1>2, <1>8, <1>9
<1> QED BY <1>2, <1>10 DEF o

LEMMA TakenBounds ==
  ASSUME NEW rows, rows \subseteq GrantIds, NEW offer, \A g \in rows : offer[g] \in Nat,
         NEW amount \in Nat
  PROVE  /\ TakeInOrder(offer, rows, amount) \in Amounts
         /\ \A g \in GrantIds \ rows : TakeInOrder(offer, rows, amount)[g] = 0
         /\ \A g \in rows : TakeInOrder(offer, rows, amount)[g] <= offer[g]
<1> DEFINE taken == TakeInOrder(offer, rows, amount)
<1>1. \A g \in GrantIds \ rows : taken[g] = 0
  BY DEF TakeInOrder
<1>2. ASSUME NEW g \in rows PROVE taken[g] \in Nat /\ taken[g] <= offer[g]
  <2> DEFINE p == SumFunctionOnSet(offer, Before(rows, g))
  <2>1. p = SumFunctionOnSet(offer, Before(rows, g))
    OBVIOUS
  <2> HIDE DEF p
  <2>2. p \in Nat /\ taken[g] =
          IF amount <= p THEN 0 ELSE IF offer[g] <= amount - p THEN offer[g] ELSE amount - p
    BY <2>1, TakenFromRow
  <2> HIDE DEF taken
  <2>3. offer[g] \in Nat
    OBVIOUS
  <2> QED BY <2>2, <2>3
<1>3. taken = [g \in GrantIds |-> taken[g]]
  BY DEF TakeInOrder
<1> HIDE DEF taken
<1>4. \A g \in GrantIds : taken[g] \in Nat
  BY <1>1, <1>2
<1>5. taken \in Amounts
  BY <1>3, <1>4 DEF Amounts
<1> QED BY <1>1, <1>2, <1>5 DEF taken

\* The rows give what is asked for, or all they offer.
LEMMA TakenTotal ==
  ASSUME Typed, GrantsInv, NEW rows, rows \subseteq Existing, NEW offer,
         \A g \in rows : offer[g] \in Nat, NEW amount \in Nat
  PROVE  SumFunctionOnSet(TakeInOrder(offer, rows, amount), rows) =
           IF amount <= SumFunctionOnSet(offer, rows) THEN amount ELSE SumFunctionOnSet(offer, rows)
<1> DEFINE Good(R) == SumFunctionOnSet(TakeInOrder(offer, R, amount), R) =
             IF amount <= SumFunctionOnSet(offer, R) THEN amount ELSE SumFunctionOnSet(offer, R)
           Bad == {R \in SUBSET rows : ~Good(R)}
<1>1. SUFFICES ASSUME Bad # {} PROVE FALSE
  OBVIOUS
<1>2. \A R \in Bad : IsFiniteSet(R)
  BY GrantIdsFinite, FS_Subset DEF Existing
<1>3. PICK R \in Bad : \A t \in Bad : ~(Cardinality(t) < Cardinality(R))
  <2> HIDE DEF Bad
  <2> QED BY <1>1, <1>2, SmallestSet
<1>4. R \in SUBSET rows /\ IsFiniteSet(R) /\ ~Good(R) /\ R \subseteq GrantIds /\ R \subseteq Existing
  BY <1>2, <1>3 DEF Existing
<1>5. R # {}
  BY <1>4, SumEmpty
<1>6. PICK c \in R : \A g \in R : g # c => Precedes(g, c)
  BY <1>4, <1>5, LastGrant
<1> DEFINE Q == R \ {c}
           tR == TakeInOrder(offer, R, amount)
           tQ == TakeInOrder(offer, Q, amount)
           s == SumFunctionOnSet(offer, Q)
<1>7. Good(Q)
  <2> HIDE DEF Good
  <2> QED BY <1>3, <1>4, <1>6, Removed
<1>8. Q \subseteq GrantIds /\ Q \subseteq R /\ IsFiniteSet(Q) /\ \A g \in Q : offer[g] \in Nat
  BY <1>4, FS_Subset
\* The last row precedes none, so the others give what they gave without it.
<1>9. \A g \in Q : Before(R, g) = Before(Q, g)
  BY <1>4, <1>6, OrderIsTotal DEF Before
<1>10. Before(R, c) = Q
  BY <1>4, <1>6, OrderIsTotal DEF Before
<1>11. \A g \in Q : tR[g] = tQ[g]
  BY <1>4, <1>8, <1>9 DEF TakeInOrder, Before
<1>12. Summable(offer, Q) /\ s \in Nat /\ offer[c] \in Nat
  <2>1. Summable(offer, Q)
    BY <1>8 DEF Summable
  <2> QED BY <1>4, <1>6, <1>8, <2>1, SumType
<1>13. tR[c] = IF amount <= s THEN 0 ELSE IF offer[c] <= amount - s THEN offer[c] ELSE amount - s
  <2> HIDE DEF Q
  <2> QED BY <1>4, <1>6, <1>10, TakenFromRow
<1>14. tR \in Amounts /\ tQ \in Amounts
  <2> HIDE DEF Q
  <2> QED BY <1>4, <1>8, TakenBounds
<1>15. Summable(tQ, Q) /\ Summable(tR, Q) /\ Summable(tR, R)
  <2> HIDE DEF tR, tQ
  <2> QED BY <1>4, <1>8, <1>14 DEF Summable, Amounts
<1>16. SumFunctionOnSet(tR, R) = tR[c] + SumFunctionOnSet(tR, Q)
  <2> HIDE DEF tR
  <2> QED BY <1>15, <1>6, SumRemove
<1>17. SumFunctionOnSet(tR, Q) = SumFunctionOnSet(tQ, Q)
  <2> HIDE DEF tR, tQ, Q
  <2> QED BY <1>11, <1>15, SumEqual
<1>18. SumFunctionOnSet(offer, R) = offer[c] + s
  <2>1. Summable(offer, R)
    BY <1>4 DEF Summable
  <2> QED BY <1>6, <2>1, SumRemove
<1>19. SumFunctionOnSet(tQ, Q) = IF amount <= s THEN amount ELSE s
  BY <1>7
<1> DEFINE a == SumFunctionOnSet(tR, R)
           b == SumFunctionOnSet(offer, R)
           o == offer[c]
           x == tR[c]
           y == SumFunctionOnSet(tQ, Q)
<1>20. /\ a = x + y /\ b = o + s /\ o \in Nat /\ s \in Nat
       /\ y = (IF amount <= s THEN amount ELSE s)
       /\ x = (IF amount <= s THEN 0 ELSE IF o <= amount - s THEN o ELSE amount - s)
  BY <1>12, <1>13, <1>16, <1>17, <1>18, <1>19
<1>21. a # IF amount <= b THEN amount ELSE b
  BY <1>4
<1> HIDE DEF a, b, o, x, y, s
<1> QED BY <1>20, <1>21

\* A row that gives anything comes after rows that have given all they offer.
LEMMA TakenFirst ==
  ASSUME Typed, GrantsInv, NEW rows, rows \subseteq Existing, NEW offer,
         \A g \in rows : offer[g] \in Nat, NEW amount \in Nat,
         NEW g \in rows, NEW h \in rows, Precedes(h, g), TakeInOrder(offer, rows, amount)[g] > 0
  PROVE  TakeInOrder(offer, rows, amount)[h] = offer[h]
<1> DEFINE p == SumFunctionOnSet(offer, Before(rows, g))
           q == SumFunctionOnSet(offer, Before(rows, h))
           S == Before(rows, h) \cup {h}
<1>1. rows \subseteq GrantIds
  BY DEF Existing
<1>2. /\ p \in Nat
      /\ TakeInOrder(offer, rows, amount)[g] =
           IF amount <= p THEN 0 ELSE IF offer[g] <= amount - p THEN offer[g] ELSE amount - p
  BY <1>1, TakenFromRow
<1>3. /\ q \in Nat
      /\ TakeInOrder(offer, rows, amount)[h] =
           IF amount <= q THEN 0 ELSE IF offer[h] <= amount - q THEN offer[h] ELSE amount - q
  BY <1>1, TakenFromRow
<1>4. S \subseteq Before(rows, g) /\ h \notin Before(rows, h)
  BY OrderIsTotal DEF Before
<1>5. /\ Summable(offer, Before(rows, g)) /\ \A x \in Before(rows, g) : offer[x] \in Nat
      /\ Summable(offer, Before(rows, h))
  BY <1>1, GrantIdsFinite, FS_Subset DEF Summable, Before
<1>6. SumFunctionOnSet(offer, S) = offer[h] + q
  BY <1>4, <1>5, SumInsert
<1>7. SumFunctionOnSet(offer, S) <= p
  <2> HIDE DEF S
  <2> QED BY <1>4, <1>5, SumPart
<1> DEFINE o == offer[h]
<1>8. o \in Nat /\ o + q <= p
  BY <1>6, <1>7
<1>9. ~(amount <= p)
  BY <1>2
<1> HIDE DEF p, q, o
<1>10. TakeInOrder(offer, rows, amount)[h] =
           IF amount <= q THEN 0 ELSE IF o <= amount - q THEN o ELSE amount - q
  BY <1>3 DEF o
<1>11. TakeInOrder(offer, rows, amount)[h] = o
  BY <1>2, <1>3, <1>8, <1>9, <1>10
<1> QED BY <1>11 DEF o

-----------------------------------------------------------------------------
(* Sums over the columns of the tables.                                    *)

AvailableIn(G) == [g \in GrantIds |-> G[g].available]
HeldIn(G) == [g \in GrantIds |-> G[g].held]
OpenIn(H) == {k \in Keys : H[k].state = "HELD"}
AllocatedIn(H, g) == [k \in Keys |-> H[k].allocated[g]]
ConsumedIn(H, g) == [k \in Keys |-> H[k].consumed[g]]

LEMMA ColumnSums ==
  ASSUME NEW G, NEW H, NEW g
  PROVE  /\ SumFunction([i \in GrantIds |-> G[i].available]) = SumFunctionOnSet(AvailableIn(G), GrantIds)
         /\ SumFunction([i \in GrantIds |-> G[i].held]) = SumFunctionOnSet(HeldIn(G), GrantIds)
         /\ SumFunction([k \in Keys |-> H[k].consumed[g]]) = SumFunctionOnSet(ConsumedIn(H, g), Keys)
BY DEF SumFunction, AvailableIn, HeldIn, ConsumedIn

LEMMA OpenSum ==
  ASSUME NEW H \in [Keys -> HoldRows], NEW g \in GrantIds
  PROVE  SumFunction([k \in {x \in Keys : H[x].state = "HELD"} |-> H[k].allocated[g]])
           = SumFunctionOnSet(AllocatedIn(H, g), OpenIn(H))
<1> DEFINE f == [k \in {x \in Keys : H[x].state = "HELD"} |-> H[k].allocated[g]]
<1>1. DOMAIN f = OpenIn(H) /\ OpenIn(H) \subseteq Keys
  BY DEF OpenIn
<1>2. \A k \in OpenIn(H) : f[k] = AllocatedIn(H, g)[k] /\ AllocatedIn(H, g)[k] \in Int
  BY DEF OpenIn, AllocatedIn, HoldRows, Amounts
<1>3. IsFiniteSet(OpenIn(H))
  BY <1>1, TablesFinite, FS_Subset
<1> HIDE DEF f
<1>4. Summable(AllocatedIn(H, g), OpenIn(H))
  BY <1>2, <1>3 DEF Summable
<1>5. SumFunctionOnSet(f, OpenIn(H)) = SumFunctionOnSet(AllocatedIn(H, g), OpenIn(H))
  BY <1>2, <1>4, SumEqual
<1>6. SumFunction(f) = SumFunctionOnSet(f, OpenIn(H))
  BY <1>1 DEF SumFunction
<1> QED BY <1>5, <1>6 DEF f

\* The same equations, as sums over the rows of a table.
BooksBalanced(a, G, H) ==
  /\ a.available = SumFunctionOnSet(AvailableIn(G), GrantIds)
  /\ a.held = SumFunctionOnSet(HeldIn(G), GrantIds)
  /\ \A g \in GrantIds : G[g].held = SumFunctionOnSet(AllocatedIn(H, g), OpenIn(H))
  /\ \A k \in Keys : H[k].maximum = SumFunctionOnSet(H[k].allocated, GrantIds)
  /\ \A g \in GrantIds :
       G[g].original = G[g].available + G[g].held + SumFunctionOnSet(ConsumedIn(H, g), Keys)

LEMMA BooksRestated ==
  ASSUME holds \in [Keys -> HoldRows]
  PROVE  BalancesMatchGrants /\ HeldIsBackedByOpenHolds /\ CreditsConserved
           <=> BooksBalanced(account, grants, holds)
<1>1. BalancesMatchGrants <=>
        /\ account.available = SumFunctionOnSet(AvailableIn(grants), GrantIds)
        /\ account.held = SumFunctionOnSet(HeldIn(grants), GrantIds)
  BY ColumnSums DEF BalancesMatchGrants
<1>2. HeldIsBackedByOpenHolds <=>
        /\ \A g \in GrantIds : grants[g].held = SumFunctionOnSet(AllocatedIn(holds, g), OpenIn(holds))
        /\ \A k \in Keys : holds[k].maximum = SumFunctionOnSet(holds[k].allocated, GrantIds)
  BY OpenSum DEF HeldIsBackedByOpenHolds
<1>3. CreditsConserved <=>
        \A g \in GrantIds : grants[g].original =
          grants[g].available + grants[g].held + SumFunctionOnSet(ConsumedIn(holds, g), Keys)
  BY ColumnSums DEF CreditsConserved
<1> QED BY <1>1, <1>2, <1>3 DEF BooksBalanced

LEMMA BooksRestatedNext ==
  ASSUME holds' \in [Keys -> HoldRows]
  PROVE  BalancesMatchGrants' /\ HeldIsBackedByOpenHolds' /\ CreditsConserved'
           <=> BooksBalanced(account', grants', holds')
<1>1. BalancesMatchGrants' <=>
        /\ account'.available = SumFunctionOnSet(AvailableIn(grants'), GrantIds)
        /\ account'.held = SumFunctionOnSet(HeldIn(grants'), GrantIds)
  BY ColumnSums DEF BalancesMatchGrants
<1>2. HeldIsBackedByOpenHolds' <=>
        /\ \A g \in GrantIds : grants'[g].held = SumFunctionOnSet(AllocatedIn(holds', g), OpenIn(holds'))
        /\ \A k \in Keys : holds'[k].maximum = SumFunctionOnSet(holds'[k].allocated, GrantIds)
  BY OpenSum DEF HeldIsBackedByOpenHolds
<1>3. CreditsConserved' <=>
        \A g \in GrantIds : grants'[g].original =
          grants'[g].available + grants'[g].held + SumFunctionOnSet(ConsumedIn(holds', g), Keys)
  BY ColumnSums DEF CreditsConserved
<1> QED BY <1>1, <1>2, <1>3 DEF BooksBalanced

\* The columns hold numbers.
LEMMA ColumnTypes ==
  ASSUME NEW G \in [GrantIds -> GrantRows], NEW H \in [Keys -> HoldRows]
  PROVE  /\ Summable(AvailableIn(G), GrantIds) /\ \A g \in GrantIds : AvailableIn(G)[g] \in Nat
         /\ Summable(HeldIn(G), GrantIds) /\ \A g \in GrantIds : HeldIn(G)[g] \in Nat
         /\ \A g \in GrantIds :
              /\ Summable(AllocatedIn(H, g), Keys) /\ \A k \in Keys : AllocatedIn(H, g)[k] \in Nat
              /\ Summable(ConsumedIn(H, g), Keys) /\ \A k \in Keys : ConsumedIn(H, g)[k] \in Nat
         /\ \A k \in Keys :
              /\ Summable(H[k].allocated, GrantIds) /\ \A g \in GrantIds : H[k].allocated[g] \in Nat
         /\ OpenIn(H) \subseteq Keys /\ IsFiniteSet(OpenIn(H))
<1>1. /\ \A g \in GrantIds : AvailableIn(G)[g] \in Nat /\ HeldIn(G)[g] \in Nat
      /\ \A g \in GrantIds, k \in Keys : AllocatedIn(H, g)[k] \in Nat /\ ConsumedIn(H, g)[k] \in Nat
      /\ \A k \in Keys, g \in GrantIds : H[k].allocated[g] \in Nat
  BY DEF AvailableIn, HeldIn, AllocatedIn, ConsumedIn, GrantRows, HoldRows, Amounts
<1>2. IsFiniteSet(GrantIds) /\ IsFiniteSet(Keys)
  BY GrantIdsFinite, TablesFinite
<1>3. OpenIn(H) \subseteq Keys /\ IsFiniteSet(OpenIn(H))
  BY <1>2, FS_Subset DEF OpenIn
<1> QED BY <1>1, <1>2, <1>3 DEF Summable

\* An entry is posted: the ledger's sums follow.
LEMMA Posted ==
  ASSUME NEW L, IsFiniteSet(L), \A x \in L : x.dAvailable \in Int /\ x.dHeld \in Int,
         NEW e, e \notin L, e.dAvailable \in Int, e.dHeld \in Int
  PROVE  /\ IsFiniteSet(L \cup {e})
         /\ SumFunction([x \in L \cup {e} |-> x.dAvailable])
              = SumFunction([x \in L |-> x.dAvailable]) + e.dAvailable
         /\ SumFunction([x \in L \cup {e} |-> x.dHeld]) = SumFunction([x \in L |-> x.dHeld]) + e.dHeld
<1> DEFINE M == L \cup {e}
           a == [x \in L |-> x.dAvailable]
           aa == [x \in M |-> x.dAvailable]
           h == [x \in L |-> x.dHeld]
           hh == [x \in M |-> x.dHeld]
<1>1. IsFiniteSet(M)
  BY FS_AddElement
<1>2. /\ \A x \in L : aa[x] = a[x] /\ hh[x] = h[x]
      /\ aa[e] = e.dAvailable /\ hh[e] = e.dHeld
      /\ Summable(a, L) /\ Summable(h, L) /\ Summable(aa, L) /\ Summable(hh, L)
  BY DEF Summable
<1>3. DOMAIN a = L /\ DOMAIN h = L /\ DOMAIN aa = M /\ DOMAIN hh = M
  OBVIOUS
<1> HIDE DEF a, aa, h, hh
<1>4. SumFunctionOnSet(aa, L) = SumFunctionOnSet(a, L) /\ SumFunctionOnSet(hh, L) = SumFunctionOnSet(h, L)
  BY <1>2, SumEqual
<1>5. SumFunctionOnSet(aa, M) = aa[e] + SumFunctionOnSet(aa, L)
  BY <1>2, SumInsert
<1>6. SumFunctionOnSet(hh, M) = hh[e] + SumFunctionOnSet(hh, L)
  BY <1>2, SumInsert
<1>7. SumFunctionOnSet(a, L) \in Int /\ SumFunctionOnSet(h, L) \in Int
  BY <1>2, SumType
<1> DEFINE p == SumFunctionOnSet(a, L)
           q == SumFunctionOnSet(h, L)
           s == e.dAvailable
           t == e.dHeld
<1>8. SumFunctionOnSet(aa, M) = s + p /\ SumFunctionOnSet(hh, M) = t + q
  BY <1>2, <1>4, <1>5, <1>6
<1>9. s + p = p + s /\ t + q = q + t
  <2>1. p \in Int /\ q \in Int /\ s \in Int /\ t \in Int
    BY <1>7
  <2> HIDE DEF p, q, s, t
  <2> QED BY <2>1
<1>10. SumFunction(aa) = SumFunction(a) + s /\ SumFunction(hh) = SumFunction(h) + t
  BY <1>3, <1>8, <1>9 DEF SumFunction
<1> QED BY <1>1, <1>10 DEF a, aa, h, hh

-----------------------------------------------------------------------------
(* The initial state and the steps.                                        *)

LEMMA EmptyRows ==
  /\ NoGrant \in GrantRows /\ NoAllocation \in Amounts /\ NoHold \in HoldRows
  /\ \A g \in GrantIds : NoAllocation[g] = 0
<1>1. NoExpiry \in 1..NoExpiry
  BY ConstantsOK DEF NoExpiry
<1>2. NoGrant \in GrantRows
  BY <1>1 DEF NoGrant, GrantRows
<1>3. NoAllocation \in Amounts /\ \A g \in GrantIds : NoAllocation[g] = 0
  BY DEF NoAllocation, Amounts
<1>4. NoHold \in HoldRows
  BY <1>3 DEF NoHold, HoldRows
<1> QED BY <1>2, <1>3, <1>4

LEMMA BooksInitially == Init => BooksInv
<1> SUFFICES ASSUME Init PROVE BooksInv
  OBVIOUS
<1>1. Typed
  BY EmptyRows, ConstantsOK DEF Init, Typed
<1>2. GrantsInv
  BY DEF Init, GrantsInv, Existing, NoGrant
<1>3. HoldsInv
  BY DEF Init, HoldsInv, NoHold
<1>4. LedgerInv
  <2>1. IsFiniteSet(ledger)
    BY FS_EmptySet DEF Init
  <2>2. \A ev \in Events : ReversalGrant(ev) \in GrantIds
    BY DEF GrantIds
  <2> QED BY <2>1, <2>2 DEF Init, LedgerInv, NoGrant
<1>5. BooksBalanced(account, grants, holds)
  <2>1. \A g \in GrantIds : AvailableIn(grants)[g] = 0 /\ HeldIn(grants)[g] = 0
    BY DEF Init, AvailableIn, HeldIn, NoGrant
  <2>2. \A g \in GrantIds, k \in Keys : AllocatedIn(holds, g)[k] = 0 /\ ConsumedIn(holds, g)[k] = 0
    BY EmptyRows DEF Init, AllocatedIn, ConsumedIn, NoHold
  <2>3. IsFiniteSet(GrantIds) /\ IsFiniteSet(Keys)
    BY GrantIdsFinite, TablesFinite
  <2>4. SumFunctionOnSet(AvailableIn(grants), GrantIds) = 0 /\ SumFunctionOnSet(HeldIn(grants), GrantIds) = 0
    BY <2>1, <2>3, SumZero
  <2>5. OpenIn(holds) = {}
    BY DEF Init, OpenIn, NoHold
  <2>6. ASSUME NEW g \in GrantIds
        PROVE  /\ SumFunctionOnSet(AllocatedIn(holds, g), OpenIn(holds)) = 0
               /\ SumFunctionOnSet(ConsumedIn(holds, g), Keys) = 0
    BY <2>2, <2>3, <2>5, SumZero, SumEmpty
  <2>7. \A k \in Keys : holds[k].maximum = 0 /\ \A g \in GrantIds : holds[k].allocated[g] = 0
    BY EmptyRows DEF Init, NoHold
  <2>8. \A k \in Keys : SumFunctionOnSet(holds[k].allocated, GrantIds) = 0
    BY <2>3, <2>7, SumZero
  <2>9. \A g \in GrantIds : grants[g].held = 0 /\ grants[g].original = 0 /\ grants[g].available = 0
    BY DEF Init, NoGrant
  <2>10. account.available = 0 /\ account.held = 0
    BY DEF Init
  <2> QED BY <2>4, <2>6, <2>7, <2>8, <2>9, <2>10 DEF BooksBalanced
<1>6. LedgerExplainsBalances
  <2>1. SumFunction([e \in ledger |-> e.dAvailable]) = 0 /\ SumFunction([e \in ledger |-> e.dHeld]) = 0
    BY SumEmpty DEF Init, SumFunction
  <2> QED BY <2>1 DEF Init, LedgerExplainsBalances
<1>7. UsageMatchesDebit
  BY DEF Init, UsageMatchesDebit
<1>8. BalancesMatchGrants /\ HeldIsBackedByOpenHolds /\ CreditsConserved
  BY <1>1, <1>5, BooksRestated DEF Typed
<1> QED BY <1>1, <1>2, <1>3, <1>4, <1>6, <1>7, <1>8 DEF BooksInv

LEMMA BooksAre ==
  ASSUME BooksInv
  PROVE  /\ Typed /\ GrantsInv /\ HoldsInv /\ LedgerInv /\ LedgerExplainsBalances /\ UsageMatchesDebit
         /\ BooksBalanced(account, grants, holds)
         /\ grants \in [GrantIds -> GrantRows] /\ holds \in [Keys -> HoldRows]
         /\ account.available \in Nat /\ account.held \in Nat
BY BooksRestated DEF BooksInv, Typed

\* Everything that depends on the holds alone stands when they do.
LEMMA HoldsUnchanged ==
  ASSUME HoldsInv, UsageMatchesDebit, UNCHANGED <<holds, usage>>
  PROVE  HoldsInv' /\ UsageMatchesDebit'
BY DEF HoldsInv, UsageMatchesDebit

\* grant_credits, reverse_credit_debit: a grant is added and its credits with it.
LEMMA NewGrantKeeps ==
  ASSUME BooksInv, NEW g \in GrantIds, ~grants[g].exists, NEW amount \in Nat,
         NEW expires \in 1..NoExpiry,
         grants' = [grants EXCEPT ![g] = NewGrant(amount, expires)],
         account' = [account EXCEPT !.available = @ + amount],
         UNCHANGED <<holds, usage, now>>
  PROVE  /\ Typed' /\ GrantsInv' /\ HoldsInv' /\ UsageMatchesDebit'
         /\ BooksBalanced(account', grants', holds')
         /\ account'.available = account.available + amount /\ account'.held = account.held
         /\ \A i \in GrantIds : grants[i].exists => grants'[i].exists
         /\ grants'[g].exists /\ \A i \in GrantIds : i # g => grants'[i] = grants[i]
<1> DEFINE row == NewGrant(amount, expires)
           n == Cardinality(Existing)
<1>1. /\ Typed /\ GrantsInv /\ HoldsInv /\ UsageMatchesDebit /\ BooksBalanced(account, grants, holds)
      /\ grants \in [GrantIds -> GrantRows] /\ holds \in [Keys -> HoldRows]
      /\ account.available \in Nat /\ account.held \in Nat
  BY BooksAre
<1>2. IsFiniteSet(Existing) /\ n \in Nat
  BY GrantIdsFinite, FS_Subset, FS_CardinalityType DEF Existing
<1>3. /\ row \in GrantRows /\ row.exists /\ row.original = amount /\ row.available = amount
      /\ row.held = 0 /\ row.rank = n + 1
  BY <1>2 DEF NewGrant, GrantRows, Existing
<1>4. grants[g] = NoGrant /\ grants[g].original = 0 /\ grants[g].available = 0 /\ grants[g].held = 0
  BY <1>1 DEF GrantsInv, NoGrant
<1> HIDE DEF row
<1>5. grants' \in [GrantIds -> GrantRows] /\ grants'[g] = row /\ \A i \in GrantIds : i # g => grants'[i] = grants[i]
  BY <1>1, <1>3 DEF row
<1>6. /\ account' \in [available : Nat, held : Nat]
      /\ account'.available = account.available + amount /\ account'.held = account.held
  BY <1>1 DEF Typed
<1>7. Typed'
  BY <1>1, <1>5, <1>6 DEF Typed
<1>8. GrantsInv'
  <2>1. Existing' = Existing \cup {g} /\ g \notin Existing
    BY <1>3, <1>5 DEF Existing
  <2>2. Cardinality(Existing') = n + 1
    BY <1>2, <2>1, FS_AddElement
  <2>3. \A i \in Existing : grants'[i].rank = grants[i].rank /\ grants[i].rank \in 1..n
    BY <1>1, <1>5, <2>1 DEF GrantsInv, Existing
  <2> HIDE DEF n
  <2>4. \A i \in Existing' : grants'[i].rank \in 1..Cardinality(Existing')
    BY <1>2, <1>3, <1>5, <2>1, <2>2, <2>3
  <2>5. \A i, j \in Existing' : grants'[i].rank = grants'[j].rank => i = j
    <3>1. \A i \in Existing : grants'[i].rank # n + 1
      BY <1>2, <2>3
    <3>2. \A i, j \in Existing : grants'[i].rank = grants'[j].rank => i = j
      BY <1>1, <2>3 DEF GrantsInv
    <3> QED BY <1>3, <1>5, <2>1, <3>1, <3>2
  <2>6. \A i \in GrantIds : ~grants'[i].exists => grants'[i] = NoGrant
    BY <1>1, <1>3, <1>5 DEF GrantsInv
  <2> QED BY <2>4, <2>5, <2>6 DEF GrantsInv
<1>9. BooksBalanced(account', grants', holds')
  <2>1. SumFunctionOnSet(AvailableIn(grants'), GrantIds)
          = SumFunctionOnSet(AvailableIn(grants), GrantIds) - 0 + amount
    <3> DEFINE old == AvailableIn(grants)
               new == AvailableIn(grants')
    <3>1. old[g] = 0 /\ new[g] = amount /\ \A i \in GrantIds : i # g => new[i] = old[i]
      BY <1>3, <1>4, <1>5 DEF AvailableIn
    <3>2. Summable(old, GrantIds)
      BY <1>1, ColumnTypes
    <3> HIDE DEF old, new
    <3>3. new[g] \in Int
      BY <3>1
    <3>4. SumFunctionOnSet(new, GrantIds) = SumFunctionOnSet(old, GrantIds) - old[g] + new[g]
      BY <3>1, <3>2, <3>3, SumChange
    <3> QED BY <3>1, <3>4 DEF old, new
  <2>2. SumFunctionOnSet(HeldIn(grants'), GrantIds) = SumFunctionOnSet(HeldIn(grants), GrantIds)
    <3>1. \A i \in GrantIds : HeldIn(grants')[i] = HeldIn(grants)[i]
      BY <1>3, <1>4, <1>5 DEF HeldIn
    <3>2. Summable(HeldIn(grants), GrantIds)
      BY <1>1, ColumnTypes
    <3> QED BY <3>1, <3>2, SumEqual
  <2>3. account'.available = SumFunctionOnSet(AvailableIn(grants'), GrantIds)
    <3>1. account.available = SumFunctionOnSet(AvailableIn(grants), GrantIds)
      BY <1>1 DEF BooksBalanced
    <3>2. account.available - 0 + amount = account.available + amount
      BY <1>1
    <3> QED BY <1>6, <2>1, <3>1, <3>2
  <2>4. account'.held = SumFunctionOnSet(HeldIn(grants'), GrantIds)
    BY <1>1, <1>6, <2>2 DEF BooksBalanced
  <2>5. \A i \in GrantIds : grants'[i].held = SumFunctionOnSet(AllocatedIn(holds, i), OpenIn(holds))
    BY <1>1, <1>3, <1>4, <1>5 DEF BooksBalanced
  <2>6. ASSUME NEW i \in GrantIds
        PROVE  grants'[i].original = grants'[i].available + grants'[i].held
                                       + SumFunctionOnSet(ConsumedIn(holds, i), Keys)
    <3>1. grants[i].original = grants[i].available + grants[i].held + SumFunctionOnSet(ConsumedIn(holds, i), Keys)
      BY <1>1 DEF BooksBalanced
    <3>2. CASE i # g
      BY <1>5, <3>1, <3>2
    <3>3. CASE i = g
      <4> DEFINE c == SumFunctionOnSet(ConsumedIn(holds, i), Keys)
      <4>1. c \in Int
        BY <1>1, ColumnTypes, SumType
      <4>2. 0 = 0 + 0 + c
        BY <1>4, <3>1, <3>3
      <4> HIDE DEF c
      <4>3. amount = amount + 0 + c
        BY <4>1, <4>2
      <4> QED BY <1>3, <1>5, <3>3, <4>3 DEF c
    <3> QED BY <3>2, <3>3
  <2> QED BY <1>1, <2>3, <2>4, <2>5, <2>6 DEF BooksBalanced
<1>10. HoldsInv' /\ UsageMatchesDebit'
  BY <1>1, HoldsUnchanged
<1>11. \A i \in GrantIds : grants[i].exists => grants'[i].exists
  BY <1>5
<1> QED BY <1>3, <1>5, <1>6, <1>7, <1>8, <1>9, <1>10, <1>11

LEMMA LedgerGrows ==
  ASSUME LedgerInv, NEW N, IsFiniteSet(N), ledger' = ledger \cup N,
         \A g \in GrantIds : grants[g].exists => grants'[g].exists,
         \A k \in Keys : holds[k].state # "ABSENT" => holds'[k].state # "ABSENT",
         \A ev \in Events : ~EventUnused(ev) => ~EventUnused(ev)',
         \A e \in N : EntryOK(e)',
         \A d \in N, e \in ledger \cup N : SameConsume(d, e) \/ SameReversal(d, e) => d = e,
         \A ev \in Events : grants'[ReversalGrant(ev)].exists =>
           \/ grants[ReversalGrant(ev)].exists
           \/ \E e \in N : e.kind = "REVERSAL" /\ e.reverses = <<"consume", ev>>
  PROVE  LedgerInv'
<1>1. IsFiniteSet(ledger')
  BY FS_Union DEF LedgerInv
<1>2. \A s \in Sources : [type |-> "SOURCE", id |-> s] \in GrantIds
  BY DEF GrantIds, OutsideGrants
<1>3. ASSUME NEW e \in ledger PROVE EntryOK(e)'
  <2>1. EntryOK(e)
    BY DEF LedgerInv
  <2>2. e.amount \in Nat /\ e.dAvailable \in Int /\ e.dHeld \in Int
    BY <2>1 DEF EntryOK
  <2>3. e.kind = "GRANT" => e.id \in Sources /\ grants'[[type |-> "SOURCE", id |-> e.id]].exists
    BY <1>2, <2>1 DEF EntryOK
  <2>4. e.kind = "HOLD" => e.id \in Keys /\ holds'[e.id].state # "ABSENT"
    BY <2>1 DEF EntryOK
  <2>5. e.kind = "CONSUME" => \E ev \in Events : e.key = <<"consume", ev>> /\ ~EventUnused(ev)'
    BY <2>1 DEF EntryOK
  <2>6. e.kind = "RELEASE" => \E ev \in Events : e.key = <<"release", ev>> /\ ~EventUnused(ev)'
    BY <2>1 DEF EntryOK
  <2>7. /\ e.kind # "REVERSAL" => e.reverses = <<>>
        /\ e.kind = "REVERSAL" =>
             \E d \in ledger' : d.kind = "CONSUME" /\ d.key = e.reverses /\ d.amount = e.amount
    BY <2>1 DEF EntryOK
  <2> QED BY <2>2, <2>3, <2>4, <2>5, <2>6, <2>7 DEF EntryOK
<1>4. \A e \in ledger' : EntryOK(e)'
  BY <1>3
<1>5. \A d, e \in ledger' : SameConsume(d, e) \/ SameReversal(d, e) => d = e
  BY DEF LedgerInv, SameConsume, SameReversal
<1>6. \A ev \in Events : grants'[ReversalGrant(ev)].exists =>
        \E e \in ledger' : e.kind = "REVERSAL" /\ e.reverses = <<"consume", ev>>
  BY DEF LedgerInv
<1>7. \A d, e \in ledger' : (SameConsume(d, e) \/ SameReversal(d, e))' <=> SameConsume(d, e) \/ SameReversal(d, e)
  BY DEF SameConsume, SameReversal
<1>8. \A ev : ReversalGrant(ev)' = ReversalGrant(ev)
  BY DEF ReversalGrant
<1> QED BY <1>1, <1>4, <1>5, <1>6, <1>7, <1>8 DEF LedgerInv

LEMMA LedgerUnchanged ==
  ASSUME LedgerInv, LedgerExplainsBalances, UNCHANGED <<ledger, grants, holds, account>>
  PROVE  LedgerInv' /\ LedgerExplainsBalances'
<1>1. \A e \in ledger : EntryOK(e) <=> EntryOK(e)'
  BY DEF EntryOK, EventUnused
<1> QED BY <1>1 DEF LedgerInv, LedgerExplainsBalances, SameConsume, SameReversal, ReversalGrant

\* One entry is posted with what it changes of the account.
LEMMA OnePosted ==
  ASSUME LedgerInv, LedgerExplainsBalances, NEW e, e \notin ledger, ledger' = ledger \cup {e},
         e.dAvailable \in Int, e.dHeld \in Int,
         account'.available = account.available + e.dAvailable,
         account'.held = account.held + e.dHeld
  PROVE  LedgerExplainsBalances'
<1>1. IsFiniteSet(ledger) /\ \A x \in ledger : x.dAvailable \in Int /\ x.dHeld \in Int
  BY DEF LedgerInv, EntryOK
<1>2. /\ SumFunction([x \in ledger \cup {e} |-> x.dAvailable])
              = SumFunction([x \in ledger |-> x.dAvailable]) + e.dAvailable
      /\ SumFunction([x \in ledger \cup {e} |-> x.dHeld]) = SumFunction([x \in ledger |-> x.dHeld]) + e.dHeld
  BY <1>1, Posted
<1>3. /\ account'.available = SumFunction([x \in ledger' |-> x.dAvailable])
      /\ account'.held = SumFunction([x \in ledger' |-> x.dHeld])
  BY <1>2 DEF LedgerExplainsBalances
<1> QED BY <1>3 DEF LedgerExplainsBalances

LEMMA GrantCreditsKeeps ==
  ASSUME BooksInv, NEW s \in Sources, NEW amount \in GrantAmounts, NEW expires \in 1..NoExpiry,
         GrantCredits(s, amount, expires)
  PROVE  BooksInv'
<1> DEFINE g == [type |-> "SOURCE", id |-> s]
           e == Entry(<<"grant", s>>, "GRANT", s, amount, amount, 0, <<>>)
<1>1. /\ Typed /\ LedgerInv /\ LedgerExplainsBalances
      /\ account.available \in Nat /\ account.held \in Nat
  BY BooksAre
<1>2. /\ ~grants[g].exists /\ grants' = [grants EXCEPT ![g] = NewGrant(amount, expires)]
      /\ account' = [account EXCEPT !.available = @ + amount]
      /\ ledger' = ledger \cup {e} /\ UNCHANGED <<holds, usage, now>>
  BY DEF GrantCredits
<1>3. amount \in Nat /\ g \in GrantIds
  BY ConstantsOK DEF GrantIds, OutsideGrants
<1>4. /\ Typed' /\ GrantsInv' /\ HoldsInv' /\ UsageMatchesDebit'
      /\ BooksBalanced(account', grants', holds')
      /\ account'.available = account.available + amount /\ account'.held = account.held
      /\ \A i \in GrantIds : grants[i].exists => grants'[i].exists
      /\ grants'[g].exists /\ \A i \in GrantIds : i # g => grants'[i] = grants[i]
  <2> HIDE DEF g
  <2> QED BY <1>2, <1>3, NewGrantKeeps
<1>5. /\ e.kind = "GRANT" /\ e.id = s /\ e.amount = amount /\ e.dAvailable = amount /\ e.dHeld = 0
      /\ e.reverses = <<>>
  BY DEF Entry
<1> HIDE DEF e
<1>6. e \notin ledger
  BY <1>1, <1>2, <1>5 DEF LedgerInv, EntryOK
<1>7. EntryOK(e)'
  BY <1>3, <1>4, <1>5 DEF EntryOK
<1>8. LedgerInv'
  <2>1. \A ev \in Events : ReversalGrant(ev) \in GrantIds /\ ReversalGrant(ev) # g
    BY DEF GrantIds, ReversalGrant
  <2>2. IsFiniteSet({e})
    BY FS_Singleton
  <2>3. \A ev \in Events : ~EventUnused(ev) => ~EventUnused(ev)'
    BY <1>2 DEF EventUnused
  <2>4. \A x \in ledger \cup {e} : ~(SameConsume(e, x) \/ SameReversal(e, x))
    BY <1>5 DEF SameConsume, SameReversal
  <2>5. \A ev \in Events : grants'[ReversalGrant(ev)] = grants[ReversalGrant(ev)]
    BY <1>4, <2>1
  <2>6. \A k \in Keys : holds[k].state # "ABSENT" => holds'[k].state # "ABSENT"
    BY <1>2
  <2> HIDE DEF g
  <2> QED BY <1>1, <1>2, <1>4, <1>7, <2>2, <2>3, <2>4, <2>5, <2>6, LedgerGrows
<1>9. LedgerExplainsBalances'
  <2>1. account'.available = account.available + e.dAvailable /\ account'.held = account.held + e.dHeld
    BY <1>1, <1>4, <1>5
  <2>2. e.dAvailable \in Int /\ e.dHeld \in Int
    BY <1>3, <1>5
  <2> QED BY <1>1, <1>2, <1>6, <2>1, <2>2, OnePosted
<1>10. BalancesMatchGrants' /\ HeldIsBackedByOpenHolds' /\ CreditsConserved'
  BY <1>4, BooksRestatedNext DEF Typed
<1> QED BY <1>4, <1>8, <1>9, <1>10 DEF BooksInv

\* A debit that was not reversed has no grant in its name yet.
LEMMA ReverseKeeps ==
  ASSUME BooksInv, NEW original \in ledger, NEW key, NEW expires \in 1..NoExpiry,
         ReverseCreditDebit(original, key, expires)
  PROVE  BooksInv'
<1> DEFINE g == ReversalGrant(original.key[2])
           amount == original.amount
           e == Entry(<<"reversal", key>>, "REVERSAL", original.id, amount, amount, 0, original.key)
<1>1. /\ Typed /\ LedgerInv /\ LedgerExplainsBalances
      /\ account.available \in Nat /\ account.held \in Nat
  BY BooksAre
<1>2. /\ NotReversed(original) /\ original.kind = "CONSUME" /\ <<"reversal", key>> \notin EntryKeys
      /\ grants' = [grants EXCEPT ![g] = NewGrant(amount, expires)]
      /\ account' = [account EXCEPT !.available = @ + amount]
      /\ ledger' = ledger \cup {e} /\ UNCHANGED <<holds, usage, now>>
  BY DEF ReverseCreditDebit
<1>3. PICK ev \in Events : original.key = <<"consume", ev>>
  BY <1>1, <1>2 DEF LedgerInv, EntryOK
<1>4. amount \in Nat /\ g = ReversalGrant(ev) /\ g \in GrantIds
  <2>1. amount \in Nat
    BY <1>1 DEF LedgerInv, EntryOK
  <2>2. <<"consume", ev>>[2] = ev
    OBVIOUS
  <2>3. g = ReversalGrant(ev)
    BY <1>3, <2>2
  <2> QED BY <2>1, <2>3 DEF GrantIds
<1>5. ~grants[g].exists
  BY <1>1, <1>2, <1>3, <1>4 DEF LedgerInv, NotReversed
<1>6. /\ e.kind = "REVERSAL" /\ e.amount = amount /\ e.dAvailable = amount /\ e.dHeld = 0
      /\ e.reverses = original.key /\ e.key = <<"reversal", key>>
  BY DEF Entry
<1> HIDE DEF e, g, amount
<1>7. /\ Typed' /\ GrantsInv' /\ HoldsInv' /\ UsageMatchesDebit'
      /\ BooksBalanced(account', grants', holds')
      /\ account'.available = account.available + amount /\ account'.held = account.held
      /\ \A i \in GrantIds : grants[i].exists => grants'[i].exists
      /\ grants'[g].exists /\ \A i \in GrantIds : i # g => grants'[i] = grants[i]
  BY <1>2, <1>4, <1>5, NewGrantKeeps
<1>8. e \notin ledger
  BY <1>2, <1>6 DEF EntryKeys
<1>9. EntryOK(e)'
  <2>1. \E d \in ledger' : d.kind = "CONSUME" /\ d.key = e.reverses /\ d.amount = e.amount
    BY <1>2, <1>6 DEF amount
  <2> QED BY <1>4, <1>6, <2>1 DEF EntryOK
<1>10. LedgerInv'
  <2>2. IsFiniteSet({e})
    BY FS_Singleton
  <2>3. \A i \in Events : ~EventUnused(i) => ~EventUnused(i)'
    BY <1>2 DEF EventUnused
  <2>4. \A x \in ledger \cup {e} : SameConsume(e, x) \/ SameReversal(e, x) => e = x
    BY <1>2, <1>6 DEF SameConsume, SameReversal, NotReversed
  <2>5. ASSUME NEW i \in Events, grants'[ReversalGrant(i)].exists
        PROVE  \/ grants[ReversalGrant(i)].exists
               \/ e.kind = "REVERSAL" /\ e.reverses = <<"consume", i>>
    <3>1. CASE ReversalGrant(i) = g
      <4>1. i = ev
        BY <1>4, <3>1 DEF ReversalGrant
      <4> QED BY <1>3, <1>6, <4>1
    <3>2. CASE ReversalGrant(i) # g
      <4>1. ReversalGrant(i) \in GrantIds
        BY DEF GrantIds
      <4> QED BY <1>7, <2>5, <3>2, <4>1
    <3> QED BY <3>1, <3>2
  <2>6. \A k \in Keys : holds[k].state # "ABSENT" => holds'[k].state # "ABSENT"
    BY <1>2
  <2> QED BY <1>1, <1>2, <1>7, <1>9, <2>2, <2>3, <2>4, <2>5, <2>6, LedgerGrows
<1>11. LedgerExplainsBalances'
  <2>1. account'.available = account.available + e.dAvailable /\ account'.held = account.held + e.dHeld
    BY <1>1, <1>6, <1>7
  <2>2. e.dAvailable \in Int /\ e.dHeld \in Int
    BY <1>4, <1>6
  <2> QED BY <1>1, <1>2, <1>8, <2>1, <2>2, OnePosted
<1>12. BalancesMatchGrants' /\ HeldIsBackedByOpenHolds' /\ CreditsConserved'
  BY <1>7, BooksRestatedNext DEF Typed
<1> QED BY <1>7, <1>10, <1>11, <1>12 DEF BooksInv

\* Credits of the grants move between available, held and consumed.
LEMMA CreditsMove ==
  ASSUME Typed, GrantsInv, NEW a \in Amounts, NEW h \in Amounts,
         grants' = [g \in GrantIds |-> [grants[g] EXCEPT !.available = a[g], !.held = h[g]]],
         \A g \in GrantIds : ~grants[g].exists => a[g] = 0 /\ h[g] = 0
  PROVE  /\ grants' \in [GrantIds -> GrantRows] /\ GrantsInv'
         /\ AvailableIn(grants') = a /\ HeldIn(grants') = h
         /\ \A g \in GrantIds : /\ grants'[g].available = a[g] /\ grants'[g].held = h[g]
                                /\ grants'[g].original = grants[g].original
                                /\ grants'[g].expires = grants[g].expires
                                /\ grants'[g].exists <=> grants[g].exists
<1>1. grants \in [GrantIds -> GrantRows]
  BY DEF Typed
<1>2. ASSUME NEW g \in GrantIds
      PROVE  /\ grants'[g] \in GrantRows
             /\ grants'[g].available = a[g] /\ grants'[g].held = h[g]
             /\ grants'[g].original = grants[g].original /\ grants'[g].rank = grants[g].rank
             /\ grants'[g].expires = grants[g].expires
             /\ grants'[g].exists = grants[g].exists
  <2>1. grants[g] \in GrantRows /\ a[g] \in Nat /\ h[g] \in Nat
    BY <1>1 DEF Amounts
  <2>2. grants'[g] = [grants[g] EXCEPT !.available = a[g], !.held = h[g]]
    OBVIOUS
  <2> QED BY <2>1, <2>2 DEF GrantRows
<1>3. grants' \in [GrantIds -> GrantRows]
  BY <1>2
<1>4. AvailableIn(grants') = a /\ HeldIn(grants') = h
  BY <1>2 DEF AvailableIn, HeldIn, Amounts
<1>5. GrantsInv'
  <2>1. Existing' = Existing
    BY <1>2 DEF Existing
  <2>2. ASSUME NEW g \in GrantIds, ~grants'[g].exists PROVE grants'[g] = NoGrant
    <3>1. ~grants[g].exists
      BY <1>2, <2>2
    <3>2. grants[g] = NoGrant /\ a[g] = 0 /\ h[g] = 0
      BY <3>1 DEF GrantsInv
    <3>3. grants'[g] = [NoGrant EXCEPT !.available = 0, !.held = 0]
      BY <3>2
    <3> QED BY <3>3 DEF NoGrant
  <2>3. \A g \in Existing : g \in GrantIds
    BY DEF Existing
  <2>4. \A g \in Existing : grants'[g].rank = grants[g].rank
    BY <1>2, <2>3
  <2>5. \A g \in Existing' : grants'[g].rank \in 1..Cardinality(Existing')
    BY <2>1, <2>4 DEF GrantsInv
  <2>6. \A g, i \in Existing' : grants'[g].rank = grants'[i].rank => g = i
    <3> SUFFICES ASSUME NEW g \in Existing', NEW i \in Existing', grants'[g].rank = grants'[i].rank
                 PROVE  g = i
      OBVIOUS
    <3>1. g \in Existing /\ i \in Existing
      BY <2>1
    <3>2. grants[g].rank = grants[i].rank
      BY <2>4, <3>1
    <3> QED BY <3>1, <3>2 DEF GrantsInv
  <2> QED BY <2>2, <2>5, <2>6 DEF GrantsInv
<1> QED BY <1>2, <1>3, <1>4, <1>5

\* One hold changes: what depends on the others alone stands.
LEMMA OneHold ==
  ASSUME Typed, HoldsInv, UsageMatchesDebit, NEW k \in Keys, NEW row \in HoldRows,
         holds' = [holds EXCEPT ![k] = row],
         holds[k].state \in {"ABSENT", "HELD"},
         row.state = "ABSENT" => row = NoHold,
         row.state = "HELD" => row.event = NoEvent /\ row.consumed = NoAllocation,
         row.state \in {"FINALIZED", "RELEASED"} => row.event \in Events,
         row.actual \in 0..row.maximum \cup {None}
  PROVE  /\ holds' \in [Keys -> HoldRows] /\ HoldsInv'
         /\ holds'[k] = row /\ \A i \in Keys : i # k => holds'[i] = holds[i]
         /\ UNCHANGED usage => UsageMatchesDebit'
<1>1. holds \in [Keys -> HoldRows]
  BY DEF Typed
<1>2. holds' \in [Keys -> HoldRows] /\ holds'[k] = row /\ \A i \in Keys : i # k => holds'[i] = holds[i]
  BY <1>1
<1>3. HoldsInv'
  BY <1>2 DEF HoldsInv
<1>4. ASSUME UNCHANGED usage PROVE UsageMatchesDebit'
  <2>1. ASSUME NEW ev \in Events, usage'[ev] # None
        PROVE  \E i \in Keys : /\ holds'[i].state = "FINALIZED" /\ holds'[i].event = ev
                               /\ holds'[i].actual = usage'[ev]
    <3>1. PICK i \in Keys : /\ holds[i].state = "FINALIZED" /\ holds[i].event = ev
                            /\ holds[i].actual = usage[ev]
      BY <1>4, <2>1 DEF UsageMatchesDebit
    <3>2. i # k
      BY <3>1
    <3> QED BY <1>2, <1>4, <3>1, <3>2
  <2> QED BY <2>1 DEF UsageMatchesDebit
<1> QED BY <1>2, <1>3, <1>4

\* What a hold takes from the grants is its maximum, and no more than they have.
LEMMA HoldTakes ==
  ASSUME BooksInv, NEW maximum \in Nat,
         SumFunctionOnSet([g \in GrantIds |-> grants[g].available], UsableGrants) >= maximum
  PROVE  LET taken == TakeInOrder([g \in GrantIds |-> grants[g].available], UsableGrants, maximum)
         IN  /\ taken \in Amounts
             /\ \A g \in GrantIds : /\ taken[g] <= grants[g].available
                                    /\ ~grants[g].exists => taken[g] = 0
             /\ SumFunctionOnSet(taken, GrantIds) = maximum
<1> DEFINE offer == [g \in GrantIds |-> grants[g].available]
           taken == TakeInOrder(offer, UsableGrants, maximum)
<1>1. Typed /\ GrantsInv /\ grants \in [GrantIds -> GrantRows]
  BY BooksAre
<1>2. UsableGrants \subseteq Existing /\ UsableGrants \subseteq GrantIds
  BY DEF UsableGrants, Existing
<1>3. \A g \in GrantIds : offer[g] = grants[g].available /\ offer[g] \in Nat
  BY <1>1 DEF GrantRows
<1>4. SumFunctionOnSet(offer, UsableGrants) >= maximum
  OBVIOUS
<1> HIDE DEF offer
<1>5. /\ taken \in Amounts /\ \A g \in GrantIds \ UsableGrants : taken[g] = 0
      /\ \A g \in UsableGrants : taken[g] <= offer[g]
  BY <1>2, <1>3, TakenBounds
<1>6. SumFunctionOnSet(taken, UsableGrants) =
        IF maximum <= SumFunctionOnSet(offer, UsableGrants) THEN maximum
        ELSE SumFunctionOnSet(offer, UsableGrants)
  BY <1>1, <1>2, <1>3, TakenTotal
<1>7. SumFunctionOnSet(offer, UsableGrants) \in Int
  <2>1. Summable(offer, UsableGrants)
    BY <1>2, <1>3, GrantIdsFinite, FS_Subset DEF Summable
  <2> QED BY <2>1, SumType
<1>8. SumFunctionOnSet(taken, UsableGrants) = maximum
  BY <1>4, <1>6, <1>7
<1> HIDE DEF taken
<1>9. SumFunctionOnSet(taken, UsableGrants) = SumFunctionOnSet(taken, GrantIds)
  <2>1. Summable(taken, GrantIds)
    BY <1>5, GrantIdsFinite DEF Summable, Amounts
  <2> QED BY <1>2, <1>5, <2>1, SumPart
<1>10. ASSUME NEW g \in GrantIds
       PROVE  taken[g] <= grants[g].available /\ (~grants[g].exists => taken[g] = 0)
  <2>1. grants[g].available \in Nat
    BY <1>3
  <2> QED BY <1>3, <1>5, <2>1 DEF UsableGrants
<1> QED BY <1>5, <1>8, <1>9, <1>10 DEF taken, offer

LEMMA CreateHoldKeeps ==
  ASSUME BooksInv, NEW k \in Keys, NEW maximum \in Nat, CreateHold(k, maximum)
  PROVE  BooksInv'
<1> DEFINE taken == TakeInOrder([g \in GrantIds |-> grants[g].available], UsableGrants, maximum)
           a == [g \in GrantIds |-> grants[g].available - taken[g]]
           h == [g \in GrantIds |-> grants[g].held + taken[g]]
           row == [NoHold EXCEPT !.state = "HELD", !.maximum = maximum, !.allocated = taken]
           e == Entry(<<"hold", k>>, "HOLD", k, maximum, -maximum, maximum, <<>>)
<1>1. /\ Typed /\ GrantsInv /\ HoldsInv /\ LedgerInv /\ LedgerExplainsBalances /\ UsageMatchesDebit
      /\ BooksBalanced(account, grants, holds)
      /\ grants \in [GrantIds -> GrantRows] /\ holds \in [Keys -> HoldRows]
      /\ account.available \in Nat /\ account.held \in Nat
  BY BooksAre
<1>2. /\ holds[k].state = "ABSENT" /\ account.available >= maximum
      /\ SumFunctionOnSet([g \in GrantIds |-> grants[g].available], UsableGrants) >= maximum
      /\ grants' = [g \in GrantIds |-> [grants[g] EXCEPT !.available = @ - taken[g], !.held = @ + taken[g]]]
      /\ holds' = [holds EXCEPT ![k] = row]
      /\ account' = [available |-> account.available - maximum, held |-> account.held + maximum]
      /\ ledger' = ledger \cup {e} /\ UNCHANGED <<usage, now>>
  BY DEF CreateHold
<1>3. /\ taken \in Amounts
      /\ \A g \in GrantIds : taken[g] <= grants[g].available /\ (~grants[g].exists => taken[g] = 0)
      /\ SumFunctionOnSet(taken, GrantIds) = maximum
  BY <1>2, HoldTakes
<1> HIDE DEF taken
<1>20. holds[k].state = "ABSENT" /\ account.available >= maximum
  BY <1>2
<1>21. grants' = [g \in GrantIds |-> [grants[g] EXCEPT !.available = a[g], !.held = h[g]]]
  BY <1>1, <1>2
<1>4. \A g \in GrantIds : a[g] = grants[g].available - taken[g] /\ h[g] = grants[g].held + taken[g]
  OBVIOUS
<1>5. \A g \in GrantIds : /\ grants[g].available \in Nat /\ grants[g].held \in Nat /\ taken[g] \in Nat
                          /\ grants[g].original \in Nat
  BY <1>1, <1>3 DEF GrantRows, Amounts
<1>6. a \in Amounts /\ h \in Amounts
  <2>1. \A g \in GrantIds : grants[g].available - taken[g] \in Nat /\ grants[g].held + taken[g] \in Nat
    BY <1>3, <1>5
  <2> QED BY <2>1 DEF Amounts
<1>7. \A g \in GrantIds : ~grants[g].exists => a[g] = 0 /\ h[g] = 0
  <2>1. \A g \in GrantIds : ~grants[g].exists => grants[g].available = 0 /\ grants[g].held = 0
    BY <1>1 DEF GrantsInv, NoGrant
  <2> QED BY <1>3, <1>4, <2>1
<1> HIDE DEF a, h
<1>8. /\ grants' \in [GrantIds -> GrantRows] /\ GrantsInv'
      /\ AvailableIn(grants') = a /\ HeldIn(grants') = h
      /\ \A g \in GrantIds : /\ grants'[g].available = a[g] /\ grants'[g].held = h[g]
                             /\ grants'[g].original = grants[g].original
                             /\ grants'[g].exists <=> grants[g].exists
  <2>1. Typed /\ GrantsInv
    BY <1>1
  <2>2. /\ grants' \in [GrantIds -> GrantRows] /\ GrantsInv'
        /\ AvailableIn(grants') = a /\ HeldIn(grants') = h
        /\ \A g \in GrantIds : /\ grants'[g].available = a[g] /\ grants'[g].held = h[g]
                               /\ grants'[g].original = grants[g].original
                               /\ grants'[g].expires = grants[g].expires
                               /\ grants'[g].exists <=> grants[g].exists
    BY <1>6, <1>7, <1>21, <2>1, CreditsMove, Zenon
  <2> QED BY <2>2
<1>9. /\ row \in HoldRows /\ row.state = "HELD" /\ row.maximum = maximum /\ row.allocated = taken
      /\ row.consumed = NoAllocation /\ row.event = NoEvent /\ row.actual = None
  BY <1>3, EmptyRows DEF NoHold, HoldRows
<1> HIDE DEF row
<1>10. /\ holds' \in [Keys -> HoldRows] /\ HoldsInv'
       /\ holds'[k] = row /\ \A i \in Keys : i # k => holds'[i] = holds[i]
       /\ UsageMatchesDebit'
  BY <1>1, <1>2, <1>9, OneHold
<1>11. /\ account' \in [available : Nat, held : Nat]
       /\ account'.available = account.available - maximum /\ account'.held = account.held + maximum
  <2>1. account.available - maximum \in Nat /\ account.held + maximum \in Nat
    BY <1>1, <1>20
  <2> QED BY <1>2, <2>1
<1>12. Typed'
  BY <1>1, <1>2, <1>8, <1>10, <1>11 DEF Typed
<1>13. BooksBalanced(account', grants', holds')
  <2>1. Summable(taken, GrantIds) /\ Summable(a, GrantIds) /\ Summable(h, GrantIds)
    BY <1>3, <1>6, GrantIdsFinite DEF Summable, Amounts
  <2>2. account'.available = SumFunctionOnSet(a, GrantIds)
    <3> DEFINE old == AvailableIn(grants)
    <3>1. \A g \in GrantIds : old[g] = a[g] + taken[g]
      <4>1. \A g \in GrantIds : old[g] = grants[g].available
        BY DEF AvailableIn
      <4> QED BY <1>4, <1>5, <4>1
    <3>2. account.available = SumFunctionOnSet(old, GrantIds)
      BY <1>1 DEF BooksBalanced
    <3> HIDE DEF old
    <3>3. SumFunctionOnSet(old, GrantIds) = SumFunctionOnSet(a, GrantIds) + SumFunctionOnSet(taken, GrantIds)
      BY <2>1, <3>1, SumAdd
    <3>4. SumFunctionOnSet(a, GrantIds) \in Int
      BY <2>1, SumType
    <3> QED BY <1>3, <1>11, <3>2, <3>3, <3>4
  <2>3. account'.held = SumFunctionOnSet(h, GrantIds)
    <3> DEFINE old == HeldIn(grants)
    <3>1. (\A g \in GrantIds : h[g] = old[g] + taken[g]) /\ Summable(old, GrantIds)
      <4>1. \A g \in GrantIds : old[g] = grants[g].held
        BY DEF HeldIn
      <4> QED BY <1>1, <1>4, <4>1, ColumnTypes
    <3>2. account.held = SumFunctionOnSet(old, GrantIds)
      BY <1>1 DEF BooksBalanced
    <3> HIDE DEF old
    <3>3. SumFunctionOnSet(h, GrantIds) = SumFunctionOnSet(old, GrantIds) + SumFunctionOnSet(taken, GrantIds)
      BY <2>1, <3>1, SumAdd
    <3> QED BY <1>3, <1>11, <3>2, <3>3
  <2>4. OpenIn(holds') = OpenIn(holds) \cup {k} /\ k \notin OpenIn(holds)
    BY <1>2, <1>9, <1>10 DEF OpenIn
  <2>5. ASSUME NEW g \in GrantIds
        PROVE  grants'[g].held = SumFunctionOnSet(AllocatedIn(holds', g), OpenIn(holds'))
    <3> DEFINE old == AllocatedIn(holds, g)
               new == AllocatedIn(holds', g)
               S == OpenIn(holds)
    <3>1. (\A i \in S : new[i] = old[i]) /\ new[k] = taken[g]
      BY <1>9, <1>10, <2>4 DEF AllocatedIn, OpenIn
    <3>2. Summable(old, S) /\ Summable(new, S)
      <4>1. /\ Summable(old, Keys) /\ Summable(new, Keys) /\ S \subseteq Keys
        BY <1>1, <1>8, <1>10, ColumnTypes
      <4> HIDE DEF old, new, S
      <4> QED BY <4>1, SummableSubset
    <3>3. grants[g].held = SumFunctionOnSet(old, S)
      BY <1>1 DEF BooksBalanced
    <3> HIDE DEF old, new, S
    <3>4. SumFunctionOnSet(new, S) = SumFunctionOnSet(old, S)
      BY <3>1, <3>2, SumEqual
    <3>5. SumFunctionOnSet(new, S \cup {k}) = new[k] + SumFunctionOnSet(new, S)
      <4>1. k \notin S /\ new[k] \in Int
        BY <1>5, <2>4, <3>1 DEF S
      <4> QED BY <3>2, <4>1, SumInsert
    <3>6. taken[g] + grants[g].held = h[g]
      BY <1>4, <1>5
    <3>7. SumFunctionOnSet(new, S \cup {k}) = taken[g] + grants[g].held
      BY <3>1, <3>3, <3>4, <3>5
    <3> QED BY <1>8, <2>4, <3>6, <3>7 DEF new, S
  <2>6. \A i \in Keys : holds'[i].maximum = SumFunctionOnSet(holds'[i].allocated, GrantIds)
    BY <1>1, <1>3, <1>9, <1>10 DEF BooksBalanced
  <2>7. ASSUME NEW g \in GrantIds
        PROVE  grants'[g].original = grants'[g].available + grants'[g].held
                                       + SumFunctionOnSet(ConsumedIn(holds', g), Keys)
    <3>1. ConsumedIn(holds', g) = ConsumedIn(holds, g)
      <4>1. holds[k].consumed = NoAllocation
        BY <1>1, <1>20 DEF HoldsInv, NoHold
      <4> QED BY <1>9, <1>10, <4>1 DEF ConsumedIn
    <3> DEFINE c == SumFunctionOnSet(ConsumedIn(holds, g), Keys)
    <3>2. c \in Int /\ grants[g].original = grants[g].available + grants[g].held + c
      BY <1>1, ColumnTypes, SumType DEF BooksBalanced
    <3> HIDE DEF c
    <3>3. grants[g].available + grants[g].held + c = a[g] + h[g] + c
      BY <1>4, <1>5, <3>2
    <3> QED BY <1>8, <3>1, <3>2, <3>3 DEF c
  <2> QED BY <1>8, <2>2, <2>3, <2>5, <2>6, <2>7 DEF BooksBalanced
<1>14. /\ e.kind = "HOLD" /\ e.id = k /\ e.amount = maximum /\ e.dAvailable = -maximum /\ e.dHeld = maximum
       /\ e.reverses = <<>>
  BY DEF Entry
<1> HIDE DEF e
<1>15. e \notin ledger
  BY <1>1, <1>2, <1>14 DEF LedgerInv, EntryOK
<1>16. e.amount \in Nat /\ e.dAvailable \in Int /\ e.dHeld \in Int
  BY <1>14
<1>17. LedgerInv'
  <2>1. EntryOK(e)'
    BY <1>9, <1>10, <1>14, <1>16 DEF EntryOK
  <2>2. IsFiniteSet({e})
    BY FS_Singleton
  <2>3. \A ev \in Events : ~EventUnused(ev) => ~EventUnused(ev)'
    <3>1. holds[k].event = NoEvent
      BY <1>1, <1>20 DEF HoldsInv, NoHold
    <3> QED BY <1>10, <3>1, TablesFinite DEF EventUnused
  <2>4. \A x \in ledger \cup {e} : ~(SameConsume(e, x) \/ SameReversal(e, x))
    BY <1>14 DEF SameConsume, SameReversal
  <2>5. \A ev \in Events : grants'[ReversalGrant(ev)].exists <=> grants[ReversalGrant(ev)].exists
    BY <1>8 DEF GrantIds
  <2>6. \A i \in Keys : holds[i].state # "ABSENT" => holds'[i].state # "ABSENT"
    BY <1>9, <1>10
  <2>7. \A g \in GrantIds : grants[g].exists => grants'[g].exists
    BY <1>8
  <2>8. ledger' = ledger \cup {e}
    BY <1>2
  <2> QED BY <1>1, <2>1, <2>2, <2>3, <2>4, <2>5, <2>6, <2>7, <2>8, LedgerGrows
<1>18. LedgerExplainsBalances'
  <2>1. account'.available = account.available + e.dAvailable /\ account'.held = account.held + e.dHeld
    BY <1>1, <1>11, <1>14
  <2> QED BY <1>1, <1>2, <1>15, <1>16, <2>1, OnePosted
<1>19. BalancesMatchGrants' /\ HeldIsBackedByOpenHolds' /\ CreditsConserved'
  BY <1>10, <1>13, BooksRestatedNext
<1> QED BY <1>8, <1>10, <1>12, <1>17, <1>18, <1>19 DEF BooksInv

\* What a settlement does to the hold, its grants and the account.
Settles(k, state, actual, ev, consumed) ==
  /\ SettleGrants(k, consumed)
  /\ holds' = [holds EXCEPT ![k] = SettledHold(k, state, actual, ev, consumed)]
  /\ account'.available = account.available + (holds[k].maximum - actual)
  /\ account'.held = account.held - holds[k].maximum

\* A hold is settled: what was consumed leaves the grants, the rest returns.
LEMMA SettleKeeps ==
  ASSUME BooksInv, NEW k \in Keys, Settleable(k), NEW state \in {"FINALIZED", "RELEASED"},
         NEW actual \in Nat, actual <= holds[k].maximum, NEW ev \in Events,
         NEW consumed \in Amounts, \A g \in GrantIds : consumed[g] <= holds[k].allocated[g],
         SumFunctionOnSet(consumed, GrantIds) = actual,
         Settles(k, state, actual, ev, consumed)
  PROVE  /\ account'.available \in Nat /\ account'.held \in Nat
         /\ grants' \in [GrantIds -> GrantRows] /\ GrantsInv'
         /\ \A g \in GrantIds : grants'[g].exists <=> grants[g].exists
         /\ holds' \in [Keys -> HoldRows] /\ HoldsInv'
         /\ holds'[k].state = state /\ holds'[k].event = ev /\ holds'[k].actual = actual
         /\ \A i \in Keys : i # k => holds'[i] = holds[i]
         /\ UNCHANGED usage => UsageMatchesDebit'
         /\ BooksBalanced(account', grants', holds')
<1> USE DEF Settles
<1> DEFINE alloc == holds[k].allocated
           a == [g \in GrantIds |-> grants[g].available + alloc[g] - consumed[g]]
           h == [g \in GrantIds |-> grants[g].held - alloc[g]]
           row == SettledHold(k, state, actual, ev, consumed)
<1>1. /\ Typed /\ GrantsInv /\ HoldsInv /\ UsageMatchesDebit
      /\ BooksBalanced(account, grants, holds)
      /\ grants \in [GrantIds -> GrantRows] /\ holds \in [Keys -> HoldRows]
      /\ account.available \in Nat /\ account.held \in Nat
  BY BooksAre
<1>2. /\ holds[k].state = "HELD" /\ holds[k] \in HoldRows /\ holds[k].maximum \in Nat
      /\ alloc \in Amounts /\ \A g \in GrantIds : alloc[g] \in Nat /\ consumed[g] \in Nat
  BY <1>1 DEF Settleable, HoldRows, Amounts
<1>3. /\ Summable(alloc, GrantIds) /\ Summable(consumed, GrantIds)
      /\ SumFunctionOnSet(alloc, GrantIds) = holds[k].maximum
  BY <1>1, <1>2, GrantIdsFinite DEF BooksBalanced, Summable
<1>4. \A g \in GrantIds : /\ a[g] = grants[g].available + alloc[g] - consumed[g]
                          /\ h[g] = grants[g].held - alloc[g] /\ consumed[g] <= alloc[g]
  OBVIOUS
<1>5. \A g \in GrantIds : /\ grants[g].available \in Nat /\ grants[g].held \in Nat
                          /\ grants[g].original \in Nat
  BY <1>1 DEF GrantRows
<1>6. grants' = [g \in GrantIds |-> [grants[g] EXCEPT !.available = a[g], !.held = h[g]]]
  BY <1>1 DEF SettleGrants
<1>7. k \in OpenIn(holds)
  BY <1>2 DEF OpenIn
<1> HIDE DEF a, h, alloc
<1>8. ASSUME NEW g \in GrantIds
      PROVE  /\ grants[g].held = alloc[g] + SumFunctionOnSet(AllocatedIn(holds, g), OpenIn(holds) \ {k})
             /\ alloc[g] <= grants[g].held
  <2> DEFINE f == AllocatedIn(holds, g)
             S == OpenIn(holds)
  <2>1. Summable(f, S) /\ (\A i \in S : f[i] \in Nat)
    <3>1. Summable(f, Keys) /\ S \subseteq Keys /\ \A i \in Keys : f[i] \in Nat
      BY <1>1, ColumnTypes
    <3> HIDE DEF f, S
    <3> QED BY <3>1, SummableSubset
  <2>2. f[k] = alloc[g] /\ grants[g].held = SumFunctionOnSet(f, S)
    BY <1>1 DEF AllocatedIn, BooksBalanced, alloc
  <2> HIDE DEF f, S
  <2>3. k \in S
    BY <1>7 DEF S
  <2>4. SumFunctionOnSet(f, S) = f[k] + SumFunctionOnSet(f, S \ {k})
    BY <2>1, <2>3, SumRemove
  <2>5. f[k] <= SumFunctionOnSet(f, S)
    BY <2>1, <2>3, SumMember
  <2> QED BY <2>2, <2>4, <2>5 DEF f, S
<1>9. a \in Amounts /\ h \in Amounts
  <2>1. \A g \in GrantIds : a[g] \in Nat /\ h[g] \in Nat
    BY <1>2, <1>4, <1>5, <1>8
  <2>2. a = [g \in GrantIds |-> a[g]] /\ h = [g \in GrantIds |-> h[g]]
    BY DEF a, h
  <2> QED BY <2>1, <2>2 DEF Amounts
<1>10. \A g \in GrantIds : ~grants[g].exists => a[g] = 0 /\ h[g] = 0
  <2>1. \A g \in GrantIds : ~grants[g].exists => grants[g].available = 0 /\ grants[g].held = 0
    BY <1>1 DEF GrantsInv, NoGrant
  <2> QED BY <1>2, <1>4, <1>8, <2>1
<1>11. /\ grants' \in [GrantIds -> GrantRows] /\ GrantsInv'
       /\ AvailableIn(grants') = a /\ HeldIn(grants') = h
       /\ \A g \in GrantIds : /\ grants'[g].available = a[g] /\ grants'[g].held = h[g]
                              /\ grants'[g].original = grants[g].original
                              /\ grants'[g].expires = grants[g].expires
                              /\ grants'[g].exists <=> grants[g].exists
  <2>1. Typed /\ GrantsInv
    BY <1>1
  <2> QED BY <1>6, <1>9, <1>10, <2>1, CreditsMove, Zenon
<1>12. /\ row \in HoldRows /\ row.state = state /\ row.event = ev /\ row.actual = actual
       /\ row.maximum = holds[k].maximum /\ row.allocated = alloc /\ row.consumed = consumed
  BY <1>2 DEF SettledHold, HoldRows, alloc
<1>13. row.actual \in 0..row.maximum
  BY <1>2, <1>12
<1> HIDE DEF row
<1>14. /\ holds' \in [Keys -> HoldRows] /\ HoldsInv'
       /\ holds'[k] = row /\ \A i \in Keys : i # k => holds'[i] = holds[i]
       /\ UNCHANGED usage => UsageMatchesDebit'
  <2>1. holds' = [holds EXCEPT ![k] = row]
    BY DEF row
  <2> QED BY <1>1, <1>2, <1>12, <1>13, <2>1, OneHold
<1>15. Summable(a, GrantIds) /\ Summable(h, GrantIds) /\ \A g \in GrantIds : h[g] \in Nat
  BY <1>9, GrantIdsFinite DEF Summable, Amounts
<1>16. account'.available = SumFunctionOnSet(a, GrantIds) /\ account'.available \in Nat
  <2> DEFINE old == AvailableIn(grants)
             released == [g \in GrantIds |-> alloc[g] - consumed[g]]
  <2>1. \A g \in GrantIds : released[g] = alloc[g] - consumed[g] /\ old[g] = grants[g].available
    BY DEF AvailableIn
  <2>2. Summable(old, GrantIds) /\ account.available = SumFunctionOnSet(old, GrantIds)
    BY <1>1, ColumnTypes DEF BooksBalanced
  <2> HIDE DEF old, released
  <2>3. Summable(released, GrantIds)
    BY <1>2, <2>1, GrantIdsFinite DEF Summable
  <2>4. (\A g \in GrantIds : alloc[g] = released[g] + consumed[g]) /\ \A g \in GrantIds : a[g] = old[g] + released[g]
    BY <1>2, <1>4, <1>5, <2>1
  <2>5. SumFunctionOnSet(alloc, GrantIds) = SumFunctionOnSet(released, GrantIds) + SumFunctionOnSet(consumed, GrantIds)
    BY <1>3, <2>3, <2>4, SumAdd
  <2>6. SumFunctionOnSet(a, GrantIds) = SumFunctionOnSet(old, GrantIds) + SumFunctionOnSet(released, GrantIds)
    BY <2>2, <2>3, <2>4, SumAdd
  <2> DEFINE r == SumFunctionOnSet(released, GrantIds)
  <2>7. r \in Int /\ holds[k].maximum = r + actual /\ SumFunctionOnSet(a, GrantIds) = account.available + r
    BY <1>3, <2>2, <2>3, <2>5, <2>6, SumType
  <2> HIDE DEF r
  <2>8. r = holds[k].maximum - actual /\ r \in Nat
    BY <1>2, <2>7
  <2> QED BY <1>1, <2>7, <2>8
<1>17. account'.held = SumFunctionOnSet(h, GrantIds) /\ account'.held \in Nat
  <2> DEFINE old == HeldIn(grants)
  <2>1. \A g \in GrantIds : old[g] = grants[g].held
    BY DEF HeldIn
  <2>2. account.held = SumFunctionOnSet(old, GrantIds)
    BY <1>1 DEF BooksBalanced
  <2> HIDE DEF old
  <2>3. \A g \in GrantIds : old[g] = h[g] + alloc[g]
    BY <1>2, <1>4, <1>5, <2>1
  <2>4. SumFunctionOnSet(old, GrantIds) = SumFunctionOnSet(h, GrantIds) + SumFunctionOnSet(alloc, GrantIds)
    BY <1>3, <1>15, <2>3, SumAdd
  <2>5. SumFunctionOnSet(h, GrantIds) \in Nat
    BY <1>15, SumType
  <2> DEFINE s == SumFunctionOnSet(h, GrantIds)
  <2>6. s \in Nat /\ account.held = s + holds[k].maximum
    BY <1>3, <2>2, <2>4, <2>5
  <2> HIDE DEF s
  <2>7. account'.held = s
    BY <1>2, <2>6
  <2> QED BY <2>6, <2>7 DEF s
<1>18. BooksBalanced(account', grants', holds')
  <2>1. OpenIn(holds') = OpenIn(holds) \ {k}
    BY <1>12, <1>14 DEF OpenIn
  <2>2. ASSUME NEW g \in GrantIds
        PROVE  grants'[g].held = SumFunctionOnSet(AllocatedIn(holds', g), OpenIn(holds'))
    <3> DEFINE old == AllocatedIn(holds, g)
               new == AllocatedIn(holds', g)
               S == OpenIn(holds) \ {k}
    <3>1. \A i \in S : new[i] = old[i]
      BY <1>14 DEF AllocatedIn, OpenIn
    <3>2. Summable(old, S)
      <4>1. Summable(old, Keys) /\ S \subseteq Keys
        BY <1>1, ColumnTypes
      <4> HIDE DEF old, S
      <4> QED BY <4>1, SummableSubset
    <3>3. grants[g].held = alloc[g] + SumFunctionOnSet(old, S)
      BY <1>8
    <3> HIDE DEF old, new, S
    <3>4. SumFunctionOnSet(new, S) = SumFunctionOnSet(old, S) /\ SumFunctionOnSet(old, S) \in Int
      BY <3>1, <3>2, SumEqual, SumType
    <3> DEFINE s == SumFunctionOnSet(old, S)
    <3>5. s \in Int /\ grants[g].held = alloc[g] + s /\ SumFunctionOnSet(new, S) = s
      BY <3>3, <3>4
    <3> HIDE DEF s
    <3>6. h[g] = s
      BY <1>2, <1>4, <1>5, <3>5
    <3> QED BY <1>11, <2>1, <3>5, <3>6 DEF new, S
  <2>3. \A i \in Keys : holds'[i].maximum = SumFunctionOnSet(holds'[i].allocated, GrantIds)
    BY <1>1, <1>3, <1>12, <1>14 DEF BooksBalanced
  <2>4. ASSUME NEW g \in GrantIds
        PROVE  grants'[g].original = grants'[g].available + grants'[g].held
                                       + SumFunctionOnSet(ConsumedIn(holds', g), Keys)
    <3> DEFINE old == ConsumedIn(holds, g)
               new == ConsumedIn(holds', g)
    <3>1. (\A i \in Keys : i # k => new[i] = old[i]) /\ new[k] = consumed[g] /\ Summable(old, Keys)
      BY <1>1, <1>12, <1>14, ColumnTypes DEF ConsumedIn
    <3>2. old[k] = 0
      BY <1>1, <1>2, EmptyRows DEF ConsumedIn, HoldsInv
    <3>3. grants[g].original = grants[g].available + grants[g].held + SumFunctionOnSet(old, Keys)
      BY <1>1 DEF BooksBalanced
    <3> HIDE DEF old, new
    <3>4. new[k] \in Int
      BY <1>2, <3>1
    <3>5. SumFunctionOnSet(new, Keys) = SumFunctionOnSet(old, Keys) - old[k] + new[k]
      <4>1. Summable(old, Keys)
        BY <3>1
      <4>2. \A i \in Keys : i # k => new[i] = old[i]
        BY <3>1
      <4>3. k \in Keys
        OBVIOUS
      <4>4. \A f, q, S, x : Summable(f, S) /\ x \in S /\ q[x] \in Int /\ (\A y \in S : y # x => q[y] = f[y])
              => SumFunctionOnSet(q, S) = SumFunctionOnSet(f, S) - f[x] + q[x]
        BY SumChange
      <4> QED BY <3>4, <4>1, <4>2, <4>3, <4>4
    <3> DEFINE c == SumFunctionOnSet(old, Keys)
    <3>6. /\ c \in Int /\ SumFunctionOnSet(new, Keys) = c - 0 + consumed[g]
          /\ grants[g].original = grants[g].available + grants[g].held + c
      BY <3>1, <3>2, <3>3, <3>5, SumType
    <3> HIDE DEF c
    <3>7. grants[g].original = a[g] + h[g] + (c - 0 + consumed[g])
      BY <1>2, <1>4, <1>5, <3>6
    <3> QED BY <1>11, <3>6, <3>7 DEF new
  <2> QED BY <1>11, <1>16, <1>17, <2>2, <2>3, <2>4 DEF BooksBalanced
<1> QED BY <1>11, <1>12, <1>14, <1>16, <1>17, <1>18

\* The entries of a settlement bear the event, so none of them is there yet.
LEMMA SettlementPosted ==
  ASSUME BooksInv, NEW k \in Keys, holds[k].state = "HELD", NEW ev \in Events, EventUnused(ev),
         NEW actual \in Nat, NEW released \in Nat, holds[k].maximum = actual + released,
         ledger' = ledger \cup SettlementEntries(k, ev, actual, released),
         account'.available = account.available + released,
         account'.held = account.held - holds[k].maximum,
         holds'[k].state # "ABSENT", holds'[k].event = ev,
         \A i \in Keys : i # k => holds'[i] = holds[i],
         \A g \in GrantIds : grants'[g].exists <=> grants[g].exists
  PROVE  LedgerInv' /\ LedgerExplainsBalances'
<1> DEFINE c == Entry(<<"consume", ev>>, "CONSUME", k, actual, 0, -actual, <<>>)
           r == Entry(<<"release", ev>>, "RELEASE", k, released, released, -released, <<>>)
           L == IF actual > 0 THEN ledger \cup {c} ELSE ledger
           N == SettlementEntries(k, ev, actual, released)
<1>1. /\ LedgerInv /\ LedgerExplainsBalances /\ HoldsInv
      /\ account.available \in Nat /\ account.held \in Nat
  BY BooksAre
<1>2. /\ c.kind = "CONSUME" /\ c.amount = actual /\ c.dAvailable = 0 /\ c.dHeld = -actual
      /\ c.key = <<"consume", ev>> /\ c.reverses = <<>>
      /\ r.kind = "RELEASE" /\ r.amount = released /\ r.dAvailable = released /\ r.dHeld = -released
      /\ r.key = <<"release", ev>> /\ r.reverses = <<>>
  BY DEF Entry
<1>3. N = {x \in {c, r} : x.amount > 0}
  BY DEF SettlementEntries
<1> HIDE DEF c, r, N
<1>4. IsFiniteSet(ledger) /\ \A x \in ledger : EntryOK(x)
  BY <1>1 DEF LedgerInv
<1>5. \A i, j \in Events : <<"consume", i>> = <<"consume", j>> \/ <<"release", i>> = <<"release", j>> => i = j
  OBVIOUS
<1>6. ASSUME NEW x \in ledger PROVE ~(x.kind = "CONSUME" /\ x.key = <<"consume", ev>>) /\ x # c
  <2>1. SUFFICES ASSUME x.kind = "CONSUME", x.key = <<"consume", ev>> PROVE FALSE
    BY <1>2
  <2>2. PICK i \in Events : x.key = <<"consume", i>> /\ ~EventUnused(i)
    BY <1>4, <2>1 DEF EntryOK
  <2>3. i = ev
    BY <1>5, <2>1, <2>2
  <2> QED BY <2>2, <2>3
<1>7. ASSUME NEW x \in ledger PROVE x # r
  <2>1. SUFFICES ASSUME x.kind = "RELEASE", x.key = <<"release", ev>> PROVE FALSE
    BY <1>2
  <2>2. PICK i \in Events : x.key = <<"release", i>> /\ ~EventUnused(i)
    BY <1>4, <2>1 DEF EntryOK
  <2>3. i = ev
    BY <1>5, <2>1, <2>2
  <2> QED BY <2>2, <2>3
<1>8. ~EventUnused(ev)'
  BY DEF EventUnused
<1>9. c # r
  BY <1>2
<1>10. IsFiniteSet(N) /\ N \subseteq {c, r}
  <2>1. IsFiniteSet({c} \cup {r})
    BY FS_Singleton, FS_AddElement
  <2>2. N \subseteq {c} \cup {r}
    BY <1>3
  <2> QED BY <2>1, <2>2, FS_Subset
<1>11. EntryOK(c)' /\ EntryOK(r)'
  <2>1. c.amount \in Nat /\ c.dAvailable \in Int /\ c.dHeld \in Int
    BY <1>2
  <2>2. r.amount \in Nat /\ r.dAvailable \in Int /\ r.dHeld \in Int
    BY <1>2
  <2>3. EntryOK(c)'
    BY <1>2, <1>8, <2>1 DEF EntryOK
  <2>4. EntryOK(r)'
    BY <1>2, <1>8, <2>2 DEF EntryOK
  <2> QED BY <2>3, <2>4
<1>12. LedgerInv'
  <2>1. \A i \in Events : ~EventUnused(i) => ~EventUnused(i)'
    <3>1. holds[k].event = NoEvent
      BY <1>1 DEF HoldsInv
    <3> QED BY <3>1, TablesFinite DEF EventUnused
  <2>2. \A d \in N, x \in ledger \cup N : SameConsume(d, x) \/ SameReversal(d, x) => d = x
    BY <1>2, <1>6, <1>10 DEF SameConsume, SameReversal
  <2>3. \A i \in Keys : holds[i].state # "ABSENT" => holds'[i].state # "ABSENT"
    OBVIOUS
  <2>4. \A i \in Events : grants'[ReversalGrant(i)].exists <=> grants[ReversalGrant(i)].exists
    BY DEF GrantIds
  <2>5. ledger' = ledger \cup N
    BY DEF N
  <2>6. \A x \in N : EntryOK(x)'
    BY <1>10, <1>11
  <2>7. \A g \in GrantIds : grants[g].exists => grants'[g].exists
    OBVIOUS
  <2> QED BY <1>1, <1>10, <2>1, <2>2, <2>3, <2>4, <2>5, <2>6, <2>7, LedgerGrows
<1>13. LedgerExplainsBalances'
  <2> DEFINE A(M) == SumFunction([x \in M |-> x.dAvailable])
             H(M) == SumFunction([x \in M |-> x.dHeld])
  <2>1. account.available = A(ledger) /\ account.held = H(ledger)
    BY <1>1 DEF LedgerExplainsBalances
  <2>2. \A x \in ledger : x.dAvailable \in Int /\ x.dHeld \in Int
    BY <1>4 DEF EntryOK
  <2>3. /\ IsFiniteSet(L) /\ A(L) = account.available /\ H(L) = account.held - actual
        /\ \A x \in L : x # r /\ x.dAvailable \in Int /\ x.dHeld \in Int
    <3>1. CASE actual > 0
      <4>1. L = ledger \cup {c}
        BY <3>1
      <4>2. c.dAvailable \in Int /\ c.dHeld \in Int /\ c \notin ledger
        BY <1>2, <1>6
      <4>3. /\ IsFiniteSet(ledger \cup {c}) /\ A(ledger \cup {c}) = A(ledger) + c.dAvailable
            /\ H(ledger \cup {c}) = H(ledger) + c.dHeld
        BY <1>4, <2>2, <4>2, Posted
      <4> HIDE DEF L, A, H
      <4>4. A(L) = account.available /\ H(L) = account.held - actual
        BY <1>1, <1>2, <2>1, <4>1, <4>3
      <4> QED BY <1>7, <1>9, <2>2, <4>1, <4>2, <4>3, <4>4
    <3>2. CASE actual = 0
      <4>1. L = ledger
        BY <3>2
      <4> HIDE DEF L, A, H
      <4>2. H(L) = account.held - actual
        BY <1>1, <2>1, <3>2, <4>1
      <4> QED BY <1>4, <1>7, <2>1, <2>2, <4>1, <4>2
    <3> QED BY <3>1, <3>2
  <2>4. A(ledger') = A(L) + released /\ H(ledger') = H(L) - released
    <3>1. CASE released > 0
      <4>1. ledger' = L \cup {r}
        BY <1>2, <1>3, <3>1 DEF N
      <4>2. r.dAvailable \in Int /\ r.dHeld \in Int /\ r \notin L
        BY <1>2, <2>3
      <4> HIDE DEF L
      <4>3. A(L \cup {r}) = A(L) + r.dAvailable /\ H(L \cup {r}) = H(L) + r.dHeld
        BY <2>3, <4>2, Posted
      <4> HIDE DEF A, H
      <4>4. H(L) \in Int
        BY <1>1, <2>3
      <4> QED BY <1>2, <4>1, <4>3, <4>4
    <3>2. CASE released = 0
      <4>1. ledger' = L
        BY <1>2, <1>3, <3>2 DEF N
      <4> HIDE DEF L, A, H
      <4>2. A(L) \in Int /\ H(L) \in Int
        BY <1>1, <2>3
      <4>3. A(L) = A(L) + released /\ H(L) = H(L) - released
        BY <3>2, <4>2
      <4> QED BY <4>1, <4>3
    <3> QED BY <3>1, <3>2
  <2>5. holds[k].maximum \in Nat /\ holds[k].maximum = actual + released
    OBVIOUS
  <2> HIDE DEF A, H, L
  <2>6. account'.available = A(ledger') /\ account'.held = H(ledger')
    BY <1>1, <2>3, <2>4, <2>5
  <2> QED BY <2>6 DEF LedgerExplainsBalances, A, H
<1> QED BY <1>12, <1>13

\* finalize_hold consumes the actual amount in the order of the grants.
LEMMA FinalizeKeeps ==
  ASSUME BooksInv, NEW k \in Keys, NEW actual \in Nat, NEW ev \in Events, FinalizeHold(k, actual, ev),
         usage' = usage \/ (usage' = [usage EXCEPT ![ev] = actual])
  PROVE  BooksInv'
<1> DEFINE alloc == holds[k].allocated
           rows == {g \in GrantIds : alloc[g] > 0}
           consumed == TakeInOrder(alloc, rows, actual)
           released == holds[k].maximum - actual
<1>1. /\ Typed /\ LedgerInv /\ LedgerExplainsBalances /\ UsageMatchesDebit
      /\ holds \in [Keys -> HoldRows] /\ account.available \in Nat /\ account.held \in Nat
  BY BooksAre
<1>2. /\ Settleable(k) /\ actual <= holds[k].maximum /\ EventUnused(ev)
      /\ SumFunctionOnSet(consumed, rows) = actual
      /\ account' = [available |-> account.available + released, held |-> account.held - holds[k].maximum]
      /\ SettleGrants(k, consumed)
      /\ holds' = [holds EXCEPT ![k] = SettledHold(k, "FINALIZED", actual, ev, consumed)]
      /\ ledger' = ledger \cup SettlementEntries(k, ev, actual, released)
      /\ UNCHANGED now
  BY DEF FinalizeHold
<1>3. /\ holds[k].state = "HELD" /\ holds[k].maximum \in Nat /\ released \in Nat
      /\ holds[k].maximum = actual + released
  <2>1. holds[k].state = "HELD" /\ holds[k].maximum \in Nat
    BY <1>1, <1>2 DEF Settleable, HoldRows
  <2> QED BY <1>2, <2>1
<1>4. rows \subseteq GrantIds /\ \A g \in GrantIds : alloc[g] \in Nat
  BY <1>1 DEF HoldRows, Amounts
<1>5. \A g \in GrantIds \ rows : alloc[g] = 0
  BY <1>4
<1> HIDE DEF alloc, rows
<1>6. /\ consumed \in Amounts /\ \A g \in GrantIds \ rows : consumed[g] = 0
      /\ \A g \in rows : consumed[g] <= alloc[g]
  <2>1. \A g \in rows : alloc[g] \in Nat
    BY <1>4
  <2>2. rows \subseteq GrantIds
    BY <1>4
  <2>3. \A o, R, n : R \subseteq GrantIds /\ (\A g \in R : o[g] \in Nat) /\ n \in Nat =>
          /\ TakeInOrder(o, R, n) \in Amounts
          /\ \A g \in GrantIds \ R : TakeInOrder(o, R, n)[g] = 0
          /\ \A g \in R : TakeInOrder(o, R, n)[g] <= o[g]
    BY TakenBounds
  <2> QED BY <2>1, <2>2, <2>3
<1> HIDE DEF consumed
<1>7. SumFunctionOnSet(consumed, GrantIds) = actual
  <2>1. Summable(consumed, GrantIds)
    BY <1>6, GrantIdsFinite DEF Summable, Amounts
  <2>2. SumFunctionOnSet(consumed, rows) = SumFunctionOnSet(consumed, GrantIds)
    BY <1>4, <1>6, <2>1, SumPart
  <2> QED BY <1>2, <2>2
<1>8. \A g \in GrantIds : consumed[g] <= holds[k].allocated[g]
  <2>1. \A g \in GrantIds : consumed[g] <= alloc[g]
    BY <1>4, <1>5, <1>6
  <2> QED BY <2>1 DEF alloc
<1>9. account'.available = account.available + released /\ account'.held = account.held - holds[k].maximum
  BY <1>2
<1>10. /\ account'.available \in Nat /\ account'.held \in Nat
       /\ grants' \in [GrantIds -> GrantRows] /\ GrantsInv'
       /\ \A g \in GrantIds : grants'[g].exists <=> grants[g].exists
       /\ holds' \in [Keys -> HoldRows] /\ HoldsInv'
       /\ holds'[k].state = "FINALIZED" /\ holds'[k].event = ev /\ holds'[k].actual = actual
       /\ \A i \in Keys : i # k => holds'[i] = holds[i]
       /\ UNCHANGED usage => UsageMatchesDebit'
       /\ BooksBalanced(account', grants', holds')
  <2>1. Settles(k, "FINALIZED", actual, ev, consumed)
    BY <1>2, <1>9 DEF Settles
  <2> QED BY <1>2, <1>6, <1>7, <1>8, <2>1, SettleKeeps
<1>11. usage' \in [Events -> Nat \cup {None}]
  BY <1>1 DEF Typed
<1>12. account' \in [available : Nat, held : Nat]
  BY <1>2, <1>9, <1>10
<1>13. Typed'
  BY <1>1, <1>2, <1>10, <1>11, <1>12 DEF Typed
<1>14. UsageMatchesDebit'
  <2>1. CASE usage' = usage
    BY <1>10, <2>1
  <2>2. CASE usage' = [usage EXCEPT ![ev] = actual]
    <3>1. usage'[ev] = actual /\ \A i \in Events : i # ev => usage'[i] = usage[i]
      BY <1>1, <2>2 DEF Typed
    <3>2. ASSUME NEW i \in Events, usage'[i] # None
          PROVE  \E j \in Keys : /\ holds'[j].state = "FINALIZED" /\ holds'[j].event = i
                                 /\ holds'[j].actual = usage'[i]
      <4>1. CASE i = ev
        BY <1>10, <3>1, <4>1
      <4>2. CASE i # ev
        <5>1. PICK j \in Keys : /\ holds[j].state = "FINALIZED" /\ holds[j].event = i
                                /\ holds[j].actual = usage[i]
          BY <1>1, <3>1, <3>2, <4>2 DEF UsageMatchesDebit
        <5>2. j # k
          BY <1>3, <5>1
        <5> QED BY <1>10, <3>1, <4>2, <5>1, <5>2
      <4> QED BY <4>1, <4>2
    <3> QED BY <3>2 DEF UsageMatchesDebit
  <2> QED BY <2>1, <2>2
<1>15. LedgerInv' /\ LedgerExplainsBalances'
  <2>1. holds'[k].state # "ABSENT" /\ EventUnused(ev) /\ ledger' = ledger \cup SettlementEntries(k, ev, actual, released)
    BY <1>2, <1>10
  <2> HIDE DEF released
  <2> QED BY <1>3, <1>9, <1>10, <2>1, SettlementPosted
<1>16. BalancesMatchGrants' /\ HeldIsBackedByOpenHolds' /\ CreditsConserved'
  BY <1>10, BooksRestatedNext
<1> QED BY <1>10, <1>13, <1>14, <1>15, <1>16 DEF BooksInv

\* A release posts one entry with the whole maximum, whatever it is.
LEMMA ReleasePosted ==
  ASSUME BooksInv, NEW k \in Keys, holds[k].state = "HELD", NEW ev \in Events, EventUnused(ev),
         NEW maximum \in Nat,
         ledger' = ledger \cup {Entry(<<"release", ev>>, "RELEASE", k, maximum, maximum, -maximum, <<>>)},
         account'.available = account.available + maximum,
         account'.held = account.held - maximum,
         holds'[k].state # "ABSENT", holds'[k].event = ev,
         \A i \in Keys : i # k => holds'[i] = holds[i],
         \A g \in GrantIds : grants'[g].exists <=> grants[g].exists
  PROVE  LedgerInv' /\ LedgerExplainsBalances'
<1> DEFINE e == Entry(<<"release", ev>>, "RELEASE", k, maximum, maximum, -maximum, <<>>)
<1>1. /\ LedgerInv /\ LedgerExplainsBalances /\ HoldsInv
      /\ account.available \in Nat /\ account.held \in Nat
  BY BooksAre
<1>2. /\ e.kind = "RELEASE" /\ e.amount = maximum /\ e.dAvailable = maximum /\ e.dHeld = -maximum
      /\ e.reverses = <<>> /\ e.key = <<"release", ev>>
  BY DEF Entry
<1>3. ledger' = ledger \cup {e}
  OBVIOUS
<1> HIDE DEF e
<1>4. e.amount \in Nat /\ e.dAvailable \in Int /\ e.dHeld \in Int
  BY <1>2
<1>5. e \notin ledger
  <2>1. SUFFICES ASSUME e \in ledger PROVE FALSE
    OBVIOUS
  <2>2. PICK i \in Events : e.key = <<"release", i>> /\ ~EventUnused(i)
    BY <1>1, <1>2, <2>1 DEF LedgerInv, EntryOK
  <2>3. i = ev
    BY <1>2, <2>2
  <2> QED BY <2>2, <2>3
<1>6. LedgerInv'
  <2>1. ~EventUnused(ev)'
    BY DEF EventUnused
  <2>2. \A x \in {e} : EntryOK(x)'
    BY <1>2, <1>4, <2>1 DEF EntryOK
  <2>3. IsFiniteSet({e})
    BY FS_Singleton
  <2>4. \A i \in Events : ~EventUnused(i) => ~EventUnused(i)'
    <3>1. holds[k].event = NoEvent
      BY <1>1 DEF HoldsInv
    <3> QED BY <3>1, TablesFinite DEF EventUnused
  <2>5. \A d \in {e}, x \in ledger \cup {e} : SameConsume(d, x) \/ SameReversal(d, x) => d = x
    BY <1>2 DEF SameConsume, SameReversal
  <2>6. \A i \in Events : grants'[ReversalGrant(i)].exists <=> grants[ReversalGrant(i)].exists
    BY DEF GrantIds
  <2>7. \A i \in Keys : holds[i].state # "ABSENT" => holds'[i].state # "ABSENT"
    OBVIOUS
  <2>8. \A g \in GrantIds : grants[g].exists => grants'[g].exists
    OBVIOUS
  <2> QED BY <1>1, <1>3, <2>2, <2>3, <2>4, <2>5, <2>6, <2>7, <2>8, LedgerGrows
<1>7. LedgerExplainsBalances'
  <2>1. account'.available = account.available + e.dAvailable /\ account'.held = account.held + e.dHeld
    BY <1>1, <1>2
  <2> QED BY <1>1, <1>3, <1>4, <1>5, <2>1, OnePosted
<1> QED BY <1>6, <1>7

\* release_hold gives everything back and posts it.
LEMMA ReleaseKeeps ==
  ASSUME BooksInv, NEW k \in Keys, NEW ev \in Events, ReleaseHold(k, ev)
  PROVE  BooksInv'
<1>1. /\ Typed /\ LedgerInv /\ LedgerExplainsBalances /\ UsageMatchesDebit /\ HoldsInv
      /\ holds \in [Keys -> HoldRows] /\ account.available \in Nat /\ account.held \in Nat
  BY BooksAre
<1>2. Settleable(k) /\ EventUnused(ev) /\ UNCHANGED <<usage, now>>
  BY DEF ReleaseHold
<1>3. account' = [available |-> account.available + holds[k].maximum,
                  held |-> account.held - holds[k].maximum]
  BY DEF ReleaseHold
<1>4. /\ SettleGrants(k, NoAllocation)
      /\ holds' = [holds EXCEPT ![k] = SettledHold(k, "RELEASED", 0, ev, NoAllocation)]
  BY DEF ReleaseHold
<1>5. ledger' = ledger \cup {Entry(<<"release", ev>>, "RELEASE", k, holds[k].maximum,
                                   holds[k].maximum, -holds[k].maximum, <<>>)}
  BY DEF ReleaseHold
<1>6. holds[k].state = "HELD" /\ holds[k].maximum \in Nat
  BY <1>1, <1>2 DEF Settleable, HoldRows
<1>7. /\ NoAllocation \in Amounts /\ \A g \in GrantIds : NoAllocation[g] <= holds[k].allocated[g]
      /\ SumFunctionOnSet(NoAllocation, GrantIds) = 0
  <2>1. \A g \in GrantIds : holds[k].allocated[g] \in Nat
    BY <1>1 DEF HoldRows, Amounts
  <2>2. SumFunctionOnSet(NoAllocation, GrantIds) = 0
    BY EmptyRows, GrantIdsFinite, SumZero
  <2> QED BY <2>1, <2>2, EmptyRows
<1>8. /\ account'.available = account.available + holds[k].maximum
      /\ account'.held = account.held - holds[k].maximum
  BY <1>3
<1>9. /\ account'.available \in Nat /\ account'.held \in Nat
      /\ grants' \in [GrantIds -> GrantRows] /\ GrantsInv'
      /\ \A g \in GrantIds : grants'[g].exists <=> grants[g].exists
      /\ holds' \in [Keys -> HoldRows] /\ HoldsInv'
      /\ holds'[k].state = "RELEASED" /\ holds'[k].event = ev /\ holds'[k].actual = 0
      /\ \A i \in Keys : i # k => holds'[i] = holds[i]
      /\ UNCHANGED usage => UsageMatchesDebit'
      /\ BooksBalanced(account', grants', holds')
  <2>1. 0 \in Nat /\ 0 <= holds[k].maximum
    BY <1>6
  <2>2. account'.available = account.available + (holds[k].maximum - 0)
    BY <1>1, <1>6, <1>8
  <2>3. Settles(k, "RELEASED", 0, ev, NoAllocation)
    BY <1>4, <1>8, <2>2 DEF Settles
  <2> QED BY <1>2, <1>7, <2>1, <2>3, SettleKeeps
<1>10. account' \in [available : Nat, held : Nat]
  BY <1>3, <1>8, <1>9
<1>11. Typed'
  BY <1>1, <1>2, <1>9, <1>10 DEF Typed
<1>12. LedgerInv' /\ LedgerExplainsBalances'
  <2>1. holds'[k].state # "ABSENT" /\ holds'[k].event = ev
    BY <1>9
  <2> QED BY <1>2, <1>5, <1>6, <1>8, <1>9, <2>1, ReleasePosted, Zenon
<1>13. BalancesMatchGrants' /\ HeldIsBackedByOpenHolds' /\ CreditsConserved'
  BY <1>9, BooksRestatedNext
<1>14. UsageMatchesDebit'
  BY <1>2, <1>9
<1> QED BY <1>9, <1>11, <1>12, <1>13, <1>14 DEF BooksInv

-----------------------------------------------------------------------------
(* The books after any step.                                               *)

LEMMA ClockKeeps ==
  ASSUME BooksInv, UNCHANGED <<account, grants, holds, ledger, usage>>, now' \in 0..MaxTime
  PROVE  BooksInv'
<1>1. Typed /\ GrantsInv /\ HoldsInv /\ LedgerInv /\ LedgerExplainsBalances /\ UsageMatchesDebit
  BY BooksAre
<1>2. Typed'
  BY <1>1 DEF Typed
<1>3. GrantsInv'
  BY <1>1 DEF GrantsInv, Existing
<1>4. HoldsInv' /\ UsageMatchesDebit'
  BY <1>1, HoldsUnchanged
<1>5. LedgerInv' /\ LedgerExplainsBalances'
  BY <1>1, LedgerUnchanged
<1>6. BalancesMatchGrants' /\ HeldIsBackedByOpenHolds' /\ CreditsConserved'
  BY DEF BooksInv, BalancesMatchGrants, HeldIsBackedByOpenHolds, CreditsConserved
<1> QED BY <1>2, <1>3, <1>4, <1>5, <1>6 DEF BooksInv

LEMMA BooksStep == BooksInv /\ [Next]_vars => BooksInv'
<1> SUFFICES ASSUME BooksInv, [Next]_vars PROVE BooksInv'
  OBVIOUS
<1>1. now \in 0..MaxTime /\ MaxTime \in Nat
  BY ConstantsOK DEF BooksInv, Typed
<1>2. ASSUME NEW s \in Sources, NEW a \in GrantAmounts, NEW t \in 1..NoExpiry, GrantCredits(s, a, t)
      PROVE  BooksInv'
  BY <1>2, GrantCreditsKeeps
<1>3. ASSUME NEW k \in Keys, NEW c \in Costs, Reserve(k, c) PROVE BooksInv'
  BY <1>3, PriceType, CreateHoldKeeps DEF Reserve
<1>4. ASSUME NEW k \in Keys, NEW ev \in Events, NEW a \in 0..holds[k].maximum, FinalizeByApi(k, a, ev)
      PROVE  BooksInv'
  <2>1. a \in Nat /\ FinalizeHold(k, a, ev) /\ usage' = usage
    BY <1>4 DEF FinalizeByApi
  <2> QED BY <2>1, FinalizeKeeps
<1>5. ASSUME NEW k \in Keys, NEW ev \in Events, NEW c \in Costs, FinalizeJob(k, c, ev) PROVE BooksInv'
  <2>1. PICK n \in Nat : n = PriceCreditAmount(c)
    BY PriceType
  <2>2. FinalizeHold(k, n, ev) /\ usage' = [usage EXCEPT ![ev] = n]
    BY <1>5, <2>1 DEF FinalizeJob
  <2> QED BY <2>2, FinalizeKeeps
<1>6. ASSUME NEW k \in Keys, NEW ev \in Events, ReleaseHold(k, ev) PROVE BooksInv'
  BY <1>6, ReleaseKeeps
<1>7. ASSUME NEW e \in ledger, NEW key \in ReversalKeys, NEW t \in 1..NoExpiry,
             ReverseCreditDebit(e, key, t)
      PROVE  BooksInv'
  BY <1>7, ReverseKeeps
<1>8. CASE Tick
  <2>1. now' \in 0..MaxTime /\ UNCHANGED <<account, grants, holds, ledger, usage>>
    BY <1>1, <1>8 DEF Tick
  <2> QED BY <2>1, ClockKeeps
<1>9. CASE UNCHANGED vars
  <2>1. now' \in 0..MaxTime /\ UNCHANGED <<account, grants, holds, ledger, usage>>
    BY <1>1, <1>9 DEF vars
  <2> QED BY <2>1, ClockKeeps
<1> QED BY <1>2, <1>3, <1>4, <1>5, <1>6, <1>7, <1>8, <1>9 DEF Next

LEMMA BooksAlways == Spec => []BooksInv
BY BooksInitially, BooksStep, PTL DEF Spec

\* The shape of the rows follows; a rank is at most the number of grants.
LEMMA BooksTyped == ASSUME BooksInv PROVE TypeOK
<1>1. Typed /\ GrantsInv /\ HoldsInv /\ grants \in [GrantIds -> GrantRows] /\ holds \in [Keys -> HoldRows]
  BY BooksAre
<1>2. Cardinality(Existing) \in Nat /\ Cardinality(GrantIds) \in Nat
      /\ Cardinality(Existing) <= Cardinality(GrantIds)
  <2>1. Existing \subseteq GrantIds
    BY DEF Existing
  <2> QED BY <2>1, GrantIdsFinite, FS_Subset, FS_CardinalityType
<1>3. ASSUME NEW g \in GrantIds
      PROVE  grants[g] \in [exists : BOOLEAN, original : Nat, available : Nat, held : Nat,
                            expires : 1..NoExpiry, rank : 0..Cardinality(GrantIds)]
  <2>1. grants[g] \in GrantRows
    BY <1>1
  <2>2. grants[g].rank \in 0..Cardinality(GrantIds)
    <3>1. CASE grants[g].exists
      <4>1. grants[g].rank \in 1..Cardinality(Existing)
        BY <1>1, <3>1 DEF GrantsInv, Existing
      <4> QED BY <1>2, <4>1
    <3>2. CASE ~grants[g].exists
      <4>1. grants[g].rank = 0
        BY <1>1, <3>2 DEF GrantsInv, NoGrant
      <4> QED BY <1>2, <4>1
    <3> QED BY <3>1, <3>2
  <2> QED BY <2>1, <2>2 DEF GrantRows
<1>4. ASSUME NEW k \in Keys
      PROVE  /\ holds[k].state \in {"ABSENT", "HELD", "FINALIZED", "RELEASED"}
             /\ holds[k].maximum \in Nat
             /\ holds[k].actual \in 0..holds[k].maximum \cup {None}
             /\ holds[k].event \in Events \cup {NoEvent}
             /\ \A g \in GrantIds : holds[k].allocated[g] \in Nat /\ holds[k].consumed[g] \in Nat
  BY <1>1 DEF HoldRows, Amounts, HoldsInv
<1>5. account \in [available : Nat, held : Nat] /\ now \in 0..MaxTime
      /\ \A ev \in Events : usage[ev] \in Nat \cup {None}
  BY <1>1 DEF Typed
<1> QED BY <1>3, <1>4, <1>5 DEF TypeOK

\* A debit has at most one reversal, of its own amount.
LEMMA RefundsBounded == ASSUME BooksInv PROVE RefundNeverExceedsDebit
<1>1. LedgerInv
  BY BooksAre
<1>2. SUFFICES ASSUME NEW d \in ledger, d.kind = "CONSUME"
               PROVE  d.amount >= SumFunction([e \in {x \in ledger : x.reverses = d.key} |-> e.amount])
  BY DEF RefundNeverExceedsDebit
<1> DEFINE R == {x \in ledger : x.reverses = d.key}
           f == [e \in R |-> e.amount]
<1>3. d.amount \in Nat /\ d.key # <<>>
  <2>1. EntryOK(d)
    BY <1>1, <1>2 DEF LedgerInv
  <2>2. PICK ev \in Events : d.key = <<"consume", ev>>
    BY <1>2, <2>1 DEF EntryOK
  <2>3. <<"consume", ev>> # <<>>
    OBVIOUS
  <2>4. d.amount \in Nat
    BY <2>1 DEF EntryOK
  <2> QED BY <2>2, <2>3, <2>4
<1>4. \A e \in R : e.kind = "REVERSAL" /\ e.amount = d.amount
  <2>1. ASSUME NEW e \in R PROVE e.kind = "REVERSAL" /\ e.amount = d.amount
    <3>1. e \in ledger /\ e.reverses = d.key /\ EntryOK(e)
      BY <1>1 DEF LedgerInv
    <3>2. e.kind = "REVERSAL"
      BY <1>3, <3>1 DEF EntryOK
    <3>3. PICK c \in ledger : c.kind = "CONSUME" /\ c.key = e.reverses /\ c.amount = e.amount
      BY <3>1, <3>2 DEF EntryOK
    <3>4. c = d
      BY <1>1, <1>2, <3>1, <3>3 DEF LedgerInv, SameConsume
    <3> QED BY <3>2, <3>3, <3>4
  <2> QED BY <2>1
<1>5. \A x, y \in R : x = y
  BY <1>1, <1>4 DEF LedgerInv, SameReversal
<1>6. IsFiniteSet(R)
  BY <1>1, FS_Subset DEF LedgerInv
<1>7. Summable(f, R) /\ SumFunction(f) = SumFunctionOnSet(f, R) /\ \A e \in R : f[e] = d.amount
  <2>1. Summable(f, R) /\ \A e \in R : f[e] = d.amount
    BY <1>3, <1>4, <1>6 DEF Summable
  <2>2. SumFunction(f) = SumFunctionOnSet(f, R)
    BY DEF SumFunction
  <2> QED BY <2>1, <2>2
<1> HIDE DEF R, f
<1>8. SumFunctionOnSet(f, R) <= d.amount
  <2>1. CASE R = {}
    <3>1. SumFunctionOnSet(f, R) = 0
      BY <1>7, <2>1, SumZero, FS_EmptySet
    <3> QED BY <1>3, <3>1
  <2>2. CASE R # {}
    <3>1. PICK x \in R : TRUE
      BY <2>2
    <3>2. R \ {x} = {}
      BY <1>5
    <3>3. SumFunctionOnSet(f, R \ {x}) = 0
      BY <3>2, SumZero, FS_EmptySet
    <3>4. SumFunctionOnSet(f, R) = f[x] + SumFunctionOnSet(f, R \ {x})
      BY <1>7, SumRemove
    <3>5. f[x] = d.amount
      BY <1>7
    <3> QED BY <1>3, <3>3, <3>4, <3>5
  <2> QED BY <2>1, <2>2
<1>9. SumFunction(f) <= d.amount /\ SumFunction(f) \in Int
  BY <1>7, <1>8, SumType
<1> QED BY <1>3, <1>9 DEF R, f

\* The books of a workspace are consistent, for any sources, holds, events and
\* prices: account, grants, holds, allocations, ledger and usage records, which
\* each operation of BillingService updates one by one, always tell the same
\* story, and no debit is refunded twice.
THEOREM BooksAreConsistent == Spec => []BooksConsistent
<1>1. ASSUME BooksInv PROVE BooksConsistent
  BY <1>1, BooksTyped, RefundsBounded DEF BooksInv, BooksConsistent
<1> QED BY <1>1, BooksAlways, PTL

-----------------------------------------------------------------------------
(* Settlements are final.                                                  *)

LEMMA FinalStep ==
  ASSUME BooksInv, [Next]_vars, NEW k \in Keys, holds[k].state \in {"FINALIZED", "RELEASED"}
  PROVE  holds'[k] = holds[k]
<1>0. holds \in [Keys -> HoldRows]
  BY BooksAre
<1>1. ASSUME NEW i \in Keys, NEW row, holds[i].state \in {"ABSENT", "HELD"}, holds' = [holds EXCEPT ![i] = row]
      PROVE  holds'[k] = holds[k]
  BY <1>0, <1>1
<1>2. ASSUME NEW i \in Keys, NEW n, CreateHold(i, n) PROVE holds'[k] = holds[k]
  <2>1. holds[i].state = "ABSENT" /\ \E row : holds' = [holds EXCEPT ![i] = row]
    BY <1>2 DEF CreateHold
  <2> QED BY <1>1, <2>1
<1>3. ASSUME NEW i \in Keys, NEW n, NEW ev, FinalizeHold(i, n, ev) PROVE holds'[k] = holds[k]
  BY <1>1, <1>3 DEF FinalizeHold, Settleable
<1>4. ASSUME NEW i \in Keys, NEW ev, ReleaseHold(i, ev) PROVE holds'[k] = holds[k]
  BY <1>1, <1>4 DEF ReleaseHold, Settleable
<1>5. ASSUME NEW s, NEW a, NEW t, GrantCredits(s, a, t) \/ (\E e : ReverseCreditDebit(e, s, t))
      PROVE  holds'[k] = holds[k]
  BY <1>5 DEF GrantCredits, ReverseCreditDebit
<1>6. Tick \/ UNCHANGED vars => holds'[k] = holds[k]
  BY DEF Tick, vars
<1> QED BY <1>2, <1>3, <1>4, <1>5, <1>6 DEF Next, Reserve, FinalizeByApi, FinalizeJob

LEMMA LedgerStep ==
  ASSUME [Next]_vars PROVE ledger \subseteq ledger'
<1>1. ASSUME NEW s, NEW a, NEW t, GrantCredits(s, a, t) PROVE ledger \subseteq ledger'
  BY <1>1 DEF GrantCredits
<1>2. ASSUME NEW k, NEW n, CreateHold(k, n) PROVE ledger \subseteq ledger'
  BY <1>2 DEF CreateHold
<1>3. ASSUME NEW k, NEW n, NEW ev, FinalizeHold(k, n, ev) PROVE ledger \subseteq ledger'
  BY <1>3 DEF FinalizeHold
<1>4. ASSUME NEW k, NEW ev, ReleaseHold(k, ev) PROVE ledger \subseteq ledger'
  BY <1>4 DEF ReleaseHold
<1>5. ASSUME NEW e, NEW key, NEW t, ReverseCreditDebit(e, key, t) PROVE ledger \subseteq ledger'
  BY <1>5 DEF ReverseCreditDebit
<1>6. Tick \/ UNCHANGED vars => ledger \subseteq ledger'
  BY DEF Tick, vars
<1> QED BY <1>1, <1>2, <1>3, <1>4, <1>5, <1>6 DEF Next, Reserve, FinalizeByApi, FinalizeJob

\* A hold that was finalized or released keeps its outcome and its consumed
\* amounts whatever terminal events arrive later, and a row of the credit ledger
\* is never changed or removed.
THEOREM SettlementsAreFinal == Spec => SettlementIsFinal
<1>1. ASSUME BooksInv, [Next]_vars
      PROVE  [ /\ \A k \in Keys : holds[k].state \in {"FINALIZED", "RELEASED"} => holds'[k] = holds[k]
               /\ ledger \subseteq ledger' ]_vars
  BY <1>1, FinalStep, LedgerStep
<1> QED BY <1>1, BooksAlways, PTL DEF Spec, SettlementIsFinal

-----------------------------------------------------------------------------
(* What expires first is taken first.                                      *)

\* Only create_hold puts more credits of a grant on hold.
LEMMA HeldNeverGrows ==
  ASSUME BooksInv, NEW g \in GrantIds
  PROVE  /\ \A x, n, t : grants' = [grants EXCEPT ![x] = NewGrant(n, t)] => grants'[g].held <= grants[g].held
         /\ \A k \in Keys : \A c : SettleGrants(k, c) => grants'[g].held <= grants[g].held
<1>1. grants \in [GrantIds -> GrantRows] /\ holds \in [Keys -> HoldRows]
  BY BooksAre
<1>2. grants[g].held \in Nat
  BY <1>1 DEF GrantRows
<1>3. ASSUME NEW x, NEW n, NEW t, grants' = [grants EXCEPT ![x] = NewGrant(n, t)]
      PROVE  grants'[g].held <= grants[g].held
  <2>1. CASE x = g
    <3>1. grants'[g] = NewGrant(n, t)
      BY <1>1, <1>3, <2>1
    <3>2. grants'[g].held = 0
      BY <3>1 DEF NewGrant
    <3> QED BY <1>2, <3>2
  <2>2. CASE x # g
    <3>1. grants'[g] = grants[g]
      BY <1>1, <1>3, <2>2
    <3> QED BY <1>2, <3>1
  <2> QED BY <2>1, <2>2
<1>4. ASSUME NEW k \in Keys, NEW c, SettleGrants(k, c) PROVE grants'[g].held <= grants[g].held
  <2>1. holds[k].allocated[g] \in Nat
    BY <1>1 DEF HoldRows, Amounts
  <2>2. grants'[g].held = grants[g].held - holds[k].allocated[g]
    BY <1>1, <1>4 DEF SettleGrants, GrantRows
  <2> QED BY <1>2, <2>1, <2>2
<1> QED BY <1>3, <1>4

LEMMA TakesSoonest ==
  ASSUME BooksInv, NEW k \in Keys, NEW maximum \in Nat, CreateHold(k, maximum),
         NEW g \in GrantIds, NEW h \in GrantIds, grants'[g].held > grants[g].held,
         grants[h].exists, now < grants[h].expires, grants[h].expires < grants[g].expires
  PROVE  grants'[h].available = 0
<1> DEFINE offer == [i \in GrantIds |-> grants[i].available]
           taken == TakeInOrder(offer, UsableGrants, maximum)
<1>1. Typed /\ GrantsInv /\ grants \in [GrantIds -> GrantRows]
  BY BooksAre
<1>2. /\ \A i \in GrantIds : grants[i].available \in Nat /\ grants[i].held \in Nat
      /\ now \in Int /\ grants[h].expires \in Int /\ grants[g].expires \in Int
  BY <1>1, ConstantsOK DEF GrantRows, Typed, NoExpiry
<1>3. grants' = [i \in GrantIds |-> [grants[i] EXCEPT !.available = @ - taken[i], !.held = @ + taken[i]]]
  BY DEF CreateHold
<1>4. UsableGrants \subseteq GrantIds /\ UsableGrants \subseteq Existing
  BY DEF UsableGrants, Existing
<1>5. \A i \in UsableGrants : offer[i] \in Nat
  BY <1>2, <1>4
<1>6. \A i \in GrantIds : offer[i] = grants[i].available
  OBVIOUS
<1> HIDE DEF offer
<1>7. /\ taken \in Amounts /\ \A i \in GrantIds \ UsableGrants : taken[i] = 0
      /\ \A i \in UsableGrants : taken[i] <= offer[i]
  <2>1. \A o, R, n : R \subseteq GrantIds /\ (\A i \in R : o[i] \in Nat) /\ n \in Nat =>
          /\ TakeInOrder(o, R, n) \in Amounts
          /\ \A i \in GrantIds \ R : TakeInOrder(o, R, n)[i] = 0
          /\ \A i \in R : TakeInOrder(o, R, n)[i] <= o[i]
    BY TakenBounds
  <2> QED BY <1>4, <1>5, <2>1
<1>8. UsableGrants = {i \in GrantIds : grants[i].exists /\ grants[i].available > 0 /\ grants[i].expires > now}
  BY DEF UsableGrants
<1>9. h \in UsableGrants /\ g \in UsableGrants /\ taken[g] > 0 => taken[h] = offer[h]
  <2>1. Precedes(h, g)
    BY DEF Precedes
  <2>2. \A R, o, n : R \subseteq Existing /\ (\A i \in R : o[i] \in Nat) /\ n \in Nat =>
          \A i, j \in R : Precedes(j, i) /\ TakeInOrder(o, R, n)[i] > 0 => TakeInOrder(o, R, n)[j] = o[j]
    BY <1>1, TakenFirst
  <2> QED BY <1>4, <1>5, <2>1, <2>2
<1> DEFINE tg == taken[g]
           th == taken[h]
<1>10. tg \in Nat /\ th \in Nat
  BY <1>7 DEF Amounts
<1>11. grants'[g].held = grants[g].held + tg /\ grants'[h].available = grants[h].available - th
  BY <1>1, <1>3 DEF GrantRows
<1> HIDE DEF taken
<1>12. g \in UsableGrants => tg > 0 /\ (h \in UsableGrants => th = grants[h].available)
  <2>1. tg > 0
    <3> HIDE DEF tg, th
    <3> QED BY <1>2, <1>10, <1>11
  <2> QED BY <1>6, <1>9, <2>1
<1>13. g \in UsableGrants
  <2>1. g \notin UsableGrants => tg = 0
    BY <1>7
  <2> HIDE DEF tg, th
  <2> QED BY <1>2, <1>10, <1>11, <2>1
<1>14. h \notin UsableGrants => th = 0 /\ grants[h].available = 0
  <2>1. h \notin UsableGrants => ~(grants[h].available > 0)
    BY <1>2, <1>8
  <2> QED BY <1>2, <1>7, <2>1
<1> HIDE DEF tg, th
<1> QED BY <1>2, <1>10, <1>11, <1>12, <1>13, <1>14

LEMMA SoonestStep ==
  ASSUME BooksInv, [Next]_vars, NEW g \in GrantIds, NEW h \in GrantIds,
         grants'[g].held > grants[g].held,
         grants[h].exists, now < grants[h].expires, grants[h].expires < grants[g].expires
  PROVE  grants'[h].available = 0
<1>1. grants[g].held \in Nat
  <2>1. grants \in [GrantIds -> GrantRows]
    BY BooksAre
  <2> QED BY <2>1 DEF GrantRows
<1>2. /\ \A x, n, t : grants' # [grants EXCEPT ![x] = NewGrant(n, t)]
      /\ \A k \in Keys : \A c : ~SettleGrants(k, c)
  <2>1. ~(grants'[g].held <= grants[g].held)
    <3>1. grants' \in [GrantIds -> GrantRows]
      BY BooksStep DEF BooksInv, Typed
    <3>2. grants'[g].held \in Nat
      BY <3>1 DEF GrantRows
    <3> QED BY <1>1, <3>2
  <2> QED BY <2>1, HeldNeverGrows
<1>3. ASSUME NEW s, NEW a, NEW t PROVE ~GrantCredits(s, a, t)
  <2>1. SUFFICES ASSUME GrantCredits(s, a, t) PROVE FALSE
    OBVIOUS
  <2>2. grants' = [grants EXCEPT ![[type |-> "SOURCE", id |-> s]] = NewGrant(a, t)]
    BY <2>1 DEF GrantCredits
  <2> QED BY <1>2, <2>2
<1>4. ASSUME NEW e, NEW key, NEW t PROVE ~ReverseCreditDebit(e, key, t)
  BY <1>2 DEF ReverseCreditDebit
<1>5. ASSUME NEW k \in Keys, NEW n, NEW ev PROVE ~FinalizeHold(k, n, ev)
  BY <1>2 DEF FinalizeHold
<1>6. ASSUME NEW k \in Keys, NEW ev PROVE ~ReleaseHold(k, ev)
  BY <1>2 DEF ReleaseHold
<1>7. ~Tick /\ ~UNCHANGED vars
  BY <1>1 DEF Tick, vars
<1>8. PICK k \in Keys, c \in Costs : Reserve(k, c)
  BY <1>3, <1>4, <1>5, <1>6, <1>7 DEF Next, FinalizeByApi, FinalizeJob
<1>9. PICK n \in Nat : CreateHold(k, n)
  BY <1>8, PriceType DEF Reserve
<1> QED BY <1>9, TakesSoonest

\* A hold takes credits from a grant only when every usable grant that expires
\* earlier has none left (create_hold walks the grants by expires_at), and no
\* other operation puts credits of a grant on hold.
THEOREM SoonestExpiryIsTakenFirst == Spec => SoonestExpiryFirst
<1>1. ASSUME BooksInv, [Next]_vars
      PROVE  [ \A g, h \in GrantIds :
                 (/\ grants'[g].held > grants[g].held
                  /\ grants[h].exists /\ now < grants[h].expires
                  /\ grants[h].expires < grants[g].expires)
                   => grants'[h].available = 0 ]_vars
  BY <1>1, SoonestStep
<1> QED BY <1>1, BooksAlways, PTL DEF Spec, SoonestExpiryFirst
=============================================================================
