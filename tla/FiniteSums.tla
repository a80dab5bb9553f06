----------------------------- MODULE FiniteSums -----------------------------
(***************************************************************************)
(* Laws of sums over finite sets, for the operator SumFunctionOnSet of the *)
(* community modules.  Induction on the size of the set is argued by a     *)
(* smallest counterexample.                                                *)
(***************************************************************************)
EXTENDS Integers, FiniteSets, Functions, FiniteSetTheorems, WellFoundedInduction, TLAPS

\* Sums are of integers over finite sets.
Summable(f, S) == IsFiniteSet(S) /\ \A x \in S : f[x] \in Int

\* A set of naturals that is not empty has a least element.
LEMMA LeastNatural ==
  ASSUME NEW T, T \subseteq Nat, T # {}
  PROVE  \E n \in T : \A m \in T : ~(m < n)
<1>1. \E x \in T : \A y \in T : <<y, x>> \notin OpToRel(<, Nat)
  BY NatLessThanWellFounded, WFMin
<1> QED BY <1>1 DEF OpToRel

\* A family of finite sets that is not empty has a smallest member.
LEMMA SmallestSet ==
  ASSUME NEW F, F # {}, \A S \in F : IsFiniteSet(S)
  PROVE  \E S \in F : \A R \in F : ~(Cardinality(R) < Cardinality(S))
<1> DEFINE T == {Cardinality(S) : S \in F}
<1>1. T \subseteq Nat /\ T # {}
  BY FS_CardinalityType
<1>2. PICK n \in T : \A m \in T : ~(m < n)
  <2> HIDE DEF T
  <2> QED BY <1>1, LeastNatural
<1> QED BY <1>2

-----------------------------------------------------------------------------
(* The recursion behind SumFunctionOnSet.                                  *)

First(S) == CHOOSE x \in S : TRUE

IsIteration(iter, f, S) ==
  iter = [s \in SUBSET S |-> IF s = {} THEN 0 ELSE f[First(s)] + iter[s \ {First(s)}]]

LEMMA SumUnfolded ==
  ASSUME NEW f, NEW S
  PROVE  SumFunctionOnSet(f, S) = (CHOOSE iter : IsIteration(iter, f, S))[S]
BY DEF SumFunctionOnSet, FoldFunctionOnSet, MapThenFoldSet, IsIteration, First

LEMMA FirstMember ==
  ASSUME NEW S, S # {} PROVE First(S) \in S
BY DEF First

LEMMA Removed ==
  ASSUME NEW S, IsFiniteSet(S), NEW x \in S
  PROVE  IsFiniteSet(S \ {x}) /\ Cardinality(S \ {x}) < Cardinality(S)
<1>1. IsFiniteSet(S \ {x}) /\ Cardinality(S \ {x}) = Cardinality(S) - 1
  BY FS_RemoveElement
<1>2. Cardinality(S) \in Nat
  BY FS_CardinalityType
<1> QED BY <1>1, <1>2

LEMMA IterationsAgree ==
  ASSUME NEW f, NEW S, NEW R, IsFiniteSet(S), IsFiniteSet(R), NEW g, NEW h,
         IsIteration(g, f, S), IsIteration(h, f, R), R \subseteq S
  PROVE  g[R] = h[R]
<1> DEFINE Bad == {s \in SUBSET R : g[s] # h[s]}
<1>1. SUFFICES ASSUME Bad # {} PROVE FALSE
  OBVIOUS
<1>2. \A s \in Bad : IsFiniteSet(s)
  BY FS_Subset
<1>3. PICK s \in Bad : \A t \in Bad : ~(Cardinality(t) < Cardinality(s))
  <2> HIDE DEF Bad
  <2> QED BY <1>1, <1>2, SmallestSet
<1>4. s \in SUBSET R /\ s \in SUBSET S /\ g[s] # h[s] /\ IsFiniteSet(s)
  BY <1>2, <1>3
<1>5. g[s] = IF s = {} THEN 0 ELSE f[First(s)] + g[s \ {First(s)}]
  BY <1>4 DEF IsIteration
<1>6. h[s] = IF s = {} THEN 0 ELSE f[First(s)] + h[s \ {First(s)}]
  BY <1>4 DEF IsIteration
<1>7. s # {} /\ First(s) \in s
  BY <1>4, <1>5, <1>6, FirstMember
<1>8. g[s \ {First(s)}] = h[s \ {First(s)}]
  BY <1>3, <1>4, <1>7, Removed
<1> QED BY <1>4, <1>5, <1>6, <1>8

LEMMA IterationExists ==
  ASSUME NEW f, NEW S, IsFiniteSet(S)
  PROVE  \E iter : IsIteration(iter, f, S)
<1> DEFINE Bad == {R \in SUBSET S : ~ \E iter : IsIteration(iter, f, R)}
           Total(t) == (CHOOSE h : IsIteration(h, f, t))[t]
<1>1. SUFFICES ASSUME Bad # {} PROVE FALSE
  OBVIOUS
<1>2. \A R \in Bad : IsFiniteSet(R)
  BY FS_Subset
<1>3. PICK R \in Bad : \A t \in Bad : ~(Cardinality(t) < Cardinality(R))
  <2> HIDE DEF Bad
  <2> QED BY <1>1, <1>2, SmallestSet
<1>4. R \in SUBSET S /\ IsFiniteSet(R) /\ ~ \E iter : IsIteration(iter, f, R)
  BY <1>2, <1>3
<1>5. ASSUME NEW s \in SUBSET R, s # {}
      PROVE  /\ s \ {First(s)} \in SUBSET R /\ IsFiniteSet(s \ {First(s)})
             /\ \E h : IsIteration(h, f, s \ {First(s)})
  <2>1. First(s) \in s /\ First(s) \in R /\ s \ {First(s)} \subseteq R \ {First(s)}
    BY <1>5, FirstMember
  <2>2. IsFiniteSet(R \ {First(s)}) /\ Cardinality(R \ {First(s)}) < Cardinality(R)
    BY <1>4, <2>1, Removed
  <2>3. /\ IsFiniteSet(s \ {First(s)})
        /\ Cardinality(s \ {First(s)}) <= Cardinality(R \ {First(s)})
    BY <2>1, <2>2, FS_Subset
  <2>4. Cardinality(s \ {First(s)}) \in Nat /\ Cardinality(R \ {First(s)}) \in Nat /\ Cardinality(R) \in Nat
    BY <1>4, <2>2, <2>3, FS_CardinalityType
  <2>5. Cardinality(s \ {First(s)}) < Cardinality(R)
    BY <2>2, <2>3, <2>4
  <2>6. s \ {First(s)} \in SUBSET S
    BY <1>4
  <2>7. s \ {First(s)} \notin Bad
    <3> HIDE DEF Bad
    <3> QED BY <1>3, <2>5
  <2> QED BY <2>3, <2>6, <2>7
<1>6. ASSUME NEW t, \E h : IsIteration(h, f, t)
      PROVE  IsIteration(CHOOSE h : IsIteration(h, f, t), f, t)
  BY <1>6
<1>7. ASSUME NEW s \in SUBSET R, s # {}
      PROVE  Total(s \ {First(s)}) = IF s \ {First(s)} = {} THEN 0
               ELSE f[First(s \ {First(s)})] + Total((s \ {First(s)}) \ {First(s \ {First(s)})})
  <2> DEFINE t == s \ {First(s)}
             u == t \ {First(t)}
             h == CHOOSE i : IsIteration(i, f, t)
             k == CHOOSE i : IsIteration(i, f, u)
  <2>1. t \in SUBSET R /\ IsFiniteSet(t) /\ IsIteration(h, f, t)
    BY <1>5, <1>6, <1>7
  <2>2. h[t] = IF t = {} THEN 0 ELSE f[First(t)] + h[u]
    <3> HIDE DEF t, h
    <3> QED BY <2>1 DEF IsIteration
  <2>3. CASE t = {}
    BY <2>2, <2>3
  <2>4. CASE t # {}
    <3>1. IsFiniteSet(u) /\ IsIteration(k, f, u)
      <4> HIDE DEF t
      <4> QED BY <1>5, <1>6, <2>1, <2>4
    <3>2. h[u] = k[u]
      <4>1. u \subseteq t
        OBVIOUS
      <4> HIDE DEF t, u, h, k
      <4> QED BY <2>1, <3>1, <4>1, IterationsAgree
    <3> QED BY <2>2, <2>4, <3>2
  <2> QED BY <2>3, <2>4
<1> DEFINE iter == [s \in SUBSET R |-> IF s = {} THEN 0 ELSE f[First(s)] + Total(s \ {First(s)})]
<1>8. ASSUME NEW s \in SUBSET R, s # {} PROVE iter[s \ {First(s)}] = Total(s \ {First(s)})
  <2>1. s \ {First(s)} \in SUBSET R
    BY <1>5, <1>8
  <2> HIDE DEF Total
  <2> QED BY <1>7, <1>8, <2>1
<1>9. \A s \in SUBSET R :
        (IF s = {} THEN 0 ELSE f[First(s)] + Total(s \ {First(s)}))
          = (IF s = {} THEN 0 ELSE f[First(s)] + iter[s \ {First(s)}])
  <2> HIDE DEF Total, iter
  <2> QED BY <1>8
<1>10. IsIteration(iter, f, R)
  <2> HIDE DEF Total
  <2> QED BY <1>9 DEF IsIteration
<1> QED BY <1>4, <1>10

-----------------------------------------------------------------------------
(* Sums.                                                                   *)

LEMMA SumFirst ==
  ASSUME NEW f, NEW S, IsFiniteSet(S)
  PROVE  SumFunctionOnSet(f, S) =
           IF S = {} THEN 0 ELSE f[First(S)] + SumFunctionOnSet(f, S \ {First(S)})
<1> DEFINE R == S \ {First(S)}
           g == CHOOSE i : IsIteration(i, f, S)
           h == CHOOSE i : IsIteration(i, f, R)
<1>1. IsFiniteSet(R) /\ R \subseteq S
  BY FS_Subset
<1>2. IsIteration(g, f, S)
  BY IterationExists
<1>3. IsIteration(h, f, R)
  <2> HIDE DEF R
  <2> QED BY <1>1, IterationExists
<1>4. g[R] = h[R]
  <2> HIDE DEF R, g, h
  <2> QED BY <1>1, <1>2, <1>3, IterationsAgree
<1>5. g[S] = IF S = {} THEN 0 ELSE f[First(S)] + g[R]
  <2>1. S \in SUBSET S
    OBVIOUS
  <2> HIDE DEF g
  <2> QED BY <1>2, <2>1 DEF IsIteration
<1>6. SumFunctionOnSet(f, S) = g[S]
  BY SumUnfolded
<1>7. SumFunctionOnSet(f, R) = h[R]
  <2> HIDE DEF R
  <2> QED BY SumUnfolded
<1> HIDE DEF g, h
<1> QED BY <1>4, <1>5, <1>6, <1>7

LEMMA SumEmpty == ASSUME NEW f PROVE SumFunctionOnSet(f, {}) = 0
BY SumFirst, FS_EmptySet

LEMMA SummableSubset ==
  ASSUME NEW f, NEW S, Summable(f, S), NEW R, R \subseteq S PROVE Summable(f, R)
BY FS_Subset DEF Summable

\* A sum of integers is an integer, and of naturals a natural.
LEMMA SumType ==
  ASSUME NEW f, NEW S, Summable(f, S)
  PROVE  /\ SumFunctionOnSet(f, S) \in Int
         /\ (\A x \in S : f[x] \in Nat) => SumFunctionOnSet(f, S) \in Nat
<1> DEFINE Good(R) == /\ SumFunctionOnSet(f, R) \in Int
                      /\ (\A x \in S : f[x] \in Nat) => SumFunctionOnSet(f, R) \in Nat
           Bad == {R \in SUBSET S : ~Good(R)}
<1>1. SUFFICES ASSUME Bad # {} PROVE FALSE
  OBVIOUS
<1>2. \A R \in Bad : IsFiniteSet(R)
  BY FS_Subset DEF Summable
<1>3. PICK R \in Bad : \A t \in Bad : ~(Cardinality(t) < Cardinality(R))
  <2> HIDE DEF Bad
  <2> QED BY <1>1, <1>2, SmallestSet
<1>4. R \in SUBSET S /\ IsFiniteSet(R) /\ ~Good(R)
  BY <1>2, <1>3
<1>5. R # {}
  BY <1>4, SumEmpty
<1>6. First(R) \in R /\ First(R) \in S
  BY <1>4, <1>5, FirstMember
<1>7. Good(R \ {First(R)})
  <2> HIDE DEF Good
  <2> QED BY <1>3, <1>4, <1>6, Removed
<1>8. SumFunctionOnSet(f, R) = f[First(R)] + SumFunctionOnSet(f, R \ {First(R)})
  BY <1>4, <1>5, SumFirst
<1>9. f[First(R)] \in Int
  BY <1>6 DEF Summable
<1> QED BY <1>4, <1>6, <1>7, <1>8, <1>9

\* Any summand may be taken out first.
LEMMA SumRemove ==
  ASSUME NEW f, NEW S, Summable(f, S), NEW x \in S
  PROVE  SumFunctionOnSet(f, S) = f[x] + SumFunctionOnSet(f, S \ {x})
<1> DEFINE Good(R) == \A y \in R : SumFunctionOnSet(f, R) = f[y] + SumFunctionOnSet(f, R \ {y})
           Bad == {R \in SUBSET S : ~Good(R)}
<1>1. SUFFICES ASSUME Bad # {} PROVE FALSE
  OBVIOUS
<1>2. \A R \in Bad : IsFiniteSet(R)
  BY FS_Subset DEF Summable
<1>3. PICK R \in Bad : \A t \in Bad : ~(Cardinality(t) < Cardinality(R))
  <2> HIDE DEF Bad
  <2> QED BY <1>1, <1>2, SmallestSet
<1>4. R \in SUBSET S /\ IsFiniteSet(R) /\ ~Good(R)
  BY <1>2, <1>3
<1>5. PICK y \in R : SumFunctionOnSet(f, R) # f[y] + SumFunctionOnSet(f, R \ {y})
  BY <1>4
<1> DEFINE c == First(R)
<1>6. c \in R /\ SumFunctionOnSet(f, R) = f[c] + SumFunctionOnSet(f, R \ {c})
  BY <1>4, <1>5, FirstMember, SumFirst
<1> HIDE DEF c
<1>7. c # y
  BY <1>5, <1>6
<1>8. Good(R \ {c}) /\ Good(R \ {y})
  <2> HIDE DEF Good
  <2> QED BY <1>3, <1>4, <1>5, <1>6, Removed
<1>9. SumFunctionOnSet(f, R \ {c}) = f[y] + SumFunctionOnSet(f, (R \ {c}) \ {y})
  BY <1>5, <1>7, <1>8
<1>10. SumFunctionOnSet(f, R \ {y}) = f[c] + SumFunctionOnSet(f, (R \ {y}) \ {c})
  BY <1>6, <1>7, <1>8
<1>11. (R \ {y}) \ {c} = (R \ {c}) \ {y}
  OBVIOUS
<1> DEFINE t == SumFunctionOnSet(f, (R \ {c}) \ {y})
<1>12. f[c] \in Int /\ f[y] \in Int /\ t \in Int
  <2>1. Summable(f, (R \ {c}) \ {y})
    BY <1>4, SummableSubset
  <2> QED BY <1>4, <1>5, <1>6, <2>1, SumType DEF Summable
<1>13. f[c] + (f[y] + t) = f[y] + (f[c] + t)
  <2>1. \A p, q, r \in Int : p + (q + r) = q + (p + r)
    OBVIOUS
  <2> HIDE DEF t
  <2> QED BY <1>12, <2>1
<1>14. SumFunctionOnSet(f, R) = f[c] + (f[y] + t)
  BY <1>6, <1>9
<1>15. SumFunctionOnSet(f, R \ {y}) = f[c] + t
  BY <1>10, <1>11
<1> QED BY <1>5, <1>13, <1>14, <1>15

\* A new summand is added.
LEMMA SumInsert ==
  ASSUME NEW f, NEW S, Summable(f, S), NEW x, x \notin S, f[x] \in Int
  PROVE  /\ Summable(f, S \cup {x})
         /\ SumFunctionOnSet(f, S \cup {x}) = f[x] + SumFunctionOnSet(f, S)
<1>1. IsFiniteSet(S \cup {x})
  BY FS_AddElement DEF Summable
<1>2. Summable(f, S \cup {x})
  BY <1>1 DEF Summable
<1>3. (S \cup {x}) \ {x} = S
  OBVIOUS
<1>4. SumFunctionOnSet(f, S \cup {x}) = f[x] + SumFunctionOnSet(f, (S \cup {x}) \ {x})
  BY <1>2, SumRemove
<1> QED BY <1>2, <1>3, <1>4

\* Sums add up term by term.
LEMMA SumAdd ==
  ASSUME NEW f, NEW g, NEW h, NEW S, Summable(f, S), Summable(g, S), \A x \in S : h[x] = f[x] + g[x]
  PROVE  SumFunctionOnSet(h, S) = SumFunctionOnSet(f, S) + SumFunctionOnSet(g, S)
<1> DEFINE Good(R) == SumFunctionOnSet(h, R) = SumFunctionOnSet(f, R) + SumFunctionOnSet(g, R)
           Bad == {R \in SUBSET S : ~Good(R)}
<1>1. SUFFICES ASSUME Bad # {} PROVE FALSE
  OBVIOUS
<1>2. \A R \in Bad : IsFiniteSet(R)
  BY FS_Subset DEF Summable
<1>3. PICK R \in Bad : \A t \in Bad : ~(Cardinality(t) < Cardinality(R))
  <2> HIDE DEF Bad
  <2> QED BY <1>1, <1>2, SmallestSet
<1>4. R \in SUBSET S /\ IsFiniteSet(R) /\ ~Good(R)
  BY <1>2, <1>3
<1>5. R # {}
  BY <1>4, SumEmpty
<1> DEFINE c == First(R)
<1>6. c \in R
  BY <1>5, FirstMember
<1>7. /\ SumFunctionOnSet(h, R) = h[c] + SumFunctionOnSet(h, R \ {c})
      /\ SumFunctionOnSet(f, R) = f[c] + SumFunctionOnSet(f, R \ {c})
      /\ SumFunctionOnSet(g, R) = g[c] + SumFunctionOnSet(g, R \ {c})
  BY <1>4, <1>5, SumFirst
<1> HIDE DEF c
<1>8. Good(R \ {c})
  <2> HIDE DEF Good
  <2> QED BY <1>3, <1>4, <1>6, Removed
<1>9. f[c] \in Int /\ g[c] \in Int /\ h[c] = f[c] + g[c]
  BY <1>4, <1>6 DEF Summable
<1>10. SumFunctionOnSet(f, R \ {c}) \in Int /\ SumFunctionOnSet(g, R \ {c}) \in Int
  <2>1. Summable(f, R \ {c}) /\ Summable(g, R \ {c})
    BY <1>4, SummableSubset
  <2> QED BY <2>1, SumType
<1> QED BY <1>4, <1>7, <1>8, <1>9, <1>10

\* Zeroes do not count.
LEMMA SumZero ==
  ASSUME NEW f, NEW S, IsFiniteSet(S), \A x \in S : f[x] = 0
  PROVE  SumFunctionOnSet(f, S) = 0
<1>1. Summable(f, S)
  BY DEF Summable
<1>2. SumFunctionOnSet(f, S) \in Int
  BY <1>1, SumType
<1>3. SumFunctionOnSet(f, S) = SumFunctionOnSet(f, S) + SumFunctionOnSet(f, S)
  BY <1>1, SumAdd
<1>4. \A n \in Int : n = n + n => n = 0
  OBVIOUS
<1> QED BY <1>2, <1>3, <1>4

\* Only the values on the set matter.
LEMMA SumEqual ==
  ASSUME NEW f, NEW g, NEW S, Summable(f, S), \A x \in S : g[x] = f[x]
  PROVE  SumFunctionOnSet(g, S) = SumFunctionOnSet(f, S)
<1> DEFINE zero == [x \in S |-> 0]
<1>1. Summable(zero, S) /\ \A x \in S : zero[x] = 0
  BY DEF Summable
<1>2. \A x \in S : g[x] = f[x] + zero[x]
  BY <1>1 DEF Summable
<1> HIDE DEF zero
<1>3. SumFunctionOnSet(zero, S) = 0
  BY <1>1, SumZero DEF Summable
<1>4. SumFunctionOnSet(g, S) = SumFunctionOnSet(f, S) + SumFunctionOnSet(zero, S)
  BY <1>1, <1>2, SumAdd
<1> QED BY <1>3, <1>4, SumType

\* One summand changes.
LEMMA SumChange ==
  ASSUME NEW f, NEW g, NEW S, Summable(f, S), NEW x \in S, g[x] \in Int,
         \A y \in S : y # x => g[y] = f[y]
  PROVE  /\ Summable(g, S)
         /\ SumFunctionOnSet(g, S) = SumFunctionOnSet(f, S) - f[x] + g[x]
<1>1. Summable(g, S)
  BY DEF Summable
<1>2. Summable(f, S \ {x})
  BY SummableSubset
<1>3. SumFunctionOnSet(g, S \ {x}) = SumFunctionOnSet(f, S \ {x})
  BY <1>2, SumEqual
<1>4. SumFunctionOnSet(g, S) = g[x] + SumFunctionOnSet(g, S \ {x})
  BY <1>1, SumRemove
<1>5. SumFunctionOnSet(f, S) = f[x] + SumFunctionOnSet(f, S \ {x})
  BY SumRemove
<1>6. f[x] \in Int /\ SumFunctionOnSet(f, S \ {x}) \in Int
  BY <1>2, SumType DEF Summable
<1> QED BY <1>1, <1>3, <1>4, <1>5, <1>6

\* The sum over a set is that over a part of it and that over the rest.
LEMMA SumSplit ==
  ASSUME NEW f, NEW S, Summable(f, S), NEW R, R \subseteq S
  PROVE  SumFunctionOnSet(f, S) = SumFunctionOnSet(f, R) + SumFunctionOnSet(f, S \ R)
<1> DEFINE Good(Q) == SumFunctionOnSet(f, R \cup Q) = SumFunctionOnSet(f, R) + SumFunctionOnSet(f, Q)
           Bad == {Q \in SUBSET (S \ R) : ~Good(Q)}
<1>0. IsFiniteSet(S) /\ \A x \in S : f[x] \in Int
  BY DEF Summable
<1>1. SUFFICES ASSUME Bad # {} PROVE FALSE
  <2>1. S \ R \in SUBSET (S \ R) /\ R \cup (S \ R) = S
    OBVIOUS
  <2> QED BY <2>1
<1>2. \A Q \in Bad : IsFiniteSet(Q)
  BY <1>0, FS_Subset
<1>3. PICK Q \in Bad : \A t \in Bad : ~(Cardinality(t) < Cardinality(Q))
  <2> HIDE DEF Bad
  <2> QED BY <1>1, <1>2, SmallestSet
<1>4. Q \in SUBSET (S \ R) /\ IsFiniteSet(Q) /\ ~Good(Q)
  BY <1>2, <1>3
<1>5. Summable(f, R) /\ SumFunctionOnSet(f, R) \in Int
  BY SummableSubset, SumType
<1>6. Q # {}
  <2>1. Q = {} => R \cup Q = R
    OBVIOUS
  <2> QED BY <1>4, <1>5, <2>1, SumEmpty
<1> DEFINE c == First(Q)
           P == Q \ {c}
<1>7. c \in Q /\ f[c] \in Int
  BY <1>0, <1>4, <1>6, FirstMember
<1> HIDE DEF c
<1>8. Good(P)
  <2> HIDE DEF Good
  <2> QED BY <1>3, <1>4, <1>7, Removed
<1>9. Summable(f, P) /\ Summable(f, R \cup P) /\ SumFunctionOnSet(f, P) \in Int
  <2>1. P \subseteq S /\ R \cup P \subseteq S
    BY <1>4
  <2> HIDE DEF P
  <2> QED BY <2>1, SummableSubset, SumType
<1>10. SumFunctionOnSet(f, Q) = f[c] + SumFunctionOnSet(f, P)
  <2>1. Q = P \cup {c} /\ c \notin P
    BY <1>7
  <2> HIDE DEF P
  <2> QED BY <1>7, <1>9, <2>1, SumInsert
<1>11. SumFunctionOnSet(f, R \cup Q) = f[c] + SumFunctionOnSet(f, R \cup P)
  <2>1. R \cup Q = (R \cup P) \cup {c} /\ c \notin R \cup P
    BY <1>4, <1>7
  <2> HIDE DEF P
  <2> QED BY <1>7, <1>9, <2>1, SumInsert
<1> HIDE DEF P
<1> QED BY <1>4, <1>5, <1>7, <1>8, <1>9, <1>10, <1>11

\* A part of a sum of naturals is at most the whole, and all of it when the
\* rest is zero.
LEMMA SumPart ==
  ASSUME NEW f, NEW S, Summable(f, S), NEW R, R \subseteq S
  PROVE  /\ (\A x \in S : f[x] \in Nat) => SumFunctionOnSet(f, R) <= SumFunctionOnSet(f, S)
         /\ (\A x \in S \ R : f[x] = 0) => SumFunctionOnSet(f, R) = SumFunctionOnSet(f, S)
<1>1. Summable(f, R) /\ Summable(f, S \ R)
  BY SummableSubset
<1>2. SumFunctionOnSet(f, R) \in Int /\ SumFunctionOnSet(f, S \ R) \in Int
  BY <1>1, SumType
<1>3. SumFunctionOnSet(f, S) = SumFunctionOnSet(f, R) + SumFunctionOnSet(f, S \ R)
  BY SumSplit
<1>4. (\A x \in S : f[x] \in Nat) => SumFunctionOnSet(f, S \ R) \in Nat
  BY <1>1, SumType
<1>5. (\A x \in S \ R : f[x] = 0) => SumFunctionOnSet(f, S \ R) = 0
  BY <1>1, SumZero DEF Summable
<1> DEFINE r == SumFunctionOnSet(f, R)
           q == SumFunctionOnSet(f, S \ R)
           s == SumFunctionOnSet(f, S)
<1>6. r \in Int /\ q \in Int /\ s = r + q
  BY <1>2, <1>3
<1>7. (q \in Nat => r <= s) /\ (q = 0 => r = s)
  <2> HIDE DEF r, q, s
  <2> QED BY <1>6
<1> QED BY <1>4, <1>5, <1>7

\* A summand is at most the sum of naturals.
LEMMA SumMember ==
  ASSUME NEW f, NEW S, Summable(f, S), \A x \in S : f[x] \in Nat, NEW x \in S
  PROVE  f[x] <= SumFunctionOnSet(f, S)
<1>1. Summable(f, S \ {x}) /\ \A y \in S \ {x} : f[y] \in Nat
  BY SummableSubset
<1>2. SumFunctionOnSet(f, S \ {x}) \in Nat
  BY <1>1, SumType
<1>3. SumFunctionOnSet(f, S) = f[x] + SumFunctionOnSet(f, S \ {x})
  BY SumRemove
<1> DEFINE q == SumFunctionOnSet(f, S \ {x})
           s == SumFunctionOnSet(f, S)
<1>4. f[x] \in Nat /\ q \in Nat /\ s = f[x] + q
  BY <1>2, <1>3
<1> HIDE DEF q, s
<1>5. f[x] <= s
  BY <1>4
<1> QED BY <1>5 DEF s
=============================================================================
