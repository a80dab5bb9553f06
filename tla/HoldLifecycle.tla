---------------------------- MODULE HoldLifecycle ----------------------------
(***************************************************************************)
(* What the billing domain promises of a credit hold, whoever settles it   *)
(* and however often they are told to: it leaves HELD once, by exactly one *)
(* settlement, and is charged at most the maximum it reserved.             *)
(***************************************************************************)
EXTENDS Integers

CONSTANTS
  Holds,  \* the holds of a workspace
  Maximum \* the amount each one reserved

VARIABLES
  outcome, \* where each hold stands
  charged  \* the credits each hold was charged

Init ==
  /\ outcome = [h \in Holds |-> "HELD"]
  /\ charged = [h \in Holds |-> 0]

Finalize(h, amount) ==
  /\ outcome[h] = "HELD"
  /\ outcome' = [outcome EXCEPT ![h] = "FINALIZED"]
  /\ charged' = [charged EXCEPT ![h] = amount]

Release(h) ==
  /\ outcome[h] = "HELD"
  /\ outcome' = [outcome EXCEPT ![h] = "RELEASED"]
  /\ UNCHANGED charged

Next == \E h \in Holds : \/ \E amount \in 0..Maximum[h] : Finalize(h, amount)
                         \/ Release(h)

Spec == Init /\ [][Next]_<<outcome, charged>>
=============================================================================
