------------------------------- MODULE MCJobs -------------------------------
(***************************************************************************)
(* Generation, bulk and repurposing jobs for TLC.  They share no state: a  *)
(* behaviour follows the one that `focus' names while the others keep      *)
(* their initial state.                                                    *)
(***************************************************************************)
EXTENDS GenerationJobs, BulkJobs, RepurposeJobs, TLC
VARIABLE focus
Init == focus \in {"generation", "bulk", "repurpose"} /\ GenInit /\ BulkInit /\ RpInit
Next ==
  \/ focus = "generation" /\ GenNext /\ UNCHANGED <<focus, bulkVars, rpVars>>
  \/ focus = "bulk" /\ BulkNext /\ UNCHANGED <<focus, genVars, rpVars>>
  \/ focus = "repurpose" /\ RpNext /\ UNCHANGED <<focus, genVars, bulkVars>>
Spec == Init /\ [][Next]_<<focus, genVars, bulkVars, rpVars>>
MCBulkInput == <<[digest |-> "x", complete |-> TRUE], [digest |-> "x", complete |-> TRUE],
                 [digest |-> "y", complete |-> TRUE]>>
MCRpCounts == <<2, 1>>
MCRpReviewed == {<<1, 1>>}
Symmetry == Permutations(BulkWorkers)
=============================================================================
