------------------------------ MODULE MCMedia ------------------------------
(***************************************************************************)
(* MediaJobs and MediaLibrary for TLC.  They share no state: a behaviour   *)
(* follows the one that `focus' names while the other keeps its initial    *)
(* state, so that their states add up instead of multiplying.              *)
(***************************************************************************)
EXTENDS MediaJobs, MediaLibrary, TLC

VARIABLE focus

vars == <<focus, mediaVars, libraryVars>>

Init == focus \in {"jobs", "library"} /\ MediaJobsInit /\ LibraryInit

Next ==
  \/ focus = "jobs" /\ MediaJobsNext /\ UNCHANGED <<focus, libraryVars>>
  \/ focus = "library" /\ LibraryNext /\ UNCHANGED <<focus, mediaVars>>

Spec == Init /\ [][Next]_vars

Symmetry == Permutations(MediaJobIds) \cup Permutations(MediaWorkers)

=============================================================================
