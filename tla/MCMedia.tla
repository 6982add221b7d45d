------------------------------- MODULE MCMedia -------------------------------
(* The uploads, and what becomes of catalogued assets, checked in one run: a *)
(* behaviour is one part's, the other stays in its initial state.            *)
EXTENDS MCUploads, AssetLifecycle, TLC

VARIABLE part

MediaInit ==
  /\ part \in {"uploads", "lifecycle"}
  /\ Init /\ LifecycleInit

\* Only the part the behaviour belongs to takes steps.
MediaNext ==
  \/ part = "uploads" /\ Next /\ UNCHANGED << part, catalog >>
  \/ part = "lifecycle" /\ LifecycleNext /\ UNCHANGED << part, vars >>

MediaSpec == MediaInit /\ [][MediaNext]_<< part, vars, catalog >>

\* The part that runs is scheduled as its module says.
MediaFairSpec ==
  /\ MediaSpec
  /\ \/ part = "uploads" /\ Fairness
     \/ part = "lifecycle" /\ LifecycleFairness

\* Interchangeable ids, shared by the two parts (safety run only).
Symmetry ==
  Permutations(Assets) \cup Permutations(Items) \cup Permutations(Checksums)
  \cup Permutations(Purgers)

=============================================================================
