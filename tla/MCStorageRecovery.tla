-------------------------- MODULE MCStorageRecovery --------------------------
(* The liveness of StorageRecovery; its safety is checked in MCServices.      *)
EXTENDS StorageRecovery

\* Drives and workers are interchangeable: when one drive holds a copy at first,
\* it is drive 1; a move that has begun is the first worker's.  That the original is
\* sound while a copy moves at first only bounds the run.
Mover == CHOOSE w \in Workers : TRUE
LiveInit ==
  /\ StorageInit
  /\ row[2] # "none" => row[1] # "none"
  /\ \A w \in Workers : At(w, "move") => w = Mover /\ original = "good"

LiveSpec == LiveInit /\ [][StorageNext]_storage /\ StorageFairness

=============================================================================
