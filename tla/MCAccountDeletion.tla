------------------------- MODULE MCAccountDeletion -------------------------
(* Values for AccountDeletion's constants that a configuration cannot write. *)
EXTENDS AccountDeletion, TLC

\* Interchangeable requests and workers (safety runs only).
Symmetry == Permutations(Requests) \cup Permutations(Workers)

\* When no fault is left no archive is restored any more: states that differ
\* only in their archive have the same future.
View ==
  << ledger, db, files, userLock, requests, writer, beat, broker, cleaners, apiUp,
     faults, IF faults < MaxFaults THEN << dump, dumps >> ELSE << >> >>

\* Bound of the liveness run: no archive is taken of an account that uploads, and
\* no upload begins once there is one.
InUse(i) == i \in rows \cup files \/ writer[i] # "idle"
LiveNext == Next /\ (dumps' > 0 => \A i \in Uploads : ~InUse(i)')

LiveSpec == Init /\ [][LiveNext]_vars /\ Fairness

=============================================================================
