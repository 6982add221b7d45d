----------------------------- MODULE MCServices -----------------------------
(* The parts of the system that share no state with each other, checked in   *)
(* one run: a behaviour is one part's, the others stay in an initial state.  *)
EXTENDS DesktopSync, StorageRecovery, AccountAccess, PairedNodes, RunLocks,
        LegacyMigration, TLC

VARIABLE part

Parts == {"sync", "storage", "access", "nodes", "backups", "verifications", "migration"}

\* Rows with one content, of two accounts.
MCHolder(r) == IF r = "r2" THEN "u2" ELSE "u1"
MCObject(r) == "x"

Init ==
  /\ part \in Parts
  /\ DesktopInit /\ NodesInit /\ LocksInit
  /\ StorageInit /\ (part # "storage" => \A d \in Drives : row[d] = "none")
  /\ AccessInit /\ (part # "access" => ~google /\ ~user.verified)
  /\ MigrationInit /\ (part # "migration" => \A u \in Accounts : mediaKey[u] = 0)

\* Only the part the behaviour belongs to takes steps.
Next ==
  \/ part = "sync" /\ SyncNext
     /\ UNCHANGED << part, storage, access, nodes, runs, migration >>
  \/ part = "storage" /\ StorageNext
     /\ UNCHANGED << part, syncVars, access, nodes, runs, migration >>
  \/ part = "access" /\ AccessNext
     /\ UNCHANGED << part, syncVars, storage, nodes, runs, migration >>
  \/ part = "nodes" /\ NodesNext
     /\ UNCHANGED << part, syncVars, storage, access, runs, migration >>
  \/ part = "backups" /\ BackupNext
     /\ UNCHANGED << part, syncVars, storage, access, nodes, migration >>
  \/ part = "verifications" /\ VerificationNext
     /\ UNCHANGED << part, syncVars, storage, access, nodes, migration >>
  \/ part = "migration" /\ MigrationNext
     /\ UNCHANGED << part, syncVars, storage, access, nodes, runs >>

Spec == Init /\ [][Next]_<< part, syncVars, storage, access, nodes, runs, migration >>

\* Every variable keeps its type, and every lock holds off the others: of rows,
\* paths, users, owners and the index of open verifications (see each module).
ServicesTypeOK ==
  /\ SyncTypeOK /\ StorageTypeOK /\ AccessTypeOK
  /\ NodesTypeOK /\ LocksTypeOK /\ MigrationTypeOK

\* Interchangeable ids: several parts share these values.
Symmetry ==
  Permutations(Desktops) \cup Permutations(Contents)

=============================================================================
