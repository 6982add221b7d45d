---------------------------- MODULE ServicesProofs ----------------------------
(***************************************************************************)
(* The worker's locks and migration, and the parts of the server side by   *)
(* side.                                                                   *)
(*                                                                         *)
(* RunLocks, for any number of requests, workers and verifications.  That  *)
(* two backups exclude each other rests on what a worker that runs one     *)
(* knows of the key (Holds): it is still the worker's own.  Nothing but    *)
(* the worker itself touches the key then, because every other step        *)
(* compares the key with a token of its own first.  That a recorded job    *)
(* keeps the lock of a verification rests on the order of the request: it  *)
(* records the job after its last chance to fail the row (Announced).      *)
(*                                                                         *)
(* LegacyMigration, for any rows, accounts, contents and workers.  An      *)
(* account's key is drawn once: a worker that draws one holds the owner    *)
(* and has seen that there is none, and it commits the key before it       *)
(* encrypts (KeyIsCommitted).  From its encryption to its commit the       *)
(* ciphertext stays, because a purge of a row with the same path needs the *)
(* path's lock (CiphertextIsHeld).                                         *)
(*                                                                         *)
(* MCServices: what holds of each part alone holds of all of them, because *)
(* a step of one part leaves the variables of the others as they are.      *)
(***************************************************************************)
EXTENDS MCServices, DesktopSyncProofs, StorageRecoveryProofs, AccountAccessProofs,
        PairedNodesProofs

-----------------------------------------------------------------------------
(* The locks of the backups and of the verifications (RunLocks).           *)

Holds == \A w \in Runners : runner[w] = "backup" => key = <<"run", w>>

Announced == \A v \in Verifications : check[v].api = "publishing" => ~check[v].job

LocksInv == LocksTypeOK /\ Holds /\ Announced

\* A verification step leaves the backups alone, and the other way round.
BackupParts == <<key, asker, backups, runner>>
VerificationParts == <<check, orders, checker>>

\* The initial state has no run and no row.
LEMMA LocksInitially == LocksInit => LocksInv
BY DEF LocksInit, LocksInv, LocksTypeOK, Holds, Announced

\* A token is deleted or left: the key stays a token or unset.
LEMMA ReleasedIsTyped ==
  ASSUME NEW token, key \in Tokens \cup {Unset}
  PROVE  Released(token) \in {key, Unset} /\ Released(token) \in Tokens \cup {Unset}
BY DEF Released

\* Every step of the backups keeps their types, and the key of a run under way.
LEMMA BackupsKeepHolds ==
  LocksInv /\ BackupNext => LocksInv'
<1> SUFFICES ASSUME LocksInv, BackupNext PROVE LocksInv'
  OBVIOUS
<1> USE LocksAssumption DEF LocksInv, LocksTypeOK, Holds
<1>1. UNCHANGED VerificationParts
  BY DEF BackupNext, AskBackup, PublishBackup, AskerDies, Schedule, KeyExpires,
         LoseBackup, StartBackup, FinishBackup, KillBackup, VerificationParts
<1>2. Announced' /\ (check \in [Verifications ->
       [status : {"none", "open", "resolved", "failed"}, job : BOOLEAN,
        old : BOOLEAN, api : {"publishing", "recording", "over"}]])'
      /\ (orders \subseteq Verifications)'
      /\ (checker \in [Runners -> Verifications \cup {Unset}])'
      /\ (\A u, v \in Verifications :
            check[u].status = "open" /\ check[v].status = "open" => u = v)'
  BY <1>1 DEF VerificationParts, Announced
<1> DEFINE Kept ==
      /\ key' \in Tokens \cup {Unset}
      /\ asker' \in [Owners -> {"new", "publishing", "queued", "refused", "failed"}]
      /\ backups' \subseteq Owners \cup {Scheduled}
      /\ runner' \in [Runners -> {"idle", "backup"}]
      /\ Holds'
<1>3. ASSUME NEW o \in Owners, AskBackup(o) PROVE Kept
  BY <1>3 DEF AskBackup, Tokens
<1>4. ASSUME NEW o \in Owners, PublishBackup(o) PROVE Kept
  <2>1. key' \in Tokens \cup {Unset} /\ (key' = key \/ key = <<"request", o>>)
    BY <1>4, ReleasedIsTyped DEF PublishBackup, Released
  <2>2. Holds'
    BY <1>4, <2>1 DEF PublishBackup
  <2> QED
    BY <1>4, <2>1, <2>2 DEF PublishBackup
<1>5. ASSUME NEW o \in Owners, AskerDies(o) PROVE Kept
  BY <1>5 DEF AskerDies
<1>6. ASSUME Schedule PROVE Kept
  BY <1>6 DEF Schedule
<1>7. ASSUME KeyExpires PROVE Kept
  BY <1>7 DEF KeyExpires
<1>8. ASSUME NEW m \in Owners \cup {Scheduled}, LoseBackup(m) PROVE Kept
  BY <1>8 DEF LoseBackup
<1>9. ASSUME NEW m \in Owners \cup {Scheduled}, NEW w \in Runners, StartBackup(w, m)
      PROVE Kept
  <2>1. CASE Claims(m)
    <3>1. \A v \in Runners : key # <<"run", v>>
      BY <2>1 DEF Claims, Tokens
    <3>2. \A v \in Runners : runner[v] # "backup"
      BY <3>1
    <3>3. key' = <<"run", w>> /\ runner' = [runner EXCEPT ![w] = "backup"]
      BY <1>9, <2>1 DEF StartBackup
    <3> QED
      BY <1>9, <3>2, <3>3 DEF StartBackup, Tokens
  <2>2. CASE ~Claims(m)
    BY <1>9, <2>2 DEF StartBackup
  <2> QED
    BY <2>1, <2>2
<1>10. ASSUME NEW w \in Runners, FinishBackup(w) PROVE Kept
  <2>1. \A v \in Runners \ {w} : runner[v] # "backup"
    BY <1>10 DEF FinishBackup
  <2>2. key' \in Tokens \cup {Unset}
    BY <1>10, ReleasedIsTyped DEF FinishBackup
  <2> QED
    BY <1>10, <2>1, <2>2 DEF FinishBackup
<1>11. ASSUME NEW w \in Runners, KillBackup(w) PROVE Kept
  BY <1>11 DEF KillBackup
<1>12. Kept
  BY <1>3, <1>4, <1>5, <1>6, <1>7, <1>8, <1>9, <1>10, <1>11 DEF BackupNext
<1> QED
  BY <1>2, <1>12

\* Every step of the verifications keeps their types, at most one open row, and
\* no job on a row whose request may still fail it.
LEMMA VerificationsKeepAnnounced ==
  LocksInv /\ VerificationNext => LocksInv'
<1> SUFFICES ASSUME LocksInv, VerificationNext PROVE LocksInv'
  OBVIOUS
<1> USE DEF LocksInv, LocksTypeOK, Announced
<1>1. UNCHANGED BackupParts
  BY DEF VerificationNext, AskVerification, PublishVerification, RecordJob, HourPasses,
         StartVerification, FinishVerification, KillVerification, LoseVerification,
         BackupParts
<1>2. Holds' /\ (key \in Tokens \cup {Unset})'
      /\ (asker \in [Owners -> {"new", "publishing", "queued", "refused", "failed"}])'
      /\ (backups \subseteq Owners \cup {Scheduled})'
      /\ (runner \in [Runners -> {"idle", "backup"}])'
  BY <1>1 DEF BackupParts, Holds, Tokens
<1> DEFINE Rows == [status : {"none", "open", "resolved", "failed"}, job : BOOLEAN,
                    old : BOOLEAN, api : {"publishing", "recording", "over"}]
           Kept == /\ check' \in [Verifications -> Rows]
                   /\ orders' \subseteq Verifications
                   /\ checker' \in [Runners -> Verifications \cup {Unset}]
                   /\ \A x, y \in Verifications :
                        check'[x].status = "open" /\ check'[y].status = "open" => x = y
                   /\ Announced'
<1> SUFFICES Kept
  BY <1>2
<1>3. ASSUME NEW v \in Verifications, AskVerification(v) PROVE Kept
  <2>1. check'[v] = [status |-> "open", job |-> FALSE, old |-> FALSE, api |-> "publishing"]
    BY <1>3 DEF AskVerification
  <2>2. ASSUME NEW x \in Verifications \ {v}
        PROVE  /\ check'[x] \in Rows /\ check'[x].status # "open"
               /\ check'[x].api = "publishing" => ~check'[x].job
    <3>1. CASE check[x].status = "open"
      <4>1. check'[x] = [check[x] EXCEPT !.status = "resolved"]
        BY <1>3, <3>1 DEF AskVerification, OpenChecks
      <4> QED
        BY <4>1
    <3>2. CASE check[x].status # "open"
      <4>1. check'[x] = check[x]
        BY <1>3, <3>2 DEF AskVerification, OpenChecks
      <4> QED
        BY <4>1, <3>2
    <3> QED
      BY <3>1, <3>2
  <2>3. check' \in [Verifications -> Rows]
    <3>1. \A x \in Verifications : check'[x] \in Rows
      <4>1. check'[v] \in Rows
        BY <2>1
      <4> QED
        BY <4>1, <2>2
    <3>2. check' = [x \in Verifications |-> check'[x]]
      BY <1>3 DEF AskVerification
    <3> QED
      BY <3>1, <3>2
  <2>4. \A x, y \in Verifications :
          check'[x].status = "open" /\ check'[y].status = "open" => x = y
    BY <2>2
  <2>5. Announced'
    BY <2>1, <2>2
  <2> QED
    BY <1>3, <2>3, <2>4, <2>5 DEF AskVerification
<1>4. ASSUME NEW v \in Verifications, PublishVerification(v) PROVE Kept
  <2>1. \/ check' = [check EXCEPT ![v].api = "recording"]
        \/ check' = [check EXCEPT ![v].api = "over", ![v].status = "failed"]
        \/ check' = [check EXCEPT ![v].api = "over"]
    BY <1>4 DEF PublishVerification
  <2>2. orders' \in {orders, orders \cup {v}} /\ checker' = checker
    BY <1>4 DEF PublishVerification
  <2>8. orders' \subseteq Verifications /\ checker' \in [Runners -> Verifications \cup {Unset}]
    BY <2>2
  <2>3. CASE check' = [check EXCEPT ![v].api = "recording"]
    BY <2>8, <2>3
  <2>4. CASE check' = [check EXCEPT ![v].api = "over", ![v].status = "failed"]
    <3>1. check'[v] = [check[v] EXCEPT !.api = "over", !.status = "failed"]
      BY <2>4
    <3>2. \A x \in Verifications \ {v} : check'[x] = check[x]
      BY <2>4
    <3>3. check' \in [Verifications -> Rows]
      BY <2>4
    <3>4. check'[v].status = "failed" /\ check'[v].api = "over"
      BY <3>1
    <3>5. \A x, y \in Verifications :
            check'[x].status = "open" /\ check'[y].status = "open" => x = y
      BY <3>2, <3>4
    <3>6. Announced'
      BY <3>2, <3>4
    <3> QED
      BY <2>8, <3>3, <3>5, <3>6
  <2>5. CASE check' = [check EXCEPT ![v].api = "over"]
    <3>1. check' \in [Verifications -> Rows]
      BY <2>5
    <3>2. \A x \in Verifications : check'[x].status = check[x].status
      BY <2>5
    <3>3. \A x \in Verifications : check'[x].api = "publishing" => check'[x] = check[x]
      BY <2>5
    <3> QED
      BY <2>8, <3>1, <3>2, <3>3
  <2> QED
    BY <2>1, <2>3, <2>4, <2>5
<1>5. ASSUME NEW v \in Verifications, RecordJob(v) PROVE Kept
  <2>1. PICK job \in BOOLEAN : check' = [check EXCEPT ![v].api = "over", ![v].job = job]
    BY ONLY <1>5 DEF RecordJob
  <2>2. check'[v] = [check[v] EXCEPT !.api = "over", !.job = job]
    BY <2>1
  <2>3. \A x \in Verifications \ {v} : check'[x] = check[x]
    BY <2>1
  <2>4. check'[v].status = check[v].status /\ check'[v].api = "over"
    BY <2>2
  <2>5. check' \in [Verifications -> Rows]
    BY <2>1
  <2>6. Announced'
    BY <2>3, <2>4
  <2>7. \A x, y \in Verifications :
          check'[x].status = "open" /\ check'[y].status = "open" => x = y
    BY <2>3, <2>4
  <2>8. orders' = orders /\ checker' = checker
    BY <1>5 DEF RecordJob
  <2> QED
    BY <2>5, <2>6, <2>7, <2>8
<1>6. ASSUME NEW v \in Verifications, HourPasses(v) PROVE Kept
  BY <1>6 DEF HourPasses
<1>7. ASSUME NEW w \in Runners, NEW v \in Verifications, StartVerification(w, v) PROVE Kept
  BY <1>7 DEF StartVerification
<1>8. ASSUME NEW w \in Runners, FinishVerification(w) PROVE Kept
  <2>1. checker[w] \in Verifications
    BY <1>8 DEF FinishVerification
  <2>2. PICK s \in {"resolved", "failed"} :
          \/ check' = [check EXCEPT ![checker[w]].status = IF @ = "open" THEN s ELSE @]
          \/ check' = check
    BY <1>8 DEF FinishVerification
  <2> QED
    BY <1>8, <2>1, <2>2 DEF FinishVerification
<1>9. ASSUME NEW v \in Verifications, LoseVerification(v) PROVE Kept
  BY <1>9 DEF LoseVerification
<1>10. ASSUME NEW w \in Runners, KillVerification(w) PROVE Kept
  BY <1>10 DEF KillVerification
<1> QED
  BY <1>3, <1>4, <1>5, <1>6, <1>7, <1>8, <1>9, <1>10 DEF VerificationNext

LEMMA LocksStep == LocksInv /\ [LocksNext]_runs => LocksInv'
<1>1. LocksInv /\ UNCHANGED runs => LocksInv'
  BY DEF LocksInv, LocksTypeOK, Holds, Announced, runs, Tokens
<1> QED
  BY <1>1, BackupsKeepHolds, VerificationsKeepAnnounced DEF LocksNext

\* The inductive invariant of both locks (storage_status.py:212-236,
\* tasks.py:1310-1332, monitoring.py:31-101).
THEOREM LocksInvariance == LocksSpec => []LocksInv
BY LocksInitially, LocksStep, PTL DEF LocksSpec

\* Types, and at most one open verification (monitoring.py:46-101).
THEOREM LocksTyped == LocksSpec => []LocksTypeOK
<1>1. LocksInv => LocksTypeOK
  BY DEF LocksInv
<1> QED
  BY <1>1, LocksInvariance, PTL

\* Two backups never run at the same time (tasks.py:1310-1332): the key would be
\* the token of both.
THEOREM BackupsExclude == LocksSpec => []NoTwoBackups
<1>1. LocksInv => NoTwoBackups
  BY DEF LocksInv, Holds, NoTwoBackups
<1> QED
  BY <1>1, LocksInvariance, PTL

\* Once its job is recorded, only its own worker releases a verification
\* (monitoring.py:34-36).
THEOREM WorkerReleases == LocksSpec => OnlyItsWorkerReleases
<1> DEFINE Releases(v) ==
      check[v].status = "open" /\ check[v].job /\ check'[v].status # "open"
        => \E w \in Runners : checker[w] = v /\ checker'[w] = Unset
<1>1. ASSUME LocksInv, LocksNext, NEW v \in Verifications PROVE Releases(v)
  <2> SUFFICES ASSUME check[v].status = "open", check[v].job, check'[v].status # "open"
               PROVE  \E w \in Runners : checker[w] = v /\ checker'[w] = Unset
    OBVIOUS
  <2> USE <1>1 DEF LocksInv, LocksTypeOK, Announced
  <2>1. check' # check
    OBVIOUS
  <2>2. \/ \E u \in Verifications :
             \/ AskVerification(u) \/ PublishVerification(u) \/ RecordJob(u)
             \/ HourPasses(u)
        \/ \E w \in Runners : FinishVerification(w)
    BY <2>1 DEF LocksNext, BackupNext, VerificationNext, AskBackup, PublishBackup,
         AskerDies, Schedule, KeyExpires, LoseBackup, StartBackup, FinishBackup,
         KillBackup, StartVerification, KillVerification, LoseVerification
  <2>3. ASSUME NEW u \in Verifications, AskVerification(u) PROVE FALSE
    BY <2>3 DEF AskVerification, OpenChecks, LockActive
  <2>4. ASSUME NEW u \in Verifications, PublishVerification(u) PROVE FALSE
    BY <2>4 DEF PublishVerification
  <2>5. ASSUME NEW u \in Verifications, RecordJob(u) PROVE FALSE
    BY <2>5 DEF RecordJob
  <2>6. ASSUME NEW u \in Verifications, HourPasses(u) PROVE FALSE
    BY <2>6 DEF HourPasses
  <2>7. ASSUME NEW w \in Runners, FinishVerification(w)
        PROVE  checker[w] = v /\ checker'[w] = Unset
    <3>1. checker[w] # v => check'[v] = check[v]
      BY <2>7 DEF FinishVerification
    <3> QED
      BY <2>7, <3>1 DEF FinishVerification
  <2> QED
    BY <2>2, <2>3, <2>4, <2>5, <2>6, <2>7
<1>2. LocksInv /\ [LocksNext]_runs => [\A v \in Verifications : Releases(v)]_runs
  BY <1>1
<1> QED
  BY <1>2, LocksInvariance, PTL DEF LocksSpec, OnlyItsWorkerReleases

-----------------------------------------------------------------------------
(* The migration of legacy media (LegacyMigration).                        *)

\* What a worker holds is a row to migrate, with the key its owner has.
KeyIsCommitted ==
  \A w \in Holding :
    /\ legacy[mover[w].row].state = "active" /\ ~legacy[mover[w].row].encrypted
    /\ mover[w].key = mediaKey[Holder(mover[w].row)]

CiphertextIsHeld ==
  \A w \in Movers : mover[w].at = "encrypted" =>
    mover[w].key # 0 /\ cipher[Path(mover[w].row)] = mover[w].key

\* The row a worker has committed stays encrypted.
MovedIsEncrypted ==
  \A w \in Movers : mover[w].at = "moved" => legacy[mover[w].row].encrypted

\* A row that is being purged was trashed.
PurgedIsDue == \A r \in purge : legacy[r].state \in {"trashed", "purging"}

MigrationInv ==
  /\ MigrationTypeOK
  /\ KeyIsCommitted /\ CiphertextIsHeld /\ MovedIsEncrypted /\ PurgedIsDue
  /\ MediaStaysReadable /\ CiphertextHasItsKey

\* Nothing is migrated yet, and every plaintext is there.
LEMMA MigrationInitially == MigrationInit => MigrationInv
<1> SUFFICES ASSUME MigrationInit PROVE MigrationInv
  OBVIOUS
<1> USE DEF MigrationInit, Waiting
<1>1. /\ 0 \in 0 .. MaxKeys /\ {0, 1} \cap 0 .. MaxKeys \subseteq 0 .. MaxKeys
      /\ \A r \in LegacyRows : Holder(r) \in Accounts /\ Object(r) \in Objects
  BY MigrationAssumption DEF Accounts, Objects
<1>2. MigrationTypeOK
  BY <1>1 DEF MigrationTypeOK, Holding
<1>3. KeyIsCommitted /\ CiphertextIsHeld /\ MovedIsEncrypted /\ PurgedIsDue
  BY DEF KeyIsCommitted, CiphertextIsHeld, MovedIsEncrypted, PurgedIsDue, Holding
<1>4. MediaStaysReadable /\ CiphertextHasItsKey
  BY <1>1 DEF MediaStaysReadable, CiphertextHasItsKey
<1> QED
  BY <1>2, <1>3, <1>4 DEF MigrationInv

\* What the types say of a worker that is on its way.
LEMMA MovementTypes ==
  ASSUME MigrationTypeOK, NEW w \in Movers, mover[w] # Waiting
  PROVE  /\ mover[w] \in Movements /\ mover[w].row \in LegacyRows
         /\ mover[w].at \in {"locked", "keyed", "encrypted", "moved"}
         /\ mover[w].key \in 0 .. MaxKeys
         /\ Path(mover[w].row) \in Accounts \X Objects
         /\ Holder(mover[w].row) \in Accounts /\ Object(mover[w].row) \in Objects
BY DEF MigrationTypeOK, Movements, Path, Accounts, Objects

\* A worker locks a row whose owner nobody holds, and reads the key as it is.
LEMMA LockLegacyIsSafe ==
  ASSUME MigrationInv, NEW w \in Movers, NEW r \in LegacyRows, LockLegacy(w, r)
  PROVE  MigrationInv'
<1> USE DEF purges
<1> DEFINE new == [at |-> "locked", row |-> r, key |-> mediaKey[Holder(r)], alone |-> FALSE]
<1>1. mover' = [mover EXCEPT ![w] = new] /\ new \in Movements
  BY DEF LockLegacy, MigrationInv, MigrationTypeOK, Movements, Accounts
<1>2. mover'[w] = new /\ \A v \in Movers \ {w} : mover'[v] = mover[v]
  BY <1>1 DEF MigrationInv, MigrationTypeOK
<1>3. \A v \in Holding : Holder(mover[v].row) # Holder(r)
  BY DEF LockLegacy, OwnerFree
<1> HIDE DEF new
<1>4. MigrationTypeOK'
  <2>1. Holding' = Holding \cup {w}
    BY <1>2 DEF Holding, new
  <2>2. \A u, v \in Holding' : Holder(mover'[u].row) = Holder(mover'[v].row) => u = v
    BY <1>2, <1>3, <2>1 DEF MigrationInv, MigrationTypeOK, Holding, new
  <2>3. \A v \in Holding' : mover'[v].row \notin purge
    BY <1>2, <2>1 DEF MigrationInv, MigrationTypeOK, LockLegacy, RowUnlocked, Holding, new
  <2> QED
    BY <1>1, <2>2, <2>3 DEF MigrationInv, MigrationTypeOK, LockLegacy
<1>5. KeyIsCommitted' /\ CiphertextIsHeld' /\ MovedIsEncrypted' /\ PurgedIsDue'
  BY <1>2 DEF MigrationInv, KeyIsCommitted, CiphertextIsHeld, MovedIsEncrypted, PurgedIsDue,
              Holding, LockLegacy, Migratable, new
<1>6. MediaStaysReadable' /\ CiphertextHasItsKey'
  BY DEF MigrationInv, MediaStaysReadable, CiphertextHasItsKey, LockLegacy
<1> QED
  BY <1>4, <1>5, <1>6 DEF MigrationInv

\* A worker gives its locks up and leaves everything else as it is.
LEMMA WaitingIsSafe ==
  ASSUME MigrationInv, NEW w \in Movers, mover' = [mover EXCEPT ![w] = Waiting],
         UNCHANGED << legacy, cipher, mediaKey, drawn, disabled, purges >>,
         plain' \subseteq plain,
         \A r \in LegacyRows \ taken :
           legacy[r].state # "gone" /\ ~legacy[r].encrypted => Object(r) \in plain'
  PROVE  MigrationInv'
<1> USE DEF purges
<1>1. mover'[w] = Waiting /\ \A v \in Movers \ {w} : mover'[v] = mover[v]
  BY DEF MigrationInv, MigrationTypeOK
<1>2. MigrationTypeOK'
  <2>1. Holding' \subseteq Holding \ {w}
    BY <1>1 DEF Holding, Waiting
  <2>2. \A u, v \in Holding' : Holder(mover'[u].row) = Holder(mover'[v].row) => u = v
    BY <1>1, <2>1 DEF MigrationInv, MigrationTypeOK, Holding
  <2>3. \A v \in Holding' : mover'[v].row \notin purge
    BY <1>1, <2>1 DEF MigrationInv, MigrationTypeOK
  <2> QED
    BY <2>2, <2>3 DEF MigrationInv, MigrationTypeOK
<1>3. KeyIsCommitted' /\ CiphertextIsHeld' /\ MovedIsEncrypted' /\ PurgedIsDue'
  BY <1>1 DEF MigrationInv, KeyIsCommitted, CiphertextIsHeld, MovedIsEncrypted, PurgedIsDue,
              Holding, Waiting
<1>4. MediaStaysReadable' /\ CiphertextHasItsKey'
  BY DEF MigrationInv, MediaStaysReadable, CiphertextHasItsKey
<1> QED
  BY <1>2, <1>3, <1>4 DEF MigrationInv

\* A worker skips its row, dies, or collects a plaintext that nobody names.
LEMMA EndingsAreSafe ==
  ASSUME MigrationInv, NEW w \in Movers,
         SkipLegacy(w) \/ CollectPlain(w) \/ KillMigration(w)
  PROVE  MigrationInv'
<1> USE DEF purges
<1>1. CASE SkipLegacy(w) \/ KillMigration(w)
  BY <1>1, WaitingIsSafe DEF SkipLegacy, KillMigration, MigrationInv, MediaStaysReadable
<1>2. CASE CollectPlain(w)
  <2>1. legacy[mover[w].row].encrypted
    BY <1>2 DEF CollectPlain, MigrationInv, MovedIsEncrypted
  <2>2. ASSUME NEW r \in LegacyRows \ taken, legacy[r].state # "gone", ~legacy[r].encrypted
        PROVE  Object(r) \in plain'
    <3>1. Object(r) \in plain /\ r # mover[w].row
      BY <2>1, <2>2 DEF MigrationInv, MediaStaysReadable
    <3>2. Object(r) = Object(mover[w].row) => PlainNamed(Object(mover[w].row), mover[w].row)
      BY <2>2, <3>1 DEF PlainNamed
    <3> QED
      BY <1>2, <3>1, <3>2 DEF CollectPlain
  <2>3. plain' \subseteq plain
    BY <1>2 DEF CollectPlain
  <2> QED
    BY <1>2, <2>2, <2>3, WaitingIsSafe DEF CollectPlain
<1> QED
  BY <1>1, <1>2

\* The owner had no key, so no row and no object of the owner needs another one.
LEMMA InitializeKeyIsSafe ==
  ASSUME MigrationInv, NEW w \in Movers, InitializeKey(w)
  PROVE  MigrationInv'
<1> USE DEF purges
<1> DEFINE r == mover[w].row
           u == Holder(r)
           k == drawn[u] + 1
<1>1. /\ w \in Holding /\ mover[w].at = "locked" /\ mover[w].key = 0 /\ mover[w] # Waiting
      /\ drawn[u] < MaxKeys
      /\ drawn' = [drawn EXCEPT ![u] = @ + 1]
      /\ mover' = [mover EXCEPT ![w].key = k, ![w].at = "keyed"]
      /\ mediaKey' = [mediaKey EXCEPT ![u] = k]
      /\ UNCHANGED << legacy, plain, cipher, disabled, purges >>
  BY DEF InitializeKey, KeyFirst, Holding, Waiting
<1>2. r \in LegacyRows /\ u \in Accounts /\ mediaKey[u] = 0 /\ mover[w] \in Movements
  BY <1>1, MovementTypes DEF MigrationInv, KeyIsCommitted
<1>3. k \in 0 .. MaxKeys /\ k # 0
  BY <1>1, <1>2, MigrationAssumption DEF MigrationInv, MigrationTypeOK
<1> HIDE DEF r, u, k
<1>4. mover'[w] = [mover[w] EXCEPT !.key = k, !.at = "keyed"]
      /\ \A v \in Movers \ {w} : mover'[v] = mover[v]
  BY <1>1 DEF MigrationInv, MigrationTypeOK
<1>5. mover'[w] \in Movements /\ mover'[w].at = "keyed" /\ mover'[w].row = r
  BY <1>2, <1>3, <1>4 DEF Movements, r
<1>6. Holding' = Holding \ {w}
  BY <1>4, <1>5 DEF Holding
<1>7. mediaKey'[u] = k /\ \A a \in Accounts \ {u} : mediaKey'[a] = mediaKey[a]
  BY <1>1, <1>2 DEF MigrationInv, MigrationTypeOK
<1>8. MigrationTypeOK'
  <2>1. mover' \in [Movers -> Movements \cup {Waiting}]
    BY <1>1, <1>4, <1>5 DEF MigrationInv, MigrationTypeOK
  <2>2. drawn' \in [Accounts -> 0 .. MaxKeys] /\ mediaKey' \in [Accounts -> 0 .. MaxKeys]
    BY <1>1, <1>2, <1>3 DEF MigrationInv, MigrationTypeOK, k
  <2>3. \A x, v \in Holding' : Holder(mover'[x].row) = Holder(mover'[v].row) => x = v
    BY <1>4, <1>6 DEF MigrationInv, MigrationTypeOK, Holding
  <2>4. \A v \in Holding' : mover'[v].row \notin purge
    BY <1>4, <1>6 DEF MigrationInv, MigrationTypeOK, Holding
  <2>5. /\ legacy' \in [LegacyRows ->
             [state : {"active", "trashed", "purging", "gone"}, encrypted : BOOLEAN]]
        /\ plain' \subseteq Objects /\ disabled' \subseteq Accounts
        /\ cipher' \in [Accounts \X Objects -> 0 .. MaxKeys]
        /\ purge' = purge /\ purge \subseteq LegacyRows /\ taken' \subseteq LegacyRows
    BY <1>1 DEF MigrationInv, MigrationTypeOK
  <2> QED
    BY <2>1, <2>2, <2>3, <2>4, <2>5 DEF MigrationTypeOK
<1>9. \A v \in Holding \ {w} : Holder(mover[v].row) # u /\ Holder(mover[v].row) \in Accounts
  BY <1>1, MovementTypes DEF MigrationInv, MigrationTypeOK, Holding, u, r, Waiting
<1>10. KeyIsCommitted'
  <2>1. \A v \in Holding' :
          /\ legacy'[mover'[v].row] = legacy[mover[v].row]
          /\ mover'[v].key = mover[v].key /\ mover'[v].row = mover[v].row
          /\ mediaKey'[Holder(mover[v].row)] = mediaKey[Holder(mover[v].row)]
    BY <1>1, <1>4, <1>6, <1>7, <1>9 DEF Holding
  <2>2. Holding' \subseteq Holding
    BY <1>6
  <2> QED
    BY <2>1, <2>2 DEF MigrationInv, KeyIsCommitted
<1>11. CiphertextIsHeld' /\ MovedIsEncrypted' /\ PurgedIsDue'
  BY <1>1, <1>4, <1>5 DEF MigrationInv, CiphertextIsHeld, MovedIsEncrypted, PurgedIsDue
<1>12. MediaStaysReadable'
  <2>1. \A x \in LegacyRows : Holder(x) \in Accounts
    BY DEF Accounts
  <2> QED
    BY <1>1, <1>2, <1>7, <2>1 DEF MigrationInv, MediaStaysReadable
<1>13. CiphertextHasItsKey'
  <2>1. ASSUME NEW p \in Accounts \X Objects PROVE cipher[p] \in {0, mediaKey'[p[1]]}
    <3>1. p[1] \in Accounts /\ cipher[p] \in {0, mediaKey[p[1]]}
      BY DEF MigrationInv, CiphertextHasItsKey
    <3> QED
      BY <1>2, <1>7, <3>1
  <2> QED
    BY <1>1, <2>1 DEF CiphertextHasItsKey
<1> QED
  BY <1>8, <1>10, <1>11, <1>12, <1>13 DEF MigrationInv

\* The ciphertext that is written opens with the committed key of its owner.
LEMMA EncryptIsSafe ==
  ASSUME MigrationInv, NEW w \in Movers, Encrypt(w)
  PROVE  MigrationInv'
<1> USE DEF purges
<1> DEFINE r == mover[w].row
           c == mover'[w].alone
<1>1. /\ w \in Holding /\ mover[w] # Waiting /\ mover[w].key # 0
      /\ cipher[Path(r)] \in {0, mover[w].key}
      /\ cipher' = [cipher EXCEPT ![Path(r)] = mover[w].key]
      /\ UNCHANGED << legacy, plain, mediaKey, drawn, disabled, purges >>
  BY DEF Encrypt, Holding, Waiting
<1>2. /\ r \in LegacyRows /\ Path(r) \in Accounts \X Objects
      /\ mover[w] \in Movements /\ mover[w].key \in 0 .. MaxKeys
      /\ mover[w].key = mediaKey[Holder(r)]
  BY <1>1, MovementTypes DEF MigrationInv, KeyIsCommitted
<1>3. PICK b \in BOOLEAN :
        mover' = [mover EXCEPT ![w].at = "encrypted", ![w].alone = b]
  BY DEF Encrypt
<1>4. mover'[w] = [mover[w] EXCEPT !.at = "encrypted", !.alone = b]
      /\ \A v \in Movers \ {w} : mover'[v] = mover[v]
  BY <1>3 DEF MigrationInv, MigrationTypeOK
<1> HIDE DEF r, c
<1>5. /\ mover'[w] \in Movements /\ mover'[w].at = "encrypted" /\ mover'[w].row = r
      /\ mover'[w].key = mover[w].key
  BY <1>2, <1>4 DEF Movements, r
<1>6. Holding' = Holding
  BY <1>1, <1>4, <1>5 DEF Holding
<1>7. cipher'[Path(r)] = mover[w].key /\ mover[w].key = mediaKey[Path(r)[1]]
      /\ \A p \in (Accounts \X Objects) \ {Path(r)} : cipher'[p] = cipher[p]
  BY <1>1, <1>2 DEF MigrationInv, MigrationTypeOK, Path
<1>8. MigrationTypeOK'
  <2>1. mover' \in [Movers -> Movements \cup {Waiting}]
    BY <1>3, <1>4, <1>5 DEF MigrationInv, MigrationTypeOK
  <2>2. cipher' \in [Accounts \X Objects -> 0 .. MaxKeys]
    BY <1>1, <1>2 DEF MigrationInv, MigrationTypeOK
  <2>3. \A x, v \in Holding' : Holder(mover'[x].row) = Holder(mover'[v].row) => x = v
    <3>1. \A v \in Movers : mover'[v].row = mover[v].row
      BY <1>4, <1>5 DEF r
    <3> QED
      BY <1>6, <3>1 DEF MigrationInv, MigrationTypeOK, Holding
  <2>4. \A v \in Holding' : mover'[v].row \notin purge
    BY <1>4, <1>5, <1>6 DEF MigrationInv, MigrationTypeOK, Holding, r
  <2> QED
    BY <1>1, <2>1, <2>2, <2>3, <2>4 DEF MigrationInv, MigrationTypeOK
<1>9. KeyIsCommitted'
  <2>1. \A v \in Holding' :
          /\ legacy'[mover'[v].row] = legacy[mover[v].row]
          /\ mover'[v].key = mover[v].key /\ mover'[v].row = mover[v].row
          /\ mediaKey'[Holder(mover[v].row)] = mediaKey[Holder(mover[v].row)]
    BY <1>1, <1>4, <1>5, <1>6 DEF Holding, r
  <2>2. Holding' \subseteq Holding
    BY <1>6
  <2> QED
    BY <2>1, <2>2 DEF MigrationInv, KeyIsCommitted
<1>13. MovedIsEncrypted'
  <2>1. \A v \in Movers : mover'[v].at = "moved" => v # w
    BY <1>5
  <2> QED
    BY <1>1, <1>4, <2>1 DEF MigrationInv, MovedIsEncrypted
<1>10. CiphertextIsHeld'
  <2>1. \A v \in Movers \ {w} : mover[v].at = "encrypted" => Path(mover[v].row) # Path(r)
    BY DEF Encrypt, PathUnlocked, r
  <2>2. \A v \in Movers : mover[v].at = "encrypted" => Path(mover[v].row) \in Accounts \X Objects
    BY MovementTypes DEF MigrationInv, Waiting
  <2> QED
    <3>1. mover'[w].key # 0 /\ cipher'[Path(mover'[w].row)] = mover'[w].key
      BY <1>1, <1>5, <1>7 DEF r
    <3>2. ASSUME NEW v \in Movers \ {w}, mover'[v].at = "encrypted"
          PROVE  mover'[v].key # 0 /\ cipher'[Path(mover'[v].row)] = mover'[v].key
      BY <1>4, <1>7, <2>1, <2>2, <3>2 DEF MigrationInv, CiphertextIsHeld
    <3> QED
      BY <3>1, <3>2 DEF CiphertextIsHeld
<1>11. MediaStaysReadable'
  <2>1. ASSUME NEW x \in LegacyRows \ taken, legacy[x].state # "gone", legacy[x].encrypted
        PROVE  cipher'[Path(x)] = mediaKey[Holder(x)] /\ mediaKey[Holder(x)] # 0
    <3>1. /\ cipher[Path(x)] = mediaKey[Holder(x)] /\ mediaKey[Holder(x)] # 0
          /\ Path(x) \in Accounts \X Objects /\ Path(x)[1] = Holder(x)
      BY <2>1 DEF MigrationInv, MediaStaysReadable, Path, Accounts, Objects
    <3> QED
      BY <1>7, <3>1
  <2> QED
    BY <1>1, <2>1 DEF MigrationInv, MediaStaysReadable
<1>14. PurgedIsDue'
  BY <1>1 DEF MigrationInv, PurgedIsDue
<1>12. CiphertextHasItsKey'
  BY <1>1, <1>7 DEF MigrationInv, CiphertextHasItsKey
<1> QED
  BY <1>8, <1>9, <1>10, <1>11, <1>12, <1>13, <1>14 DEF MigrationInv

\* The row becomes encrypted with the ciphertext there and its key committed.
LEMMA CommitMigrationIsSafe ==
  ASSUME MigrationInv, NEW w \in Movers, CommitMigration(w)
  PROVE  MigrationInv'
<1> USE DEF purges
<1> DEFINE r == mover[w].row
<1>1. /\ w \in Holding /\ mover[w] # Waiting /\ mover[w].at = "encrypted"
      /\ legacy' = [legacy EXCEPT ![r].encrypted = TRUE]
      /\ mover' = [mover EXCEPT ![w].at = "moved"]
      /\ UNCHANGED << plain, cipher, drawn, disabled, purges >>
  BY DEF CommitMigration, Holding, Waiting
<1>2. /\ r \in LegacyRows /\ Holder(r) \in Accounts /\ mover[w] \in Movements
      /\ mover[w].key # 0 /\ cipher[Path(r)] = mover[w].key
      /\ mover[w].key = mediaKey[Holder(r)] /\ legacy[r].state = "active"
  BY <1>1, MovementTypes DEF MigrationInv, KeyIsCommitted, CiphertextIsHeld
<1>3. mediaKey' = mediaKey
  BY <1>2 DEF CommitMigration, MigrationInv, MigrationTypeOK
<1> HIDE DEF r
<1>4. mover'[w] = [mover[w] EXCEPT !.at = "moved"]
      /\ \A v \in Movers \ {w} : mover'[v] = mover[v]
  BY <1>1 DEF MigrationInv, MigrationTypeOK
<1>5. mover'[w] \in Movements /\ mover'[w].at = "moved" /\ mover'[w].row = r
  BY <1>2, <1>4 DEF Movements, r
<1>6. Holding' = Holding \ {w}
  BY <1>4, <1>5 DEF Holding
<1>7. /\ legacy' \in [LegacyRows -> [state : {"active", "trashed", "purging", "gone"}, encrypted : BOOLEAN]]
      /\ legacy'[r].encrypted /\ legacy'[r].state = "active"
      /\ \A x \in LegacyRows \ {r} : legacy'[x] = legacy[x]
  BY <1>1, <1>2 DEF MigrationInv, MigrationTypeOK
<1>8. MigrationTypeOK'
  <2>1. mover' \in [Movers -> Movements \cup {Waiting}]
    BY <1>1, <1>4, <1>5 DEF MigrationInv, MigrationTypeOK
  <2>2. \A x, v \in Holding' : Holder(mover'[x].row) = Holder(mover'[v].row) => x = v
    BY <1>4, <1>6 DEF MigrationInv, MigrationTypeOK, Holding
  <2>3. \A v \in Holding' : mover'[v].row \notin purge
    BY <1>4, <1>6 DEF MigrationInv, MigrationTypeOK, Holding
  <2> QED
    BY <1>1, <1>3, <1>7, <2>1, <2>2, <2>3 DEF MigrationInv, MigrationTypeOK
<1>9. \A v \in Holding \ {w} : mover[v].row # r /\ mover[v].row \in LegacyRows
  BY <1>1, MovementTypes DEF MigrationInv, MigrationTypeOK, Holding, r, Waiting
<1>10. KeyIsCommitted'
  <2>1. \A v \in Holding' :
          /\ legacy'[mover'[v].row] = legacy[mover[v].row]
          /\ mover'[v].key = mover[v].key /\ mover'[v].row = mover[v].row
          /\ mediaKey'[Holder(mover[v].row)] = mediaKey[Holder(mover[v].row)]
    BY <1>3, <1>4, <1>6, <1>7, <1>9 DEF Holding
  <2>2. Holding' \subseteq Holding
    BY <1>6
  <2> QED
    BY <2>1, <2>2 DEF MigrationInv, KeyIsCommitted
<1>11. CiphertextIsHeld'
  BY <1>1, <1>4, <1>5 DEF MigrationInv, CiphertextIsHeld
<1>12. MovedIsEncrypted'
  <2>1. \A v \in Movers : mover[v].at = "moved" => mover[v].row \in LegacyRows
    BY MovementTypes DEF MigrationInv, Waiting
  <2> QED
    <3>1. ASSUME NEW v \in Movers \ {w}, mover'[v].at = "moved"
          PROVE  legacy'[mover'[v].row].encrypted
      <4>1. mover'[v] = mover[v] /\ mover[v].row \in LegacyRows
        BY <1>4, <2>1, <3>1
      <4>2. legacy[mover[v].row].encrypted
        BY <3>1, <4>1 DEF MigrationInv, MovedIsEncrypted
      <4> QED
        BY <1>7, <4>1, <4>2
    <3> QED
      BY <1>5, <1>7, <3>1 DEF MovedIsEncrypted
<1>13. MediaStaysReadable'
  BY <1>1, <1>2, <1>3, <1>7 DEF MigrationInv, MediaStaysReadable
<1>15. PurgedIsDue'
  BY <1>1, <1>2, <1>7 DEF MigrationInv, MigrationTypeOK, PurgedIsDue
<1>14. CiphertextHasItsKey'
  BY <1>1, <1>3 DEF MigrationInv, CiphertextHasItsKey
<1> QED
  BY <1>8, <1>10, <1>11, <1>12, <1>13, <1>14, <1>15 DEF MigrationInv

\* A row that no worker holds is trashed, restored or deleted, or left to another
\* purge; no bytes change.
LEMMA RowMovesSafely ==
  ASSUME MigrationInv, NEW r \in LegacyRows, NEW s \in {"active", "trashed", "purging", "gone"},
         legacy' = [legacy EXCEPT ![r].state = s],
         legacy[r].state = "gone" => s = "gone",
         \A w \in Holding : mover[w].row # r,
         purge' \subseteq purge \ {r},
         UNCHANGED << plain, cipher, mediaKey, drawn, disabled, mover, taken >>
  PROVE  MigrationInv'
<1>1. /\ legacy' \in [LegacyRows ->
           [state : {"active", "trashed", "purging", "gone"}, encrypted : BOOLEAN]]
      /\ legacy'[r].encrypted = legacy[r].encrypted /\ legacy'[r].state = s
      /\ \A x \in LegacyRows \ {r} : legacy'[x] = legacy[x]
  BY DEF MigrationInv, MigrationTypeOK
<1>2. MigrationTypeOK'
  BY <1>1 DEF MigrationInv, MigrationTypeOK, Holding
<1>3. \A w \in Holding : mover[w].row \in LegacyRows \ {r}
  BY MovementTypes DEF MigrationInv, Holding, Waiting
<1>4. KeyIsCommitted' /\ CiphertextIsHeld'
  BY <1>1, <1>3 DEF MigrationInv, KeyIsCommitted, CiphertextIsHeld, Holding
<1>5. MovedIsEncrypted'
  <2>1. \A v \in Movers : mover[v].at = "moved" => mover[v].row \in LegacyRows
    BY MovementTypes DEF MigrationInv, Waiting
  <2> QED
    BY <1>1, <2>1 DEF MigrationInv, MovedIsEncrypted
<1>6. PurgedIsDue'
  BY <1>1 DEF MigrationInv, MigrationTypeOK, PurgedIsDue
<1>7. MediaStaysReadable' /\ CiphertextHasItsKey'
  BY <1>1 DEF MigrationInv, MediaStaysReadable, CiphertextHasItsKey
<1> QED
  BY <1>2, <1>4, <1>5, <1>6, <1>7 DEF MigrationInv

\* Every way a row moves but the migration itself.
LEMMA RowsAreSafe ==
  ASSUME MigrationInv, NEW r \in LegacyRows,
         TrashLegacy(r) \/ RestoreLegacy(r) \/ DeferPurge(r) \/ CommitPurge(r) \/ KillPurge(r)
  PROVE  MigrationInv'
<1> USE DEF purges
<1>1. /\ legacy[r].state \in {"active", "trashed", "purging", "gone"}
      /\ legacy = [legacy EXCEPT ![r].state = legacy[r].state]
      /\ r \in purge => /\ legacy[r].state \in {"trashed", "purging"}
                        /\ \A w \in Holding : mover[w].row # r
      /\ purge \subseteq LegacyRows
  BY DEF MigrationInv, MigrationTypeOK, PurgedIsDue
<1>2. CASE TrashLegacy(r) \/ RestoreLegacy(r)
  <2>1. /\ RowUnlocked(r) /\ UNCHANGED << plain, cipher, mediaKey, drawn, disabled, mover, purges >>
        /\ legacy[r].state # "gone"
        /\ \E s \in {"active", "trashed"} : legacy' = [legacy EXCEPT ![r].state = s]
    BY <1>2 DEF TrashLegacy, RestoreLegacy
  <2> QED
    BY <1>1, <2>1, RowMovesSafely DEF RowUnlocked
<1>3. CASE DeferPurge(r)
  BY <1>1, <1>3, RowMovesSafely DEF DeferPurge, Due, RowUnlocked
<1>4. CASE CommitPurge(r)
  BY <1>1, <1>4, RowMovesSafely DEF CommitPurge
<1>5. CASE KillPurge(r)
  <2>1. legacy' = [legacy EXCEPT ![r].state = legacy[r].state]
    BY <1>1, <1>5 DEF KillPurge
  <2> QED
    BY <1>1, <1>5, <2>1, RowMovesSafely DEF KillPurge
<1> QED
  BY <1>2, <1>3, <1>4, <1>5

\* A purge unlinks what its own row names alone, and never while a worker encrypts
\* it.
LEMMA UnlinkIsSafe ==
  ASSUME MigrationInv, NEW r \in LegacyRows, UnlinkOriginal(r)
  PROVE  MigrationInv'
<1>1. /\ Due(r) /\ purge' = purge \cup {r} /\ taken \subseteq taken' /\ taken' \subseteq taken \cup {r}
      /\ UNCHANGED << legacy, mediaKey, drawn, disabled, mover >>
  BY DEF UnlinkOriginal
<1>2. /\ \A x \in LegacyRows : Path(x) \in Accounts \X Objects
      /\ \A p \in Accounts \X Objects : p # Path(r) => cipher'[p] = cipher[p]
      /\ cipher'[Path(r)] \in {0, cipher[Path(r)]}
      /\ cipher' \in [Accounts \X Objects -> 0 .. MaxKeys]
      /\ plain' \subseteq plain
  <2>1. \A x \in LegacyRows : Path(x) \in Accounts \X Objects
    BY DEF Path, Accounts, Objects
  <2>2. \/ cipher' = cipher
        \/ cipher' = [cipher EXCEPT ![Path(r)] = 0]
    BY DEF UnlinkOriginal
  <2>3. plain' = plain \/ plain' = plain \ {Object(r)}
    BY DEF UnlinkOriginal
  <2>4. cipher \in [Accounts \X Objects -> 0 .. MaxKeys]
    BY DEF MigrationInv, MigrationTypeOK
  <2> QED
    BY <2>1, <2>2, <2>3, <2>4, MigrationAssumption
<1>3. \A w \in Movers : mover[w].at = "encrypted" =>
        /\ Path(mover[w].row) \in Accounts \X Objects
        /\ cipher'[Path(mover[w].row)] = cipher[Path(mover[w].row)]
  <2>1. ASSUME NEW w \in Movers, mover[w].at = "encrypted"
        PROVE  /\ Path(mover[w].row) \in Accounts \X Objects
               /\ cipher'[Path(mover[w].row)] = cipher[Path(mover[w].row)]
    <3>1. Path(mover[w].row) \in Accounts \X Objects
      BY <2>1, MovementTypes DEF MigrationInv, Waiting
    <3>2. CASE legacy[r].encrypted
      <4>1. Path(mover[w].row) # Path(r)
        BY <2>1, <3>2 DEF UnlinkOriginal, PathUnlocked
      <4> QED
        BY <1>2, <3>1, <4>1
    <3>3. CASE ~legacy[r].encrypted
      <4>1. cipher' = cipher
        BY <3>3 DEF UnlinkOriginal
      <4> QED
        BY <3>1, <4>1
    <3> QED
      BY <3>2, <3>3
  <2> QED
    BY <2>1
<1>4. \A w \in Holding : mover[w].row # r
  BY <1>1 DEF Due, RowUnlocked
<1>5. MigrationTypeOK'
  BY <1>1, <1>2, <1>4 DEF MigrationInv, MigrationTypeOK, Holding
<1>6. KeyIsCommitted' /\ MovedIsEncrypted' /\ PurgedIsDue'
  BY <1>1 DEF MigrationInv, KeyIsCommitted, MovedIsEncrypted, PurgedIsDue, Holding, Due
<1>7. CiphertextIsHeld'
  BY <1>1, <1>3 DEF MigrationInv, CiphertextIsHeld
<1>8. ASSUME NEW x \in LegacyRows \ taken', legacy[x].state # "gone"
      PROVE  IF legacy[x].encrypted
             THEN cipher'[Path(x)] = mediaKey[Holder(x)] /\ mediaKey[Holder(x)] # 0
             ELSE Object(x) \in plain'
  <2>1. x \notin taken
    BY <1>1, <1>8
  <2>2. CASE legacy[x].encrypted
    <3>1. cipher[Path(x)] = mediaKey[Holder(x)] /\ mediaKey[Holder(x)] # 0
      BY <1>8, <2>1, <2>2 DEF MigrationInv, MediaStaysReadable
    <3>2. cipher'[Path(x)] = cipher[Path(x)]
      <4>1. CASE Path(x) # Path(r)
        BY <1>2, <4>1
      <4>2. CASE Path(x) = Path(r) /\ x # r
        <5>1. CipherNamed(Path(r), r)
          BY <1>8, <2>2, <4>2 DEF CipherNamed
        <5> QED
          BY <5>1 DEF UnlinkOriginal
      <4>3. CASE x = r
        BY <1>8, <2>2, <4>3 DEF UnlinkOriginal
      <4> QED
        BY <4>1, <4>2, <4>3
    <3> QED
      BY <2>2, <3>1, <3>2
  <2>3. CASE ~legacy[x].encrypted
    <3>1. Object(x) \in plain
      BY <1>8, <2>1, <2>3 DEF MigrationInv, MediaStaysReadable
    <3>2. CASE Object(x) # Object(r)
      BY <2>3, <3>1, <3>2 DEF UnlinkOriginal
    <3>3. CASE Object(x) = Object(r) /\ x # r
      <4>1. PlainNamed(Object(r), r)
        BY <1>8, <2>3, <3>3 DEF PlainNamed
      <4> QED
        BY <2>3, <3>1, <4>1 DEF UnlinkOriginal
    <3>4. CASE x = r
      BY <1>8, <2>3, <3>1, <3>4 DEF UnlinkOriginal
    <3> QED
      BY <3>2, <3>3, <3>4
  <2> QED
    BY <2>2, <2>3
<1>9. MediaStaysReadable'
  BY <1>1, <1>8 DEF MediaStaysReadable
<1>10. CiphertextHasItsKey'
  BY <1>1, <1>2 DEF MigrationInv, CiphertextHasItsKey
<1> QED
  BY <1>5, <1>6, <1>7, <1>9, <1>10 DEF MigrationInv

\* Every step keeps the invariant; disabling an account changes no row.
LEMMA MigrationSteps ==
  MigrationInv /\ [MigrationNext]_migration => MigrationInv'
<1> SUFFICES ASSUME MigrationInv, [MigrationNext]_migration PROVE MigrationInv'
  OBVIOUS
<1>1. CASE \E u \in Accounts : DisableAccount(u)
  BY <1>1 DEF DisableAccount, MigrationInv, MigrationTypeOK, KeyIsCommitted, CiphertextIsHeld,
              MovedIsEncrypted, PurgedIsDue, MediaStaysReadable, CiphertextHasItsKey,
              Holding, purges
<1>2. CASE UNCHANGED migration
  BY <1>2 DEF migration, MigrationInv, MigrationTypeOK, KeyIsCommitted, CiphertextIsHeld,
              MovedIsEncrypted, PurgedIsDue, MediaStaysReadable, CiphertextHasItsKey,
              Holding, purges
<1> QED
  BY <1>1, <1>2, LockLegacyIsSafe, EndingsAreSafe, InitializeKeyIsSafe, EncryptIsSafe,
     CommitMigrationIsSafe, RowsAreSafe, UnlinkIsSafe
     DEF MigrationNext

\* Locks, keys and ciphertexts agree whatever the rows, their owners and contents,
\* the workers and the keys (migrate_legacy_media).
THEOREM MigrationInvariance == MigrationSpec => []MigrationInv
BY MigrationInitially, MigrationSteps, PTL DEF MigrationSpec

\* Every variable keeps its type, and an owner is held by one worker at a time.
THEOREM MigrationIsTyped == MigrationSpec => []MigrationTypeOK
BY MigrationInvariance, PTL DEF MigrationInv

\* Every row in the catalog names an object that exists and opens with its owner's
\* committed key, unless a purge of that row has itself unlinked it: a migration
\* that is killed anywhere, and a purge of another row that commits, is deferred or
\* is killed between its unlink and its commit, takes nothing from it
\* (tasks.py:1337-1342, lifecycle.py:273-418).
THEOREM MediaIsReadable == MigrationSpec => []MediaStaysReadable
BY MigrationInvariance, PTL DEF MigrationInv

\* No ciphertext is under a key that was never committed: what a dead worker left
\* is authenticated by the next one (tasks.py:1380).
THEOREM CiphertextOpens == MigrationSpec => []CiphertextHasItsKey
BY MigrationInvariance, PTL DEF MigrationInv

-----------------------------------------------------------------------------
(* The parts side by side (MCServices).                                    *)

\* A step of one part leaves the variables of the others as they are, so what runs
\* side by side runs as each part's own specification says.
THEOREM PartsRunOnTheirOwn ==
  Spec => /\ SyncSpec /\ StorageSpec /\ AccessSpec /\ NodesSpec
          /\ LocksSpec /\ MigrationSpec
<1>1. Init => /\ DesktopInit /\ StorageInit /\ AccessInit /\ NodesInit
              /\ LocksInit /\ MigrationInit
  BY DEF Init
<1>2. [Next]_<< part, syncVars, storage, access, nodes, runs, migration >> =>
        /\ [SyncNext]_syncVars /\ [StorageNext]_storage /\ [AccessNext]_access
        /\ [NodesNext]_nodes /\ [LocksNext]_runs /\ [MigrationNext]_migration
  BY DEF Next, LocksNext
<1> QED
  BY <1>1, <1>2, PTL
     DEF Spec, SyncSpec, StorageSpec, AccessSpec, NodesSpec, LocksSpec, MigrationSpec

\* Types, and every lock holds off the others: of rows, paths, users, owners and
\* the index of open verifications, with all parts side by side.
THEOREM ServicesTyped == Spec => []ServicesTypeOK
BY PartsRunOnTheirOwn, SyncTypes, StorageIsTyped, AccessIsTyped, NodesAreTyped, LocksTyped,
   MigrationIsTyped, PTL DEF ServicesTypeOK

=============================================================================
