# Drivebound in TLA+

TLA+ models of Drivebound (a self-hosted photo and file service: FastAPI and
PostgreSQL, Celery on Redis, a mobile app, a desktop sync client, host tools and
a web frontend), the TLC runs that check them, and TLAPS proofs.  Paths are
relative to `src/`; `backend/app/` is omitted where it is clear.

1. [The system](#1-the-system)
2. [Modules and plan](#2-modules-and-plan)
3. [Account deletion](#3-account-deletion)
4. [Asset lifecycle](#4-asset-lifecycle)
5. [Uploads](#5-uploads)
6. [Synchronization](#6-synchronization)
7. [Storage recovery](#7-storage-recovery)
8. [Sign-in](#8-sign-in)
9. [Nodes, locks and the migration](#9-nodes-locks-and-the-migration)
10. [Runs](#10-runs)
11. [Proofs](#11-proofs)
12. [Disagreements found](#12-disagreements-found)
13. [What is not modelled](#13-what-is-not-modelled)

Every definition that stands for code is listed in `PROJECT.json` under `map`
with its file and lines; `hazards` lists what is hard to test in this code, at
its line, with the properties that would catch it.

## 1. The system

| component | state | operations | talks to |
|---|---|---|---|
| account deletion (`services/account_deletion.py`, `api/v1/auth.py:delete_account`, `worker/tasks.py`, `main.py`) | suppression ledger on disk, `account_deletion_jobs` row with lease, status and next attempt, the `users` row | request, publish, dispatch, claim, batch, final sweep, ledger replay | every writer (through the User row lock), broker, archives |
| asset lifecycle (`services/lifecycle.py`, `api/v1/assets.py`) | `assets` rows with lifecycle state and deadline, content-addressed originals and derivatives | trash, restore, rollback, purge | ingestion, sync, processing, deletion (shared paths and rows) |
| ingestion and resumable uploads (`services/ingestion.py`, `storage.py`, `encryption.py`, `api/v1/uploads.py`) | `upload_sessions`, staging files, wrapped media key, originals | create, append, status, finalize, initialize key, persist | lifecycle, deletion, mobile client |
| mobile backup queue (`mobile/src/queue.ts`, `backup.ts`, `background.ts`) | SQLite transfers, run leases | enqueue, acquire a run, upload one, complete, retry | upload API |
| web upload panel (`frontend/app/resumable-transfer.ts`, `photo-library.tsx`) | transfers of the open page | create, send, recover progress, retry | upload API |
| sync journal (`services/sync.py`, `api/v1/sync.py`) | root cursor, items, operations, conflicts | push, pull, resolve | desktop client, lifecycle |
| desktop sync client (`tools/drivebound_sync.py`) | JSON state: cursor, client sequence, baseline | scan, push, pull, save | sync journal |
| storage monitoring, recovery, replication (`worker/tasks.py`, `services/replication.py`) | asset integrity status, recovery events, replicas | monitor, protect, restore, retry, rebalance | lifecycle (paths), notifications |
| operational backups (`services/operational_backups.py`) | archives, Redis lock | run, hand over, prune, verify | database, ledger |
| sign-in (`api/v1/auth.py`, `core/security.py`, `services/passkeys.py`) | sessions, refresh hashes, TOTP step, recovery codes, challenges, KDF slots | register, sign in, refresh, revoke, second factor, password reset | everything that authenticates |
| paired nodes (`api/v1/nodes.py`) | pairing codes, last accepted timestamp | claim, heartbeat, rotate | host tools |
| account verification (`api/v1/monitoring.py`) | verification lock and run | queue, finish, release stale | worker |
| migration of legacy media (`worker/tasks.py:1335-1484`) | plaintext and ciphertext objects, media keys | draw a key, encrypt, commit, collect the plaintext | lifecycle (paths), deletion (User row) |

The behaviour that is hard everywhere is the same: PostgreSQL transactions, files
and messages are three stores without a common commit.  The code orders them by
hand (marker before commit, unlink before row deletion, commit before publish)
and repairs what a crash leaves by periodic tasks.  On top of that come:

- row locks that do not refresh what a session has already loaded (`SELECT ...
  FOR UPDATE` without `populate_existing`; `expire_on_commit=False`,
  `db/session.py:6`), so a check under the lock may be a check of an old copy;
- leases that expire while their holder is alive, at-least-once delivery
  (`acks_late`), messages that get lost, publish callbacks that come late;
- content-addressed paths that several rows share;
- restored archives: the database goes back in time, the disk does not.

What makes each component correct:

- *deletion*: promise durable before anything irreversible; completion means
  nothing is left; nothing comes back; no process overwrites a job that another has
  settled or runs; every accepted deletion settles.
- *lifecycle*: what can be shown or restored has its bytes; bytes go with the last
  reference and only then; the trash is emptied.
- *ingestion*: one media key per account; a completed session has an asset; an
  accepted original has the bytes of its checksum; an offset never runs ahead of
  the staging file.
- *mobile*: a local version reported as backed up is on the server; one uploader
  per transfer.
- *sync*: no operation is skipped by a cursor or applied twice; concurrent edits
  become conflicts and lose no content; client and server converge.
- *recovery*: a status is never older than the repair it overwrites; a catalogued
  replica has bytes; a damaged original with a good replica is restored.
- *backup and verification locks*: one run at a time; a lock is not kept for ever.
- *sign-in*: one use per code, token and challenge; a revoked session stays revoked.
- *nodes*: accepted timestamps only grow; a pairing code is used once.
- *migration*: every row opens with its owner's committed key, or its plaintext is there.

## 2. Modules and plan

| | modules | abstract specification | runs | theorems |
|---|---|---|---|---|
| A | `AccountDeletion`, `DeletionContract`, `AccountDeletionProofs` | `DeletionContract` | safety, liveness, one disagreement | invariant, all safety and action properties, refinement |
| B | `AssetLifecycle`, `AssetLifecycleProofs` | | in `media_safety` and `media_live`, one disagreement | invariant, all safety and action properties |
| C | `ResumableUpload` (server), `WebUpload` and `MobileBackup` (clients), composed in `Uploads`; `UploadsProofs` | | in `media_safety` and `media_live`, two disagreements | invariant, all safety and action properties |
| D | `SyncJournal` (server), `DesktopSync` (its clients), `DesktopSyncProofs` | | in `services_safety`, one disagreement | invariant, all safety and action properties |
| E | `StorageRecovery`, `StorageRecoveryProofs` | | in `services_safety`, liveness | invariant, `OnlyFaultsDestroy` |
| F | `RunLocks`, `ServicesProofs` | | in `services_safety` | invariant, `NoTwoBackups`, `OnlyItsWorkerReleases` |
| G | `AccountAccess`, `AccountAccessProofs` | | in `services_safety`, one disagreement | invariant, `SessionsFollowPassword`, `SignInRemains`, `ProofsWorkOnce` |
| H | `PairedNodes`, `PairedNodesProofs` | | in `services_safety` | invariant, `NextIsNew`, `RevokedStaysOut` |
| I | `LegacyMigration`, `ServicesProofs` | | in `services_safety` | invariant, `MediaStaysReadable`, `CiphertextHasItsKey` |
| D to I | side by side in `MCServices`; `ServicesProofs` | the specification of each part | `services_safety` | implements each part, types |

The plan is carried out.  What is not proved, and why, is at the end of section 11.

## 3. Account deletion

`AccountDeletion.tla` models one account.

| variable | code |
|---|---|
| `ledger` | the markers `write_suppression_marker` leaves for this subject, by the job id each names |
| `user`, `key` | the `users` row: `disabled_at`, and `media_key_encrypted` |
| `job` | the `account_deletion_jobs` row; its three timestamps are kept as the outcome of the comparison the code makes (`live` lease, `due` attempt, quiescence over: `calm`) |
| `rows`, `files` | catalog rows and bytes, of `Uploads` and of `Assets`; `Legacy` assets have a path that is not canonical |
| `userLock` | the row lock on the User row, held across file writes |
| `req`, `seen`, `accepted` | each DELETE request, the copies its session holds, whether it was told 202 |
| `writer` | one writer per item: `create_upload`, `persist_managed_asset`, `process_asset` |
| `beat`, `broker`, `worker`, `left` | the dispatcher, messages, cleanup workers and the iterations left in their batch |
| `dump` | the latest `pg_dump` |

The request runs `Authenticate`, `LockAccount`, `WriteMarker`, `Commit`,
`RequestPublish`, `RequestRecord`; `Refuse`, `MarkerFails`, `CommitFails`,
`ReconcileAfterFailure` and `RequestCrash` are its error paths.  The dispatcher
is `BeatReconcile` (ledger replay and the query for due jobs), `BeatPublish`,
`BeatRecord`.  A worker claims in `Deliver`, then takes `PurgeItem` once per
iteration until `EnterFinal`, and under both locks `Recount` or `Finalize`;
`RetainLegacy`, `StepFails`, `Stale`, `BatchEnds` are its other ways out.

Modelling decisions:

- *Granularity.*  A step of the request that does I/O outside the database is an
  action.  A worker holds the row lock on the job from the fence to the commit of
  an iteration, so an iteration is one action; a crash or an error inside it
  (`WorkerCrash`, `StepFails`) keeps any of its unlinks and drops its rows.
  `JobFree` is the lock a request holds on the job while it holds the User lock.
- *Stale copies.*  `seen` is the request's copy of the key and of the job.  The
  password and the confirmation change none of it; a second factor reads the user
  again (`verify_second_factor`), which is the choice in `LockAccount`.  A worker
  whose batch has been rolled back by a recount holds a fresh copy of the job
  (`again`); in `batch` it holds the copy of its claim.
- *Clocks.*  `QuiescenceEnds`, `AttemptBecomesDue` and `LeaseExpires` are free: the
  default quiescence is 0 seconds (`core/config.py:50`), a lease may run out between any
  two commits of its holder, and a publish callback may come at any time.
- *Who overwrites.*  Two places decide on a copy that is older than the lock they hold: the
  publication record of a request (`RequestRecord`) and the end of a batch (`BatchEnds`).  That
  the first overwrites what a worker has made of the job is shown by `ReviewStays` (section 12);
  `OnlyStaleCopiesOverwrite` says that nothing but the two does: not the dispatcher, which records
  in a session of its own and so reads the row, not a late or repeated delivery, not a worker
  whose lease ran out.
- *Faults.*  One budget (`MaxFaults`) for crashes, failed calls, lost messages,
  outrun leases and restored archives.
- *The retention purge* runs beside the cleanup (`RetentionPurge`), because
  `prepare_account_deletion` makes every asset due at once.
- *Simplifications.*  The ledger replay (`Reconcile`) is one step.  A stale trash
  request can give a tombstoned asset a new deadline and so delay the deletion job
  for the retention time; here that is one of the failures of a step, `AssetLifecycle`
  has the trash itself.  The branch "already in progress" (`auth.py:1218`) needs an
  enabled copy that is disabled, and is never taken.

`DeletionContract.tla` is what the rest of the system relies on: `promised`,
`open`, `bytes`, `reported`.  `AccountDeletion` implements it with
`promised <- ledger # {}`, `open <- user = "enabled"`, `bytes <- files`,
`reported <- job.status = "completed"` (property `ContractIsKept`).

`PromiseIsKept` speaks of the account and not of its job: a late publish callback can set
a completed job back to `queued`, which then is published and found stale for ever, since
its subject is gone.  What was promised is done all the same.

## 4. Asset lifecycle

`AssetLifecycle.tla` models the catalog of one account: `row` (state, logical
item, content, thumbnail, deadline passed), the bytes at the original and
thumbnail path of each content, and the transactions that are under way
(`uploading`, `publishing`, `trasher`, `purger`).

| action | code |
|---|---|
| `TrashRead`, `Trash` | the endpoint's unlocked read, then `trash_asset` |
| `Restore`, `Rollback` | `restore_asset_from_trash`, `rollback_asset` |
| `SyncDelete`, `SyncAttach`, `SyncClone` | `_apply_item_operation`: delete, promote a standalone upload, clone an asset that has a history |
| `UploadPublish`, `UploadCommit`, `UploadCrash` | `persist_managed_asset` |
| `ProcessPublish`, `ProcessCommit`, `ProcessCrash` | `process_asset` with a thumbnail |
| `PurgeLock`, `PurgeOriginal`, `PurgeThumbnail`, `PurgeCommit`, `PurgeFails`, `PurgeKilled` | `purge_due_assets`, `safely_purge_asset`, `safely_unlink_catalog_path` |
| `RetentionEnds`, `Lockout` | a deadline passes; `prepare_account_deletion` |

An upload holds the User row exclusively; restore, rollback, sync and processing
share it; trash and purge do not take it.  `OriginalLocked` and `ThumbnailLocked`
are the advisory locks of the paths.  A transaction that touches no file is one
step, guarded by the row locks it would wait for; one that PostgreSQL aborts (a
deadlock, the unique index on the active revision) changes nothing.  `RetentionEnds`
waits for the trash requests of the asset, since retention is a day or more.
`UploadPublish` needs an unused id: the bound of the model on rows.

## 5. Uploads

`ResumableUpload.tla` is the server, for one account with encrypted media, which
production requires (`main.py:88`).  `WebUpload.tla` and `MobileBackup.tla` extend it
with the clients, and `Uploads.tla` composes them: a client sends with the server's
operators (`Create`, `Patch`) and finds the answer in `reply`.

| variable | code |
|---|---|
| `session` | `upload_sessions` rows: status, offset, whether the staging file is there, whether the time is over |
| `key`, `original`, `assets` | the wrapped media key; under which key each published original is encrypted; contents with an active asset |
| `handler` | PATCH requests in finalization: the copy of the key in the User each has loaded |
| `web` | transfers of the upload panel: where `runUpload` and `finishTransfer` are, and the progress they know |
| `queue`, `runLock` | the phone's tables `transfers` and `backup_run_locks` |
| `run` | runs of `runBackup` and their copies of the claimed row |

| action | code |
|---|---|
| `Create`, `Append` | `create_upload`; `append_upload` to the commit of the offset |
| `InitializeKey`, `AnswerDuplicate`, `Publish`, `CannotPublish`, `CommitAsset` | `persist_managed_asset`, `commit_encrypted_original` |
| `Complete` | `append_upload` after finalization |
| `Deadlock` | two empty PATCHes that share the User row and each want it alone |
| `WebCreate`, `WebSend`, `WebAnswer`, `WebAsk`, `WebRetry` | `runUpload`, `finishTransfer` |
| `Acquire`, `Scan`, `Claim`, `Release` | `acquireBackupRun`, `scanLibrary`, `claimNextTransfer`, `releaseBackupRun` |
| `Open`, `CreateSession`, `Send`, `Hear`, `MarkComplete`, `Blocked` | `resumeOrCreate`, `uploadTransfer` and the catch block of `runBackup` |
| `RetryFailed`, `CancelPending` | the buttons of the app |

Modelling decisions:

- *Granularity.*  A PATCH holds the session row and shares the User row from its first
  check to the commit of the offset: one step.  Finalization starts without locks,
  except after an empty PATCH, which commits nothing ("held").  From the exclusive lock
  to the commit of the asset it is two steps, since the link is durable before the row.
- *A handler names the key it draws*: what matters is whether two keys are the same.
- *The owner clause.*  `UpdateTransfer` is `updateTransfer` with an owner: it does nothing
  for a run that has lost the row.  A run keeps its own copy of the session and of the
  attempts.
- *Leases.*  They are renewed every 30 seconds and last 5 minutes; they end under a
  living run only while the phone suspends it (`Suspend`), and for a killed one by
  themselves (`LeaseEnds`).  A run that comes back and finds its lease ended but not taken
  renews it, as the code does.
- *Faults.*  One budget: lost requests and answers, failed or killed handlers, also
  between the link and the removal of the staging file, failed HEAD and POST requests,
  policy blocks, suspended and killed runs.  `Expire` is free.
- *Sessions of the phone* come from a pool; an id is used again once nothing refers to it.
- *Left out*: a checksum given at creation (neither client gives one), plaintext mode,
  the purge and the deletion of the account (sections 3 and 4), a photo edited under its
  queue record.

## 6. Synchronization

`SyncJournal.tla` is the server for one sync root, `DesktopSync.tla` extends it with
the computers that have joined the root.

| variable | code |
|---|---|
| `root` | the committed rows: cursor of the root, operations, items, asset revisions |
| `folder` | the files of each computer; a file is its content |
| `disk`, `mem` | the state file (cursor, client sequence, entries) and what a run has loaded of it |
| `stage` | how far the run of a computer is |

| action or operator | code |
|---|---|
| `Push`, `ApplyOne`, `Accepted`, `Applied`, `Attach` | `push_operations`, `apply_operations`, `_apply_item_operation` |
| `KeepLocal`, `KeepRemote` (`Decide`) | `resolve_conflict` |
| `Since` | `pull_operations` |
| `Pull`, `PullFails`, `DieInPull` | `pull_remote`, `download` |
| `PushChanges`, `Scans`, `Proposal`, `Acknowledged` | `local_changes`, `make_operation`, `apply_push_result` |
| `Save`, `Die` | `save_state`; a run that is killed or loses the answer to its push |
| `Edit`, `Trash` | the people, at the computer and in the web library |

A push locks the user and the root for its whole batch and is one step.  A run of the client
is three steps, between which other computers run: load and pull; scan, upload and push; save.
A pull can also stop after any of its operations, with the files before it replaced.  A scan
takes the paths in any order and, where the code has a dictionary over several entries of one
path, any of them.  An upload yields the asset at once (section 5 has the rest of it).  A
revision (`r<cursor>-<operation id>`) is its cursor.

What the properties say:

- `JournalGivesItems`: an item shows what the operation with the highest cursor applied to it has
  left, so a client that replays the journal ends with the items of the root;
- `HistoryIsSound`: no history has two active revisions, and an item shows one of its own;
- `EntriesFollowJournal`: what a state file or a run holds of an item is what the applied
  operation of that revision says, although cursors skip operations and pushes get lost;
- `RemovalIsSafe`: a run removes a file only where an item was synchronized that another computer
  has deleted since, and the server has the removed bytes in the history of that item, unless the
  same answer has first put another file at that path.

The exception of `RemovalIsSafe` is needed.  An item at path *p* has the content *y* for its last
one, and another computer has moved an item with that content to *p* and deleted the first, which
the server keeps as a conflict until a person decides for the deletion.  If the file at *p* has
been edited meanwhile, the pull of the move overwrites it with *y* (`pull_remote` tests the file of
the moved item's own path only), and the deletion then finds at *p* the content it expects and
removes it.  The edit is lost to the move, which is what `NothingIsOverwritten` is about (section
12).  It takes more edits and operations than `services_safety` has, and was found while
`RemovalsAreSafe` was being proved.

## 7. Storage recovery

`StorageRecovery.tla` models one managed asset, its copies on several drives and the tasks
that keep them.

| variable | code |
|---|---|
| `original`, `copy` | the files, as their hash tells: good, bad or gone |
| `row`, `asset`, `event`, `critical` | `asset_replicas`, the restore and protection status, the open recovery events |
| `queue`, `worker` | messages in the broker, the task each worker runs |

| action | code |
|---|---|
| `StartRestore`, `TryCandidate`, `CommitRestore`, `NoUsableReplica`, `RestoreIsStale`, `RestoreFails` | `restore_asset`, `_copy_verified_replica` |
| `StartProtect`, `CannotProtect`, `CopyTo`, `CommitProtect`, `ProtectFails` | `protect_asset`, `ensure_asset_replicas`, `_copy_verified` |
| `StartMove`, `MoveCopy`, `ReleaseOld`, `CommitMove` | `rebalance_replicas` |
| `StartScheduled`, `StartVerifyOnly`, `HashOriginal`, `HashCopies`, `QueueRestore`, `QueueProtect`, `CommitMonitor`, `MonitorIsStale` | `monitor_storage`, `queue_automatic_restore` |
| `AskRestore`, `AskProtect` | the owner's requests |
| `EventAges`, `Damage`, `KillTask`, `LoseTask`, `Deadlock` | time and faults |

- *Granularity.*  Each file operation and each commit is a step, because the monitor holds
  no lock and balancing only path locks: they see, and overwrite, what lies between the
  steps of the others.
- *What a commit writes.*  The object relational mapper writes a column only if it differs from
  the value that was read (`Put`, `Marked`), so a stale pass overwrites only what it changes;
  an update of a row that has been deleted rolls the whole transaction back (`Stale`).
- *Waiting.*  A commit of the monitor that writes the asset waits for its row lock.
- *First states.*  Protected, partly protected and waiting for protection, or with a damaged
  original whose restoration has just been queued, on any of the drives; with no task at work, or
  with a move that one worker has begun.

## 8. Sign-in

`AccountAccess.tla` models one account: `user` (password, address, Google identity, TOTP
secret and last step, pending secret), recovery `codes`, `passkeys`, `session`, and `link`,
which holds `account_tokens` and `webauthn_challenges` alike.

A request of a signed-in user reads session and user without a lock (`Admit`), waits for the User
row (`Lock`), and commits in the action of its handler; `Refuse` is every check that may
fail.  `copy` is what its session holds: `SELECT ... FOR UPDATE` does not refresh it,
except where the handler asks for it (`LockedCopy`) or the second factor does
(`SecondFactor`); and a column is only written if it differs from the copy (`Written`).

| action | code |
|---|---|
| `Login`, `PasskeyLogin`, `GoogleLogin`, `MfaLogin` | the four ways in |
| `Reauthenticate`, `PasskeyReauth`, `GoogleReauthStart`, `GoogleReauth`, `MfaReauth` | verifying again |
| `ChangePassword`, `ResetPassword`, `VerifyEmail`, `SendLink` | password and address |
| `SetupMfa`, `ConfirmMfa`, `DisableMfa` | the second factor |
| `PasskeyOptions`, `AddPasskey`, `DeletePasskey` | passkeys |
| `RevokeSession`, `Refresh`, `Logout` | sessions |

That a password or an assertion is the right one is a choice; `granted` remembers the proofs
the last step accepted.  A TOTP step is a number; which of three neighbouring steps a code
matches is any step.  Steps are counted from the one that confirmed the factor, so an account
with a factor has a last step (`confirm_mfa` records it, `auth.py:1114`).

Two handlers show what a copy does.  `setup_mfa` assigns the session of the pending secret on
the copy it loaded before the lock.  If the copy names that session already, the column is not
written: after a confirmation in between, the row would have a pending secret and no session,
which `ck_users_pending_totp_complete` (`models/user.py:18-24`) refuses, so nothing changes (the
first disjunct of `SetupMfa`); after the setup of another session in between, the new secret is
bound to that other session.  And the callback of a Google reauthentication loads the row of its
state before the lock and tests that copy under it (`Redeemable`), so two callbacks that overlap
are both accepted.  `ProofsWorkOnce` says of every proof but those states that it is unused when it
is accepted, and of all of them that they are used up by the same step and stay used up;
`StatesWorkOnce` says the first of those states as well, and is violated (section 12).

`totp_last_used_step` came with migration `0009`: a factor that was enabled before it and has
not been used since has none.  Such accounts are not among the first states, because
`ProofsWorkOnce` does not hold for them: a `disable_mfa` whose copy has no last step does not
write that column, two of them with stale copies mix the columns of an old and a new factor, and
a code that has been used works again (six requests, 19 steps).

## 9. Nodes, locks and the migration

`PairedNodes.tla` has the node program of one host and the server.  The program sends one
request at a time, may be killed anywhere and given up by a timeout, and its host's clock is
any number; what it has sent may still arrive (`wire`).  `Call` reserves the timestamp on
disk before it sends.  `Attest` takes the lock of the node's row, `Heartbeat` and
`RotateSecret` commit; `RevokeNode` waits for that lock.

`RunLocks.tla` has the backup lock, a Redis key with a lifetime that a request hands over to
a worker by a token (`AskBackup`, `PublishBackup`, `StartBackup`, `FinishBackup`), and the
lock of a verification, an open row (`AskVerification`, `PublishVerification`, `RecordJob`,
`StartVerification`, `FinishVerification`, `KillVerification`).  Messages are lost, and delivered
again while their first delivery still runs (`StartBackup` and `StartVerification` may leave the
message in the broker); keys expire, requests and workers die in between.

`LegacyMigration.tla` has the task that moves plaintext originals under their owners' keys:
lock owner and row, commit a key if there is none (`InitializeKey`), encrypt under the path's
lock, commit, and unlink the plaintext when nobody else needs it (`CollectPlain`); beside it
trash, restore and purge of the same rows and the lockout of an account.  Rows of one content
share one plaintext object whoever owns them, and one ciphertext object per owner.

A purge unlinks the original under the locks of row and path (`UnlinkOriginal`) and commits later
(`CommitPurge`); a failed unlink, before or after that of the original, commits the row as
`purging` (`DeferPurge`), and a killed worker leaves it as it was, without its original
(`KillPurge`).  `taken` remembers the rows whose own purge has unlinked their original:
`MediaStaysReadable` is about all others, since what the row of a killed purge is left with
is shown by `TombstoneIsDurable` (section 4), and not undone by any migration.

## 10. Runs

| run | constants | checks | distinct states |
|---|---|---|---|
| `deletion_safety` | 2 requests, 1 worker, an asset and a legacy asset, batch of 1, 1 fault, 1 archive | `TypeOK`, `PromiseComesFirst`, `CompletedIsErased`, `ReviewKeepsEvidence`, `NothingComesBack`, `ContractIsKept` | 1.3 million |
| `deletion_live` | 1 request, 2 workers, an upload and a legacy asset, 2 faults, 1 archive | `PromiseIsKept`, `OnlyStaleCopiesOverwrite` | 431 thousand |
| `deletion_late_publish` | 1 request, 1 worker, a legacy asset, no fault | `ReviewStays` is violated | |
| `media_safety`, uploads | 1 web transfer, 1 photo, 2 runs, 2 handlers, 2 chunks, 2 attempts, 2 stalls, 1 fault | `TypeOK`, `BytesAreKept`, `CompleteIsStored`, `WebIsSaved`, `CompleteIsReceived`, `CompleteStays` | 1.65 million, with the next |
| `media_safety`, lifecycle | 3 rows, 2 items, 2 contents, 1 trash request, 2 purges, 2 faults | `LifecycleTypeOK`, `CatalogHasBytes`, `NothingLeaks`, `LastReferenceGoes` | |
| `media_live`, uploads | 1 web transfer, 1 photo, 1 run, 2 handlers, 1 chunk, 1 fault | `TransfersSettle` | 203 thousand, with the next |
| `media_live`, lifecycle | 2 rows, 2 items, 1 content, 1 trash request, 2 purges, 1 fault, 1 kill | `TrashIsEmptied` | |
| `lifecycle_killed_purge` | 1 row, 1 purge, 1 kill | `TombstoneIsDurable` is violated | |
| `uploads_two_keys` | 2 web transfers, no fault | `AssetsAreReadable` is violated | |
| `uploads_false_proof` | 1 photo, 2 runs, 1 fault | `CompleteIsProof` is violated | |
| `services_safety` | see below | `ServicesTypeOK` and, by part, the properties below | 1.68 million |
| `storage_live` | 2 drives, 2 copies wanted, 2 workers, 1 event, a move may have begun | `Heals`, `AlarmIsRight` | 392 thousand |
| `access_state_twice` | 2 requests at a time, 1 session, 2 links | `StatesWorkOnce` is violated | |
| `sync_overwrites` | 2 computers, 1 path, 2 contents, 4 operations, 3 edits | `NothingIsOverwritten` is violated | |

`MCServices.tla` checks in one run the modules of sections 6 to 9, and `MCMedia.tla` those of
sections 4 and 5, which share no state: the variable `part` says whose steps a behaviour takes,
and the others stay in an initial state.  For the same reason the names of `AssetLifecycle` are
not those of `Uploads` (`Checksums`, `Null`, `failures`, `LifecycleSpec`).

| part | constants | checks |
|---|---|---|
| sync | 2 computers, 2 contents, 2 paths, 2 items, 3 operations, pulls of 2, 3 edits, 1 death | `JournalGivesItems`, `HistoryIsSound`, `EntriesFollowJournal`, `RemovalIsSafe` |
| storage | 2 drives, 2 copies wanted, 2 workers, 1 event, a move may have begun | `OnlyFaultsDestroy` |
| access | 2 requests at a time, 3 in all, 2 sessions, 2 links, 2 passkeys, 1 recovery code, 1 new password, 2 secrets, 2 TOTP steps | `SessionsFollowPassword`, `SignInRemains`, `ProofsWorkOnce` |
| nodes | 2 identities, 2 codes, clock 0 to 2, 4 requests, 2 secrets | `NextIsNew`, `RevokedStaysOut` |
| backups, verifications | 2 requests, 2 workers, 2 verifications | `NoTwoBackups`, `OnlyItsWorkerReleases` |
| migration | 3 rows of one content, two of them of one owner, 2 runs, 2 keys | `MediaStaysReadable`, `CiphertextHasItsKey` |

Why the bounds are enough:

- Two requests are needed for two markers of one subject, for a second request that
  finds the job of the first, and for a callback about another's job.  One fault
  of any kind at any step includes the restoration of an archive from any earlier
  moment; the second worker and the second fault (a lease that is outrun, then a
  crash of its successor, or an archive that is restored) are in the liveness run, where an
  archive is taken only of an account without the upload (`LiveNext`).  A batch of one
  iteration makes every worker run out of iterations.  The items are one that can be erased
  and one that must be kept; writers race on an asset in one run and on an upload in the other.
- Three rows allow a history of two revisions and a clone of either that shares its
  bytes; two contents, that the revisions differ; two purges, that both rows of one
  content go at once; two faults, a failed unlink after a crash that left bytes.
- `media_safety` has no killed purge worker: that `CatalogHasBytes` fails after one is
  the finding of `lifecycle_killed_purge`.  The kill is in the liveness run.
- The page and the phone upload the same content, so that each can find the other's
  original, asset or key.  Two runs and one suspension give a run that goes on beside its
  successor, on the same session or, after an expiry, on another; two handlers, the
  races for the key and the row.  Two chunks give an offset in the middle; two attempts and
  two stalls (8 and 3 in the code) give one that is not the last.
- Two computers and three operations give an item that both change from one base, the conflict
  and its resolution; pulls of two, a cursor that skips an operation; one death, a batch that
  is pushed again under a used sequence number.  Two paths and two contents give renames, equal
  uploads of two items and the clone they need.  The journal's part was also checked once with
  4 operations, 4 edits and 1 death (6.2 million states), which is too long for the set of runs.
- In `StorageRecovery` an event is a move, a request of the owner, a damaged file, a task that
  fails or is killed or a lost message; the 15 minutes of an event pass freely.  Two workers give
  the pairs of overlapping tasks, and two drives a move and a protection that wait for each other.
  The first states are one step ahead of the budget of one event: an original the monitor has
  found damaged, so that it is damaged again or its restoration fails; or a move that has begun,
  so that it is killed, fails or meets a second move, a restore, a fault or a request
  before, during or after it.  In `storage_live` a move that has begun meets a sound
  original; in `services_safety`, any.  Two copies wanted is what makes one kept copy too few.
  The safety was also checked once with two events (4.1 million states).
- Two overlapping requests give every race of two handlers; the third one makes what they
  left stale.  Two links give the challenge that a new one closes.  Two secrets give a
  factor that is set up again while a proof of the old one is under way; two steps, one that
  confirms a factor and one to sign in with.
- Four node requests give a claim, a rotation whose answer is lost, and two heartbeats with the
  clock set back in between.  Three rows give a pair that shares a ciphertext and, with the row
  of the other account, three that share the plaintext.

Symmetry is used in the three safety runs, over ids the modules only compare for equality; the
parts share such ids.  `deletion_safety` also has a view that forgets the archive once no fault is
left to restore it: no step but a new archive depends on it then, and what
`PromiseComesFirst` says of an archive can only become false when it is taken.
`storage_live` numbers the drives and the workers, so that one drive that holds a copy at first is
drive 1 and a move that has begun is the first worker's.
`CHECK_DEADLOCK FALSE` is set for the runs of the lifecycle, where an account that is locked out
and purged has really ended, and for `services_safety`, `sync_overwrites` and
`access_state_twice`, where a part ends when its bounded inputs have been used up.

Fairness.  In `media_live` the part that runs has the fairness of its own module.  Code that runs
goes on running (weak fairness of the steps of a request, a worker, a writer), the beat schedule
fires, the broker delivers what it holds, and clocks advance.  Fairness is strong only for a step
that waits for a lock others take and release again and again (`BeatReconcile` for the User row,
the purge for a path), because PostgreSQL queues waiters; and for the purge of a row that is due,
because every pass takes the rows it does not find locked.  No fault, no new request and no
restored archive is fair.  `PromiseIsKept` says `(ledger # {}) ~> []Over`: a finite number of
faults is part of the bound, and the property fails if any of the repair mechanisms is taken away.
In `Uploads` the app is opened, or the background task runs, again and again; steps that wait for
a row lock are strongly fair, because a page whose user retries for ever takes the User row again
and again; expiry and the user are not fair.  In `StorageRecovery` a task that has begun goes on,
the schedule starts the monitor on every worker that is idle, and a message is taken with strong
fairness, because monitor and tasks make a worker or the asset busy again and again; the 15
minutes of an event pass.  Neither faults nor requests of the owner are fair.

## 11. Proofs

### Account deletion

`AccountDeletionProofs.tla` proves, for every set of requests, workers, uploads and
assets, every batch size and any number of faults and archives:

| theorem | states |
|---|---|
| `Invariance` | `Spec => []IInv` |
| `TypeCorrect` | `[]TypeOK` |
| `PromiseAlwaysFirst` | `[]PromiseComesFirst` |
| `CompletionErases` | `[]CompletedIsErased` |
| `ReviewHasEvidence` | `[]ReviewKeepsEvidence` |
| `NothingEverComesBack` | `NothingComesBack` |
| `OthersKeepTheirHandsOff` | `OnlyStaleCopiesOverwrite` |
| `DeletionImplementsContract` | `ContractIsKept` |

The assumption is `DeletionAssumption`: disjoint sets of ids, a batch size of one or more.

None of the safety properties is inductive alone.  `IInv` is the conjunction of

- `Typing`: the types, and that a job without an id has no other field;
- `Existing`: nobody works on a job that does not exist;
- `Locking`: who is past the User lock holds it, and a writer there has seen an
  enabled user.  This is why `Finalize` meets no writer half way;
- `Marking`: how far a request can be without its marker on disk;
- `Recording`: what holds of committed rows, stated once as `Recorded(u, k, j,
  catalog)` for the database and for the archive, since restoring an archive must
  re-establish it; and that an archive is never ahead of the database.

Each part has a lemma that all actions preserve it (`TypingStep` to `RecordingStep`),
with a step per action; `SettledStep` and `LeaseStep` go through the actions for
`OnlyStaleCopiesOverwrite`, where the dispatcher and the fence of a worker test the row
itself; `EveryStepIsAContractStep` maps every action to a step of
the contract or a stutter.

### Backup and verification locks

`ServicesProofs.tla` proves, for every set of requests, workers and verifications:

| theorem | states |
|---|---|
| `LocksInvariance` | `LocksSpec => []LocksInv` |
| `LocksTyped` | `[]LocksTypeOK`, with at most one open verification |
| `BackupsExclude` | `[]NoTwoBackups` |
| `WorkerReleases` | `OnlyItsWorkerReleases` |

The assumption is `LocksAssumption`: the message of the scheduler is no request's, and
no token is the unset key.  `LocksInv` adds two parts to the types.  `Holds` says
that the key of a worker that runs a backup is still its own: every other step compares
the key with a token of its own before it touches it, and `KeyExpires` leaves the key of
a run alone because its task is killed first (6600 and 7200 seconds).  `Announced` says
that no job is recorded on a row whose request may still fail it.  `WorkerReleases` needs no
uniqueness of deliveries: any worker that runs this verification may release it.

### Asset lifecycle

`AssetLifecycleProofs.tla` proves, for every set of rows, items, contents, trash requests and
purges and any number of faults and kills:

| theorem | states |
|---|---|
| `LifecycleInvariance` | `LifecycleSpec => []LifecycleInv` |
| `LifecycleIsTyped` | `[]LifecycleTypeOK` |
| `BytesAreThere` | `[](kills = 0 => CatalogHasBytes)` |
| `NothingIsLeaked` | `[]NothingLeaks` |
| `LastReference` | `LastReferenceGoes` |

The assumption is `LifecycleAssumption`: `Null` is no id, and the bounds are numbers.
`BytesAreThere` needs `kills = 0`, because `lifecycle_killed_purge` shows `CatalogHasBytes`
false after a killed purge; the other three hold with kills.  `LifecycleInv` adds to
`LifecycleTypeOK` and `NothingLeaks`

- `LocksHold`: a purge holds rows that are due and that nobody processes, one purge a row, and
  purge, upload and processing exclude each other at the files of a content;
- `RequestsAreYoung`: what a trash request has read is not due, so a stale request cannot turn a
  tombstone back under a purge;
- `UnlinkedStays`: what a purge has found about other rows of its content before it unlinked is
  still true when it commits;
- `BytesAreKnown`: `CatalogHasBytes` as long as nothing has been killed.

### Migration of legacy media

`ServicesProofs.tla` proves, for every set of rows, accounts, contents and workers and any
number of keys:

| theorem | states |
|---|---|
| `MigrationInvariance` | `MigrationSpec => []MigrationInv` |
| `MigrationIsTyped` | `[]MigrationTypeOK` |
| `MediaIsReadable` | `[]MediaStaysReadable` |
| `CiphertextOpens` | `[]CiphertextHasItsKey` |

The assumption is `MigrationAssumption`.  `MigrationInv` adds `KeyIsCommitted` (what a worker
holds is still to be migrated, and its key is the one its owner has), `CiphertextIsHeld` (a
ciphertext is there, under that key, until its row is committed), `MovedIsEncrypted` (the row
whose plaintext a worker is about to collect stays encrypted) and `PurgedIsDue` (a row whose
purge has come to the unlink is in the trash, so it is neither migrated nor restored meanwhile).
`MediaIsReadable` covers purges of other rows that fail, are repeated or die anywhere, and leaves
out a row from the moment its own purge has unlinked its original.

### Paired nodes

`PairedNodesProofs.tla` proves, for every set of identities and codes, every range of the clock and
any number of requests and secrets:

| theorem | states |
|---|---|
| `NodesInvariance` | `NodesSpec => []NodesInv` |
| `NodesAreTyped` | `[]NodesTypeOK` |
| `WhatIsSentIsNew` | `[]NextIsNew` |
| `RevokedNodesStayOut` | `[]RevokedStaysOut` |

The assumption is `NodesAssumption`: the bounds are numbers, there is a secret, and `NoConfig` is
no identity, configuration or request.  `NodesInv` says besides the types that the host's file has
the newest timestamp of its identity (`DiskIsNewest`), so what the program sends and what is under
way is not older than what the server has accepted (`RequestIsNewest`); what the program, the
server's handler and an answer know of each other (`ProgramKnows`, `HandlerHolds`,
`AnswerIsOfRequest`); and that rows and secrets fit (`RowsAreSound`).

### Sign-in

`AccountAccessProofs.tla` proves, for every set of requests, sessions, links, passkeys and codes and
any bounds on passwords, secrets, steps and requests:

| theorem | states |
|---|---|
| `AccessInvariance` | `AccessSpec => []AccessInv` |
| `AccessIsTyped` | `[]AccessTypeOK` |
| `SessionsAreUnderPassword` | `[]SessionsFollowPassword` |
| `WayInRemains` | `[]SignInRemains` |
| `ProofsAreSpent` | `ProofsWorkOnce` |

The assumption is `AccessAssumption`: `None` is no session or link, there is a passkey and a step,
and the bounds are numbers.  Handlers act on copies that may be old, so `AccessInv` says what a
copy may still be relied on for: `CopyIsOld` (an enabled password stays enabled, and every copy
has a last step exactly if it has a secret), `LockedKnows` (what was read under the lock is what is
there at the commit; a link that was open is still open, but of the state of a Google
reauthentication nothing is known), `HandlersAreSound` and `SecretsAreDrawn`.  The first attempt at
`ProofsAreSpent` failed on a state that the server reaches only from factors older than
`totp_last_used_step`; section 8 says what that means for such accounts.

### Storage recovery

`StorageRecoveryProofs.tla` proves, for every finite set of drives, every set of workers and any
number of faults and requests:

| theorem | states |
|---|---|
| `StorageInvariance` | `StorageSpec => []StorageInv` |
| `StorageIsTyped` | `[]StorageTypeOK` |
| `MovesDestroyNothing` | `OnlyFaultsDestroy` |

The assumption is `StorageAssumption`: finitely many drives, and no more copies wanted than
drives.  `StorageInv` adds `MovesAreSound` to the types: a move is between two drives, and the copy
it has made is good until it takes the old one away, because it holds the lock of the new path.
That task and monitor overlap freely elsewhere does no harm: a copy is only written from a good
source, and never over a good file.

### Uploads

`UploadsProofs.tla` proves, for every set of pages, runs, photos, sessions and handlers and any
size of an upload, number of faults, stalls and attempts:

| theorem | states |
|---|---|
| `UploadsInvariance` | `Spec => []UploadsInv` |
| `UploadsTypeOK` | `[]TypeOK` |
| `BytesAreAlwaysKept` | `[]BytesAreKept` |
| `CompleteIsAlwaysStored` | `[]CompleteIsStored` |
| `WebIsAlwaysSaved` | `[]WebIsSaved` |
| `CompleteIsAlwaysReceived` | `[]CompleteIsReceived` |
| `CompleteAlwaysStays` | `CompleteStays` |

The assumptions are those of the three modules (`UploadAssumption`, `WebAssumption`,
`MobileAssumption`) and `UploadsAssumption`: a page is no run of the phone, and its session none of
the phone's.  The invariant has a part for each of them and one for what is between them:

- `ServerIsSound`: a session keeps its bytes until they are published and one that is complete is
  stored (`SessionIsSound`); a handler in finalization has a session with all its bytes, and what it
  has published or stored is there (`HandlerIsSound`);
- `ClientsWait`: a handler answers one client, which waits for it and asked for that session;
- `WebKnows`: a page has heard "complete" only of what is stored;
- `MobileIsSound`: a row names a session of its own photo (`RowIsSound`), a run is never ahead of
  the server (`RunKnows`), and a run that still owns a row has the row's session in hand
  (`OwnerHolds`).

The last one makes the owner clause of `updateTransfer` enough: a run that finds it has sent
everything completes the row with the session it has sent, or, if it has lost the row, writes
nothing; and since only a row that is uploading has a run for an owner, no late write takes a
completed row away.  Locks of rows and the User play no part in these properties: what a step
of others changes only grows (`SessionGrows`, `BytesGrow`), so whatever a client or a handler
knows remains true.  The module is laid out in that order: the steps of the server, what the others
keep while it moves, the page, the phone.

### Synchronization

`DesktopSyncProofs.tla` proves, for every set of computers and contents, every finite set of paths
and any bound on items, operations, answers, edits and deaths:

| theorem | states |
|---|---|
| `SyncInvariant` | `SyncSpec => []SyncInv` |
| `SyncTypes` | `[]SyncTypeOK` |
| `JournalLeadsToItems` | `[]JournalGivesItems` |
| `HistoriesAreSound` | `[]HistoryIsSound` |
| `EntriesAreJournaled` | `[]EntriesFollowJournal` |
| `JournalOnlyGrows` | `JournalGrows`: `[][Grows(root, root')]_syncVars` |
| `RemovalsAreSafe` | `RemovalIsSafe` |

The assumptions are `SyncAssumption` (there is a path and a content, and the paths are finitely
many, because a scan lists those of a folder one after the other) and `DesktopAssumption`.
`SyncInv` has a part for the rows of the server and a part for the computers.

`JournalInv` is stated of any rows, because in the middle of a push there are rows that no state
shows:

- `Budget` and `PlacesDiffer`: an operation takes a cursor and, if it was kept out by a conflict and
  applied later, another one, so the cursor stays in its range, and no cursor and no sequence
  number of a client is in the journal twice;
- `ItemsFollow`: an item shows what the latest operation applied to it has left.  A decision
  applies an operation that has waited with a new cursor, which is what keeps this true;
- `OneActive` and `OwnHistory`: a history has one active revision, and its item shows one of its
  own; `AssetsThere`: what operations and items name exists;
- `OpsOwn`: what an applied operation names is a revision of its item, and no revision from before
  a deletion is active.  `RemovalIsSafe` needs the first half: the bytes a client has an
  entry for are in the history of that item.

`Follows` says of every state file and every run that each entry is what an applied operation says.
It survives what others do because a step of the server never undoes an applied operation
(`Grows`, proved of every action as `JournalOnlyGrows`); it survives a run's own steps because a
scan proposes what it has uploaded or moves what its entry shows (`About`), a push leaves
exactly that in the journal (`Pushed`), and a pull enters operations as they are.  Deaths cost
nothing: a state file that was not saved still follows.

Push, scan, answer and pull are folds in the model.  `PushRun`, `ScanRun`, `EnterRun` and `PullRun`
unfold each of them into a function from the places of its list, with one step of the code between
two places, and `UpTo` is the induction over the places; the library's induction theorems
would need an operator for a parameter.  `PullInv` is the invariant of a pull under way, and
`RemovalsAreSafe` reads off it which files are gone.

### The parts side by side

`ServicesProofs.tla` also proves of `MCServices`, the composition that `services_safety` checks:

| theorem | states |
|---|---|
| `PartsRunOnTheirOwn` | `Spec` implements `SyncSpec`, `StorageSpec`, `AccessSpec`, `NodesSpec`, `LocksSpec` and `MigrationSpec` |
| `ServicesTyped` | `[]ServicesTypeOK` |

The parts share no variable and a step of one leaves the others as they are, so every theorem
about a part holds of the composition as well.

Each of these invariants was checked by TLC before it was proved, on instances of the size of
section 10 or larger (recovery with three drives and workers, and sign-in with five requests, only
in part).

### Only model-checked

- Liveness (`PromiseIsKept`, `TrashIsEmptied`, `TransfersSettle`, `Heals`, `AlarmIsRight`), which
  the prover does not do.  Every other property of a passing run is proved.
- The properties of the runs that expect a violation are false of the code (section 12).

## 12. Disagreements found

- `lifecycle_killed_purge`: the state `purging` is flushed, not committed, before the
  unlinks; a worker killed in between leaves a row in the trash whose bytes are gone
  and which can be restored, against the docstring at `lifecycle.py:287`.
- `uploads_two_keys`: two first uploads at the same time.  Each handler holds the User it
  loaded before the key existed, and the lock does not refresh it, so the second one
  commits another key over the first, and what was published under the first can no
  longer be decrypted, against `ingestion.py:91-92`.
- `uploads_false_proof`: the last offset is committed before finalization.  A phone that
  resumes such a session finds nothing to send and records the photo as complete; it is not
  in the catalog, against `queue.ts:182-184`.
- `deletion_late_publish`: `delete_account` records the publication in the session that
  created the job, and the locked read in `record_account_deletion_publish`
  (`account_deletion.py:682`) returns that session's copy, which is pending for ever.  A callback
  that comes after the worker sets a job in `manual_review` back to `queued`, against
  `docs/operations/account-deletion.md:79-80` and the docstring at `account_deletion.py:680`; one
  that comes while the worker runs takes its lease.  It needs no fault: the default quiescence is
  0 seconds.  The end of a batch tests a copy as well (`account_deletion.py:646`), which a worker
  that outlives its lease reaches.  `NothingComesBack` and `CompletedIsErased` hold
  nevertheless.
- `access_state_twice`: the Google callback loads the row of a reauthentication state before the
  lock (`auth.py:448-451`) and selects it again for update without refreshing it (464-468), so a
  second callback that waited finds `used_at` unset in its copy, and its own test at
  `auth.py:471-472` passes.
- `sync_overwrites`: a pull asks whether the local file has changed only for an item it has an
  entry for.  A file that was added to two computers under one name is overwritten on the one
  that runs second, before its content was ever uploaded, against `README.md:142`.

Seen while modelling and not given a run:

- Deletion: `media_key_encrypted = None` (`account_deletion.py:278`) is written only if the
  request's copy of the user holds a key, so a first upload that commits one after the request has
  authenticated leaves it in the row of the locked-out user until the row goes, against the
  comment at `account_deletion.py:263` and `README.md:55` of the repository; `CompletedIsErased`
  says it is gone on completion.  A completed job that a late publish callback has set back to
  `queued` has no subject and is published for ever.  Two markers for one subject stop the replay
  for every account until an operator steps in.
- Lifecycle: `trash_asset` tests the copy the endpoint read before it had the lock
  (`lifecycle.py:163-170`), so a superseded revision or a tombstone can be trashed.  Two restores
  from the trash lock revisions in opposite orders.  In plaintext mode a torn original stays.
- Sync: the client adopts the cursor of the root after a push, and after a pull that was cut at
  its limit, past operations it has never seen; a client sequence that is used again after
  a crash makes the server drop the new operations as duplicates; a remote move leaves the old
  file; a local version that is kept does not reach the computer it came from, and cannot be kept at
  all once the photo has been superseded; a pull stays stuck on an operation whose
  original answers 404 (`assets.py:45-66`).  The four sync properties say what still holds.
- Recovery: a rebalance killed between the unlink and the commit leaves a good copy that no row
  names (`replication.py:268`), which is why `Recoverable` asks for a row.
- Sign-in: a `disable_mfa` with a stale copy that overlaps a confirmation leaves the factor on
  without recovery codes; a `setup_mfa` that overlaps a confirmation answers with an internal error
  (`models/user.py:18-24`); a refresh whose answer is lost costs the session.
- Nodes and locks: a rotation whose answer is lost locks the node out; two node processes on
  one host overwrite each other's configuration; a lost message whose job is recorded keeps the
  verification lock for ever.
- Migration: a plaintext object stays on disk when two runs handle its last two rows at the same
  time, or when a worker dies between the commit and the unlink.

## 13. What is not modelled

`PROJECT.json` gives the status of each component.  Left out:

- timeline, search, groups and media delivery (derived data); shares and albums (row-level
  rules without concurrency); observability and configuration; installers and other scripts a
  person runs; the web frontend but for its uploads; the scan of external libraries, which
  only reads what it finds into the catalog;
- of the components that are modelled in part: the registration of drives, their policies and
  what happens when one is unplugged; the contents, the pruning and the verification of
  archives; checksums given when a session is created, plaintext mode and the upload in a
  single request; push devices; profiles, names of passkeys, rate limits and the slots that
  bound concurrent password hashing; the branch of a push that clones an older
  revision of the same item (`sync.py:113-121`), which no active asset takes; thumbnails in the
  migration, which go the way of originals;
- everywhere: the wording of answers, audit events, e-mail and notifications, the content of
  files, and the cryptography itself (a key, a signature or a hash is compared, not computed).
