--------------------------- MODULE AssetLifecycle ---------------------------
(***************************************************************************)
(* The catalog rows of one account and the content-addressed bytes they    *)
(* share: trash, restore, rollback, synchronized revisions, uploads,       *)
(* thumbnails, the retention purge and the lockout of the account.         *)
(*                                                                         *)
(* Locks.  An upload holds the User row exclusively, so no other writer of *)
(* the catalog runs beside it; restore, rollback, sync and processing      *)
(* share that lock; trash and purge do not take it.  A transaction that    *)
(* touches no file is one step, taken when the rows it locks are free; the *)
(* three that touch files (upload, processing, purge) have a step for each *)
(* file and hold the row and the advisory path locks in between.  The      *)
(* partial unique index lets one revision of an item be active; a          *)
(* transaction that meets it aborts, which is the same as not running.     *)
(*                                                                         *)
(* Time.  Only whether a retention deadline has passed is kept (`due`).    *)
(***************************************************************************)
EXTENDS Naturals, FiniteSets

CONSTANTS
  Assets,    \* ids of catalog rows
  Items,     \* logical ids: an item has one row for each revision
  Checksums,  \* checksums: each names one original and one thumbnail path
  Trashers,  \* requests that move an asset to the trash
  Purgers,   \* runs of the purge task
  Null,
  MaxFailures, \* bound: failed unlinks, crashes of uploads and processing tasks
  MaxKills     \* bound: purge workers killed between an unlink and the commit

ASSUME LifecycleAssumption ==
  /\ Null \notin Assets \cup Items \cup Checksums
  /\ MaxFailures \in Nat
  /\ MaxKills \in Nat

VARIABLES
  user,       \* "enabled" or "disabled"
  row,        \* the Asset rows
  originals,  \* contents with bytes at the managed original path
  thumbnails, \* contents with bytes at the thumbnail path
  uploading,  \* content an upload has published and not yet committed
  publishing, \* assets whose task has published a thumbnail, not committed
  trasher,    \* the asset each trash request has read as active
  purger,     \* the asset each purge has locked, and how far it is
  failures,   \* failures so far
  crashes,    \* those that may leave bytes without a row
  kills       \* purge workers killed so far

catalog == << user, row, originals, thumbnails, uploading, publishing, trasher,
              purger, failures, crashes, kills >>

files  == << originals, thumbnails >>
tasks  == << uploading, publishing, trasher, purger >>
bounds == << failures, crashes, kills >>

States == {"absent", "active", "superseded", "trashed", "purging"}
Rows == [ state : States, item : Items \cup {Null}, content : Checksums \cup {Null},
          thumbnail : BOOLEAN, due : BOOLEAN ]
NoRow == [ state |-> "absent", item |-> Null, content |-> Null,
           thumbnail |-> FALSE, due |-> FALSE ]

Stored  == { a \in Assets : row[a].state # "absent" }
Active  == { a \in Assets : row[a].state = "active" }
Revisions(i) == { a \in Stored : row[a].item = i }

\* The row is locked by a transaction that is in the middle of its files.
Locked(a) == a \in publishing \/ \E p \in Purgers : purger[p].asset = a

\* Mutant: an upload publishes its path without the advisory lock.
OriginalLockedByPurge(c) ==
  \E p \in Purgers : purger[p].step \in {"original", "thumbnail"} /\ row[purger[p].asset].content = c

\* The advisory locks of the paths of a content.
OriginalLocked(c) ==
  \/ uploading = c
  \/ \E p \in Purgers : purger[p].step \in {"original", "thumbnail"} /\ row[purger[p].asset].content = c
ThumbnailLocked(c) ==
  \/ \E a \in publishing : row[a].content = c
  \/ \E p \in Purgers : purger[p].step = "thumbnail" /\ row[purger[p].asset].content = c

\* A share lock on the User row of an account in service.
Shared == user = "enabled" /\ uploading = Null

Failure == failures < MaxFailures /\ failures' = failures + 1 /\ UNCHANGED kills

(***************************************************************************)
(* Trash, restore, rollback                                                *)
(***************************************************************************)

\* The endpoint reads the asset as active, without a lock.
TrashRead(t, a) ==
  /\ user = "enabled"
  /\ trasher[t] = Null
  /\ a \in Active
  /\ trasher' = [trasher EXCEPT ![t] = a]
  /\ UNCHANGED << user, row, files, uploading, publishing, purger, bounds >>

Trashed(a) == [row EXCEPT ![a].state = "trashed", ![a].due = FALSE]

\* trash_asset locks the row.  The lock does not refresh the copy the session
\* has read, so the test for an active revision is a test of that copy.
Trash(t) ==
  /\ trasher[t] # Null
  /\ ~Locked(trasher[t])
  /\ row' = IF trasher[t] \in Stored THEN Trashed(trasher[t]) ELSE row
  /\ trasher' = [trasher EXCEPT ![t] = Null]
  /\ UNCHANGED << user, files, uploading, publishing, purger, bounds >>

\* A synchronized delete locks the row where it is active and trashes it.
SyncDelete(a) ==
  /\ Shared
  /\ a \in Active /\ ~Locked(a)
  /\ row' = Trashed(a)
  /\ UNCHANGED << user, files, tasks, bounds >>

\* Mutant: the deadline of the trash stays on the restored revision.
RestoreKeepsDeadline(a) ==
  /\ Shared
  /\ row[a].state = "trashed"
  /\ \A b \in Revisions(row[a].item) : ~Locked(b) /\ b \notin Active
  /\ row' = [row EXCEPT ![a].state = "active"]
  /\ UNCHANGED << user, files, tasks, bounds >>

\* restore_asset_from_trash: the deadline is not looked at.
Restore(a) ==
  /\ Shared
  /\ row[a].state = "trashed"
  /\ \A b \in Revisions(row[a].item) : ~Locked(b) /\ b \notin Active
  /\ row' = [row EXCEPT ![a].state = "active", ![a].due = FALSE]
  /\ UNCHANGED << user, files, tasks, bounds >>

\* rollback_asset: `a` is the current revision, `b` the historical one.
Rollback(a, b) ==
  /\ Shared
  /\ a \in Active /\ row[b].state = "superseded"
  /\ row[a].item = row[b].item
  /\ \A c \in Revisions(row[a].item) : ~Locked(c)
  /\ row' = [row EXCEPT ![a].state = "superseded", ![b].state = "active"]
  /\ UNCHANGED << user, files, tasks, bounds >>

(***************************************************************************)
(* Synchronized revisions                                                  *)
(***************************************************************************)

\* The active revision of the item is superseded before another becomes active.
Superseded(i) ==
  [a \in Assets |-> IF row[a].item = i /\ a \in Active
                    THEN [row[a] EXCEPT !.state = "superseded"] ELSE row[a]]

\* A standalone upload is promoted to a revision of the item.
SyncAttach(a, i) ==
  /\ Shared
  /\ a \in Active /\ ~Locked(a)
  /\ row[a].item # i /\ Revisions(row[a].item) = {a}
  /\ \A b \in Revisions(i) \cap Active : ~Locked(b)
  /\ row' = [Superseded(i) EXCEPT ![a].item = i]
  /\ UNCHANGED << user, files, tasks, bounds >>

\* An asset that has a history, or is in use in another place, is cloned: the
\* new row `b` shares its bytes.
SyncClone(a, b, i) ==
  /\ Shared
  /\ a \in Active /\ ~Locked(a)
  /\ b \notin Stored
  /\ row[a].item # i
  /\ \A r \in Revisions(i) \cap Active : ~Locked(r)
  /\ row' = [Superseded(i) EXCEPT ![b] = [row[a] EXCEPT !.item = i]]
  /\ UNCHANGED << user, files, tasks, bounds >>

(***************************************************************************)
(* Uploads and thumbnails                                                  *)
(***************************************************************************)

\* persist_managed_asset under the User lock: a content that is active is a
\* duplicate; other bytes at the path are adopted, or written if there are none.
\* (Bound: the model has ids left for the row.)
UploadPublish(c) ==
  /\ Shared
  /\ publishing = {}
  /\ \A a \in Active : row[a].content # c
  /\ Stored # Assets /\ \E i \in Items : Revisions(i) = {}
  /\ ~OriginalLocked(c)
  /\ originals' = originals \cup {c}
  /\ uploading' = c
  /\ UNCHANGED << user, row, thumbnails, publishing, trasher, purger, bounds >>

UploadCommit(a, i) ==
  /\ uploading # Null
  /\ a \notin Stored /\ Revisions(i) = {}
  /\ row' = [row EXCEPT ![a] = [ state |-> "active", item |-> i, content |-> uploading,
                                 thumbnail |-> FALSE, due |-> FALSE ]]
  /\ uploading' = Null
  /\ UNCHANGED << user, files, publishing, trasher, purger, bounds >>

\* The transaction is lost; the bytes at the path stay.
UploadCrash ==
  /\ uploading # Null
  /\ Failure
  /\ crashes' = crashes + 1
  /\ uploading' = Null
  /\ UNCHANGED << user, row, files, publishing, trasher, purger >>

\* process_asset under the locks of the User and of an active asset.
ProcessPublish(a) ==
  /\ Shared
  /\ a \in Active /\ ~Locked(a)
  /\ ~ThumbnailLocked(row[a].content)
  /\ thumbnails' = thumbnails \cup {row[a].content}
  /\ publishing' = publishing \cup {a}
  /\ UNCHANGED << user, row, originals, uploading, trasher, purger, bounds >>

ProcessCommit(a) ==
  /\ a \in publishing
  /\ row' = [row EXCEPT ![a].thumbnail = TRUE]
  /\ publishing' = publishing \ {a}
  /\ UNCHANGED << user, files, uploading, trasher, purger, bounds >>

ProcessCrash(a) ==
  /\ a \in publishing
  /\ Failure
  /\ crashes' = crashes + 1
  /\ publishing' = publishing \ {a}
  /\ UNCHANGED << user, row, files, uploading, trasher, purger >>

(***************************************************************************)
(* The retention purge                                                     *)
(***************************************************************************)

\* Retention is a day or more: no request outlives it.
RetentionEnds(a) ==
  /\ row[a].state = "trashed" /\ ~row[a].due
  /\ \A t \in Trashers : trasher[t] # a
  /\ row' = [row EXCEPT ![a].due = TRUE]
  /\ UNCHANGED << user, files, tasks, bounds >>

Resting == [asset |-> Null, step |-> "idle"]

\* Mutant: the pass looks at the trash and not at its own tombstones.
IsDueTrashed(a) == row[a].state = "trashed" /\ row[a].due

\* The condition purge_due_assets selects by and checks again under the lock.
IsDue(a) == row[a].state \in {"trashed", "purging"} /\ row[a].due

PurgeLock(p, a) ==
  /\ purger[p] = Resting
  /\ IsDue(a) /\ ~Locked(a)
  /\ purger' = [purger EXCEPT ![p] = [asset |-> a, step |-> "locked"]]
  /\ UNCHANGED << user, row, files, uploading, publishing, trasher, bounds >>

Others(a) == { b \in Stored \ {a} : row[b].content = row[a].content }

\* Mutant: the bytes go with the first of the rows that name them.
PurgeOriginalAlways(p) ==
  LET a == purger[p].asset IN
  /\ purger[p].step = "locked"
  /\ ~OriginalLocked(row[a].content)
  /\ originals' = originals \ {row[a].content}
  /\ purger' = [purger EXCEPT ![p].step = "original"]
  /\ UNCHANGED << user, row, thumbnails, uploading, publishing, trasher, bounds >>

\* safely_unlink_catalog_path under the path lock: the last reference goes.
PurgeOriginal(p) ==
  LET a == purger[p].asset IN
  /\ purger[p].step = "locked"
  /\ ~OriginalLocked(row[a].content)
  /\ originals' = IF Others(a) = {} THEN originals \ {row[a].content} ELSE originals
  /\ purger' = [purger EXCEPT ![p].step = "original"]
  /\ UNCHANGED << user, row, thumbnails, uploading, publishing, trasher, bounds >>

PurgeThumbnail(p) ==
  LET a == purger[p].asset IN
  /\ purger[p].step = "original"
  /\ row[a].thumbnail
  /\ ~ThumbnailLocked(row[a].content)
  /\ thumbnails' = IF \E b \in Others(a) : row[b].thumbnail
                   THEN thumbnails ELSE thumbnails \ {row[a].content}
  /\ purger' = [purger EXCEPT ![p].step = "thumbnail"]
  /\ UNCHANGED << user, row, originals, uploading, publishing, trasher, bounds >>

\* Mutant: the row goes and its thumbnail is forgotten.
PurgeCommitEarly(p) ==
  /\ purger[p].step \in {"original", "thumbnail"}
  /\ row' = [row EXCEPT ![purger[p].asset] = NoRow]
  /\ purger' = [purger EXCEPT ![p] = Resting]
  /\ UNCHANGED << user, files, uploading, publishing, trasher, bounds >>

PurgeCommit(p) ==
  LET a == purger[p].asset IN
  /\ purger[p].step \in {"original", "thumbnail"}
  /\ row[a].thumbnail => purger[p].step = "thumbnail"
  /\ row' = [row EXCEPT ![a] = NoRow]
  /\ purger' = [purger EXCEPT ![p] = Resting]
  /\ UNCHANGED << user, files, uploading, publishing, trasher, bounds >>

\* An unlink raises: what is done is done, and the tombstone is committed.
PurgeFails(p) ==
  /\ purger[p] # Resting
  /\ Failure
  /\ row' = [row EXCEPT ![purger[p].asset].state = "purging"]
  /\ purger' = [purger EXCEPT ![p] = Resting]
  /\ UNCHANGED << user, files, uploading, publishing, trasher, crashes >>

\* The worker is killed: the tombstone was flushed and never committed.
PurgeKilled(p) ==
  /\ purger[p] # Resting
  /\ kills < MaxKills
  /\ kills' = kills + 1
  /\ purger' = [purger EXCEPT ![p] = Resting]
  /\ UNCHANGED << user, row, files, uploading, publishing, trasher, failures, crashes >>

\* The account is deleted (prepare_account_deletion, under the User lock).
Lockout ==
  /\ Shared
  /\ \A a \in Assets : ~Locked(a)
  /\ user' = "disabled"
  /\ row' = [a \in Assets |-> IF a \in Stored
                              THEN [row[a] EXCEPT !.state = "purging", !.due = TRUE] ELSE row[a]]
  /\ UNCHANGED << files, tasks, bounds >>

(***************************************************************************)
(* Specification                                                           *)
(***************************************************************************)

\* An account in service with nothing stored yet.
LifecycleInit ==
  /\ user = "enabled"
  /\ row = [a \in Assets |-> NoRow]
  /\ originals = {} /\ thumbnails = {}
  /\ uploading = Null
  /\ publishing = {}
  /\ trasher = [t \in Trashers |-> Null]
  /\ purger = [p \in Purgers |-> Resting]
  /\ failures = 0 /\ crashes = 0 /\ kills = 0

PurgeStep(p) == PurgeOriginal(p) \/ PurgeThumbnail(p) \/ PurgeCommit(p)

LifecycleNext ==
  \/ \E t \in Trashers : Trash(t) \/ \E a \in Assets : TrashRead(t, a)
  \/ \E a \in Assets : SyncDelete(a) \/ Restore(a) \/ RetentionEnds(a)
  \/ \E a, b \in Assets : Rollback(a, b)
  \/ \E a \in Assets, i \in Items : SyncAttach(a, i) \/ UploadCommit(a, i)
  \/ \E a, b \in Assets, i \in Items : SyncClone(a, b, i)
  \/ \E c \in Checksums : UploadPublish(c)
  \/ UploadCrash
  \/ \E a \in Assets : ProcessPublish(a) \/ ProcessCommit(a) \/ ProcessCrash(a)
  \/ \E p \in Purgers : PurgeStep(p) \/ PurgeFails(p) \/ PurgeKilled(p)
  \/ \E p \in Purgers, a \in Assets : PurgeLock(p, a)
  \/ Lockout

LifecycleSpec == LifecycleInit /\ [][LifecycleNext]_catalog

\* The purge is scheduled again and again, and a run of it takes every due row
\* it does not find locked; whoever waits for a path lock gets it although others
\* come and go (PostgreSQL queues them); uploads and processing tasks end.
LifecycleFairness ==
  /\ \A p \in Purgers : SF_catalog(PurgeStep(p))
  /\ \A a \in Assets : SF_catalog(\E p \in Purgers : PurgeLock(p, a))
  /\ \A a \in Assets : WF_catalog(ProcessCommit(a))
  /\ WF_catalog(\E a \in Assets, i \in Items : UploadCommit(a, i))

(***************************************************************************)
(* Properties                                                              *)
(***************************************************************************)

Steps == {"idle", "locked", "original", "thumbnail"}

\* Every variable keeps its type, a row in place has its names, and only what
\* is on its way out has a deadline (ck_assets_retention_state).
LifecycleTypeOK ==
  /\ user \in {"enabled", "disabled"}
  /\ row \in [Assets -> Rows]
  /\ \A a \in Stored : row[a].item \in Items /\ row[a].content \in Checksums
  /\ \A a \in Assets : row[a].due => row[a].state \in {"trashed", "purging"}
  /\ originals \subseteq Checksums /\ thumbnails \subseteq Checksums
  /\ uploading \in Checksums \cup {Null}
  /\ publishing \subseteq Assets
  /\ trasher \in [Trashers -> Assets \cup {Null}]
  /\ purger \in [Purgers -> [asset : Assets \cup {Null}, step : Steps]]
  /\ failures \in Nat /\ crashes \in Nat /\ kills \in Nat

\* In an account in service every revision that can be shown, rolled back to or
\* restored has its bytes (path locks and reference checks of the purge against
\* uploads, clones, restores and rollbacks).
CatalogHasBytes ==
  user = "enabled" =>
    \A a \in Stored :
      row[a].state \in {"active", "superseded"} \/ (row[a].state = "trashed" /\ ~Locked(a)) =>
        /\ row[a].content \in originals
        /\ row[a].thumbnail => row[a].content \in thumbnails

\* Without a crash no byte outlives the last row that names it (the purge of
\* rows that share a path, each of which sees the other's row).
NothingLeaks ==
  crashes = 0 =>
    /\ originals \subseteq { row[a].content : a \in Stored } \cup {uploading}
    /\ thumbnails \subseteq { row[a].content : a \in { b \in Stored : row[b].thumbnail } \cup publishing }

\* Bytes go only with the last row that names them, once its deadline has
\* passed (safely_unlink_catalog_path, purge_due_assets).
LastReferenceGoes ==
  [][\A c \in Checksums :
       /\ c \in originals \ originals' =>
            \E a \in Stored :
              /\ { b \in Stored : row[b].content = c } = {a}
              /\ row[a].state \in {"trashed", "purging"} /\ row[a].due
       /\ c \in thumbnails \ thumbnails' =>
            \A a \in Stored : row[a].content = c /\ row[a].thumbnail =>
              row[a].state \in {"trashed", "purging"} /\ row[a].due]_catalog

\* "`purging` is a durable, retryable tombstone" (safely_purge_asset): a row
\* whose original is gone, and that no purge has in hand, is such a tombstone.
TombstoneIsDurable ==
  \A a \in Stored :
    row[a].content \notin originals /\ ~Locked(a) => row[a].state = "purging"

\* No asset stays in the trash past its deadline for ever: it is purged some day,
\* or taken out (the scheduled purge, retried after every failure).
TrashIsEmptied ==
  \A a \in Assets : []<>~row[a].due

=============================================================================
