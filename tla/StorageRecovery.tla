---------------------------- MODULE StorageRecovery ----------------------------
(***************************************************************************)
(* One managed asset, its protection copies and the background tasks that  *)
(* keep them: the monitor, restore, protect and balancing                  *)
(* (worker/tasks.py, services/replication.py).                             *)
(*                                                                         *)
(* A task is a few steps: what it reads, each file operation, its commit.  *)
(* Restore and protect hold the row lock of the asset from start to        *)
(* commit, protect and balancing hold the lock of each path they have      *)
(* written; the monitor holds nothing.  A file is as its hash tells:       *)
(* "good", "bad" or "gone".  Uploads, trash and purge are AssetLifecycle's *)
(* matter; the asset is active and its owner enabled.                      *)
(***************************************************************************)
EXTENDS Integers, FiniteSets

CONSTANTS
  Drives,       \* eligible replica drives
  Workers,      \* Celery workers
  Desired,      \* verified copies the policy asks for
  MaxEvents     \* bound: faults (damaged files, killed workers, lost messages,
                \* failures) and requests of the owner, taken together

ASSUME StorageAssumption ==
  /\ IsFiniteSet(Drives) /\ Desired \in 1..Cardinality(Drives)
  /\ MaxEvents \in Nat

VARIABLES
  original,  \* the managed original
  copy,      \* the file at the replica path of each drive
  row,       \* the AssetReplica row of each drive
  asset,     \* restore_status and protection_status
  event,     \* the open automatic_restore event: its 15 minutes run or are over
  critical,  \* an original_unrecoverable event is open
  queue,     \* tasks the broker holds; a second equal one adds nothing
  worker,    \* the task each worker runs
  faults, requests

files == << original, copy >>
rows == << row, asset, event, critical >>
storage == << files, rows, queue, worker, faults, requests >>

Bytes == {"good", "bad", "gone"}
AssetStatuses == [ restore : {"none", "queued", "restored", "failed"},
            protection : {"pending", "protected", "degraded", "failed"} ]
NoTask == [ at |-> "idle", todo |-> {}, was |-> {}, good |-> {}, bad |-> {}, ok |-> FALSE,
            repair |-> FALSE, seen |-> [ restore |-> "none", protection |-> "pending" ] ]
Tasks == [ at : {"idle", "restore", "restored", "protect", "move", "release", "moved",
                 "look", "copies", "decide", "commit"},
           todo : SUBSET Drives, was : SUBSET Drives, good : SUBSET Drives, bad : SUBSET Drives,
           ok : BOOLEAN, repair : BOOLEAN, seen : AssetStatuses ]

\* The task of moving a copy between two drives has begun.
Move(high, low) == [NoTask EXCEPT !.at = "move", !.todo = {high}, !.bad = {low}]

\* Right after ingestion, or later: fully protected, or with too few copies, as a
\* partial protection or a removed drive leaves it, and asked for again; or the
\* monitor has just found the original damaged, and asked for its restoration.
\* No task runs, or one that moves a copy has begun.
StorageInit ==
  /\ \E kept \in SUBSET Drives :
       LET few == Cardinality(kept) < Desired IN
       /\ copy = [d \in Drives |-> IF d \in kept THEN "good" ELSE "gone"]
       /\ row = [d \in Drives |-> IF d \in kept THEN "verified" ELSE "none"]
       /\ \/ /\ original = "good" /\ event = "none"
             /\ queue = IF few THEN {"protect"} ELSE {}
          \/ /\ original \in {"bad", "gone"} /\ event = "fresh" /\ kept # {}
             /\ queue = {"restore"}
       /\ asset = [ restore |-> IF original = "good" THEN "none" ELSE "queued",
                    protection |-> IF kept = {} THEN "pending"
                                   ELSE IF few THEN "degraded" ELSE "protected" ]
  /\ critical = FALSE
  /\ LET Nothing == [w \in Workers |-> NoTask] IN
     \/ worker = Nothing
     \/ \E w \in Workers, high, low \in Drives :
          /\ row[high] = "verified" /\ row[low] = "none"
          /\ worker = [Nothing EXCEPT ![w] = Move(high, low)]
  /\ faults = 0 /\ requests = 0

Fault == faults + requests < MaxEvents /\ faults' = faults + 1
Asked == faults + requests < MaxEvents /\ requests' = requests + 1

At(w, place) == worker[w].at = place
Run(w, task) == worker' = [worker EXCEPT ![w] = task]
Ends(w) == Run(w, NoTask)
\* autoretry_for puts a task that raised back, at most twice.
Retry(kind) == queue' = queue \/ queue' = queue \cup {kind}

\* active_asset_for_write: nobody else holds the asset.
AssetFree(w) == \A v \in Workers \ {w} : worker[v].at \notin {"restore", "restored", "protect"}
\* lock_storage_path.
Locked(v) == CASE At(v, "protect") -> worker[v].good \cup worker[v].bad
               [] At(v, "release") -> worker[v].good
               [] At(v, "moved")   -> worker[v].good \cup worker[v].todo
               [] OTHER -> {}
PathFree(w, d) == \A v \in Workers \ {w} : d \notin Locked(v)

\* An UPDATE of a row that is no longer there raises StaleDataError, and the
\* whole transaction is rolled back.
Stale(w) == \E d \in worker[w].good \cup worker[w].bad : row[d] = "none"

Verified == { d \in Drives : row[d] = "verified" }

\* The statuses a task has found.  The object relational mapper writes a column
\* only when its value differs from the one that was read (`was`, `seen`).
Marked(w) == [d \in Drives |-> IF d \in worker[w].good \ worker[w].was THEN "verified"
                               ELSE IF d \in worker[w].bad \cap worker[w].was THEN "failed"
                               ELSE row[d]]

-----------------------------------------------------------------------------
(* restore_asset.                                                          *)

StartRestore(w) ==
  /\ At(w, "idle") /\ "restore" \in queue /\ AssetFree(w)
  /\ queue' = queue \ {"restore"}
  /\ Run(w, [NoTask EXCEPT !.at = "restore", !.todo = Verified, !.was = Verified])
  /\ UNCHANGED << files, rows, faults, requests >>

\* _copy_verified_replica: a copy is published when the temporary file that was
\* made of it has the right hash.
TryCandidate(w) ==
  /\ At(w, "restore")
  /\ \E d \in worker[w].todo :
       IF copy[d] = "good"
       THEN /\ original' = "good"
            /\ Run(w, [worker[w] EXCEPT !.at = "restored", !.good = {d}])
       ELSE /\ Run(w, [worker[w] EXCEPT !.todo = @ \ {d}, !.bad = @ \cup {d}])
            /\ UNCHANGED original
  /\ UNCHANGED << copy, rows, queue, faults, requests >>

CommitRestore(w) ==
  /\ At(w, "restored") /\ ~Stale(w)
  /\ row' = Marked(w)
  /\ asset' = [ restore |-> "restored",
                protection |-> IF worker[w].bad # {} THEN "degraded" ELSE asset.protection ]
  /\ event' = "none" /\ critical' = FALSE
  /\ Ends(w)
  /\ UNCHANGED << files, queue, faults, requests >>

NoUsableReplica(w) ==
  /\ At(w, "restore") /\ worker[w].todo = {} /\ ~Stale(w)
  /\ row' = Marked(w)
  /\ asset' = [ restore |-> "failed", protection |-> "failed" ]
  /\ critical' = TRUE
  /\ Ends(w)
  /\ UNCHANGED << files, event, queue, faults, requests >>

\* Balancing has deleted a row the task wants to write.
RestoreIsStale(w) ==
  /\ At(w, "restored") \/ (At(w, "restore") /\ worker[w].todo = {})
  /\ Stale(w)
  /\ Retry("restore")
  /\ Ends(w)
  /\ UNCHANGED << files, rows, faults, requests >>

\* The drive is not approved, or the original cannot be written.
RestoreFails(w) ==
  /\ At(w, "restore") /\ worker[w].todo # {} /\ Fault
  /\ asset' = [asset EXCEPT !.restore = "failed"]
  /\ Retry("restore")
  /\ Ends(w)
  /\ UNCHANGED << files, row, event, critical, requests >>

-----------------------------------------------------------------------------
(* protect_asset and ensure_asset_replicas.                                *)

StartProtect(w) ==
  /\ At(w, "idle") /\ "protect" \in queue /\ AssetFree(w) /\ original # "gone"
  /\ queue' = queue \ {"protect"}
  /\ \E targets \in SUBSET Drives :
       /\ Cardinality(targets) = Desired
       /\ Run(w, [NoTask EXCEPT !.at = "protect", !.todo = targets])
  /\ UNCHANGED << files, rows, faults, requests >>

\* There is nothing to copy; the task raises.
CannotProtect(w) ==
  /\ At(w, "idle") /\ "protect" \in queue /\ AssetFree(w) /\ original = "gone"
  /\ asset' = [asset EXCEPT !.protection = "failed"]
  /\ queue' \in {queue, queue \ {"protect"}}
  /\ UNCHANGED << files, row, event, critical, worker, faults, requests >>

\* Mutant: the source is copied over whatever is there.
CopiedOver(from, to) == from

\* _copy_verified: a file with the right hash is kept, any other is replaced by
\* what the source holds, and hashed.
Copied(from, to) == IF to = "good" THEN "good" ELSE from

CopyTo(w) ==
  /\ At(w, "protect")
  /\ \E d \in worker[w].todo :
       LET result == Copied(original, copy[d]) IN
       /\ PathFree(w, d)
       /\ copy' = [copy EXCEPT ![d] = result]
       /\ Run(w, IF result = "good"
                 THEN [worker[w] EXCEPT !.todo = @ \ {d}, !.good = @ \cup {d},
                                        !.was = @ \cup (Verified \cap {d})]
                 ELSE [worker[w] EXCEPT !.todo = @ \ {d}, !.bad = @ \cup {d},
                                        !.was = @ \cup (Verified \cap {d})])
  /\ UNCHANGED << original, rows, queue, faults, requests >>

CommitProtect(w) ==
  /\ At(w, "protect") /\ worker[w].todo = {}
  /\ row' = Marked(w)
  /\ asset' = [asset EXCEPT !.protection =
                 IF Cardinality(worker[w].good) >= Desired THEN "protected" ELSE "degraded"]
  /\ Ends(w)
  /\ UNCHANGED << files, event, critical, queue, faults, requests >>

\* The transaction breaks: only the failure is recorded, the files stay.
ProtectBreaks(w) ==
  /\ At(w, "protect")
  /\ asset' = [asset EXCEPT !.protection = "failed"]
  /\ Retry("protect")
  /\ Ends(w)
  /\ UNCHANGED << files, row, event, critical, requests >>

ProtectFails(w) == Fault /\ ProtectBreaks(w)

-----------------------------------------------------------------------------
(* rebalance_replicas: todo holds the drive a copy leaves, good or bad the *)
(* one it goes to.                                                         *)

StartMove(w) ==
  /\ At(w, "idle") /\ Asked
  /\ \E high, low \in Drives :
       /\ row[high] = "verified" /\ row[low] = "none" /\ copy[high] # "gone"
       /\ Run(w, Move(high, low))
  /\ UNCHANGED << files, rows, queue, faults >>

\* Mutant: the old copy goes first.
MoveReleasingFirst(w) ==
  /\ At(w, "move")
  /\ \E high \in worker[w].todo :
       /\ PathFree(w, high)
       /\ copy' = [copy EXCEPT ![high] = "gone"]
  /\ Run(w, [worker[w] EXCEPT !.at = "release", !.good = worker[w].bad, !.bad = {}])
  /\ UNCHANGED << original, rows, queue, faults, requests >>

MoveCopy(w) ==
  /\ At(w, "move")
  /\ \E high \in worker[w].todo, low \in worker[w].bad :
       LET result == Copied(copy[high], copy[low]) IN
       /\ PathFree(w, low)
       /\ copy' = [copy EXCEPT ![low] = result]
       /\ Run(w, IF result = "good"
                 THEN [worker[w] EXCEPT !.at = "release", !.good = {low}, !.bad = {}]
                 ELSE NoTask)
  /\ UNCHANGED << original, rows, queue, faults, requests >>

\* safely_unlink_catalog_path.
ReleaseOld(w) ==
  /\ At(w, "release")
  /\ \E high \in worker[w].todo :
       /\ PathFree(w, high)
       /\ copy' = [copy EXCEPT ![high] = "gone"]
  /\ Run(w, [worker[w] EXCEPT !.at = "moved"])
  /\ UNCHANGED << original, rows, queue, faults, requests >>

CommitMove(w) ==
  /\ At(w, "moved")
  /\ row' = [d \in Drives |-> IF d \in worker[w].todo THEN "none"
                              ELSE IF d \in worker[w].good THEN "verified" ELSE row[d]]
  /\ Ends(w)
  /\ UNCHANGED << files, asset, event, critical, queue, faults, requests >>

\* A task that copies and one that moves wait for each other's path, and the
\* database aborts one of them.
WaitsFor(v, w) ==
  \/ At(v, "protect") /\ \E d \in worker[v].todo : d \in Locked(w)
  \/ At(v, "release") /\ \E d \in worker[v].todo : d \in Locked(w)
Deadlock(w) ==
  /\ \E v \in Workers \ {w} : WaitsFor(v, w) /\ WaitsFor(w, v)
  /\ \/ ProtectBreaks(w)
     \/ At(w, "release") /\ Ends(w) /\ UNCHANGED << files, rows, queue, requests >>
  /\ UNCHANGED faults

-----------------------------------------------------------------------------
(* monitor_storage.                                                        *)

\* The asset is read first, long before its turn comes.
StartMonitor(w, repair) ==
  /\ At(w, "idle")
  /\ Run(w, [NoTask EXCEPT !.at = "look", !.seen = asset, !.repair = repair])
  /\ UNCHANGED << files, rows, queue, faults >>
\* The schedule repairs; the owner may also ask for a pass that only verifies.
StartScheduled(w) == StartMonitor(w, TRUE) /\ UNCHANGED requests
StartVerifyOnly(w) == StartMonitor(w, FALSE) /\ Asked

HashOriginal(w) ==
  /\ At(w, "look")
  /\ Run(w, [worker[w] EXCEPT !.at = "copies", !.ok = (original = "good"),
                              !.todo = { d \in Drives : row[d] # "none" }, !.was = Verified])
  /\ UNCHANGED << files, rows, queue, faults, requests >>

HashCopies(w) ==
  /\ At(w, "copies")
  /\ LET healthy == { d \in worker[w].todo : copy[d] = "good" }
     IN Run(w, [worker[w] EXCEPT !.at = "decide", !.todo = {}, !.good = healthy,
                                 !.bad = worker[w].todo \ healthy])
  /\ UNCHANGED << files, rows, queue, faults, requests >>

\* As in Marked, for a column of the asset.
Put(column, seen, new) == IF seen = new THEN column ELSE new

\* Mutant: an open event locks the asset for good.
RestoreDueOnce(w) == event = "none" \/ worker[w].seen.restore = "failed"

\* automatic_restore_retry_due.
RestoreDue(w) == event \in {"none", "due"} \/ worker[w].seen.restore = "failed"

\* queue_automatic_restore commits and then publishes.  A new status or event
\* waits for the lock of the asset.
QueueRestore(w) ==
  LET seen == worker[w].seen.restore IN
  /\ At(w, "decide") /\ ~worker[w].ok /\ worker[w].good # {} /\ worker[w].repair
  /\ RestoreDue(w) /\ ~Stale(w)
  /\ AssetFree(w) \/ (seen = "queued" /\ event # "none")
  /\ row' = Marked(w)
  /\ event' = "fresh"
  /\ \/ /\ asset' = [asset EXCEPT !.restore = Put(@, seen, "queued")]
        /\ queue' = queue \cup {"restore"}
        /\ UNCHANGED faults
     \/ /\ Fault
        /\ asset' = [asset EXCEPT !.restore = "failed"]
        /\ UNCHANGED queue
  /\ Ends(w)
  /\ UNCHANGED << files, critical, requests >>

\* Mutant: a missing copy is not made again.
NeedsNoCopy(w) == FALSE

NeedsCopies(w) ==
  /\ worker[w].ok /\ worker[w].repair
  /\ worker[w].good = {} \/ worker[w].seen.protection # "protected"

\* Here the message is out before the commit.
QueueProtect(w) ==
  /\ At(w, "decide") /\ NeedsCopies(w)
  /\ queue' = queue \cup {"protect"}
  /\ Run(w, [worker[w] EXCEPT !.at = "commit"])
  /\ UNCHANGED << files, rows, faults, requests >>

\* The commit at the end of the pass; what it writes to the asset waits for its
\* lock.
CommitMonitor(w) ==
  LET task == worker[w]
      lost == ~task.ok /\ task.good = {}
  IN
  /\ \/ At(w, "commit")
     \/ /\ At(w, "decide") /\ ~NeedsCopies(w)
        /\ ~task.ok /\ task.good # {} /\ task.repair => ~RestoreDue(w)
  /\ ~Stale(w)
  /\ At(w, "commit") \/ lost => AssetFree(w)
  /\ row' = Marked(w)
  /\ CASE At(w, "commit") ->
            /\ asset' = [asset EXCEPT !.protection = Put(@, task.seen.protection, "pending")]
            /\ UNCHANGED << event, critical >>
       [] lost ->
            /\ asset' = [ restore |-> Put(asset.restore, task.seen.restore, "failed"),
                          protection |-> Put(asset.protection, task.seen.protection, "failed") ]
            /\ critical' = TRUE
            /\ UNCHANGED event
       [] task.ok /\ task.good # {} /\ ~At(w, "commit") ->
            /\ event' = "none" /\ critical' = FALSE
            /\ UNCHANGED asset
       [] OTHER -> UNCHANGED << asset, event, critical >>
  /\ Ends(w)
  /\ UNCHANGED << files, queue, faults, requests >>

MonitorIsStale(w) ==
  /\ worker[w].at \in {"decide", "commit"} /\ Stale(w)
  /\ Ends(w)
  /\ UNCHANGED << files, rows, queue, faults, requests >>

-----------------------------------------------------------------------------
(* The owner, time and faults.                                             *)

\* POST /assets/{id}/restore and /protect commit and then publish.
AskRestore ==
  /\ Asked /\ \A w \in Workers : AssetFree(w)
  /\ \E d \in Drives : row[d] = "verified"
  /\ asset' = [asset EXCEPT !.restore = "queued"]
  /\ queue' = queue \cup {"restore"}
  /\ UNCHANGED << files, row, event, critical, worker, faults >>

AskProtect ==
  /\ Asked /\ \A w \in Workers : AssetFree(w)
  /\ asset' = [asset EXCEPT !.protection = "pending"]
  /\ queue' = queue \cup {"protect"}
  /\ UNCHANGED << files, row, event, critical, worker, faults >>

EventAges ==
  /\ event = "fresh" /\ event' = "due"
  /\ UNCHANGED << files, row, asset, critical, queue, worker, faults, requests >>

\* A file is damaged or disappears; not the copy a move has just hashed.
Damage ==
  /\ Fault
  /\ \/ original' \in Bytes \ {"good", original} /\ UNCHANGED copy
     \/ /\ \E d \in Drives, x \in Bytes \ {"good"} :
             /\ copy[d] # x /\ copy[d] # "gone"
             /\ \A w \in Workers : At(w, "release") => d \notin worker[w].good
             /\ copy' = [copy EXCEPT ![d] = x]
        /\ UNCHANGED original
  /\ UNCHANGED << rows, queue, worker, requests >>

\* task_acks_late: the message of a killed worker may come again.
KillTask(w) ==
  /\ ~At(w, "idle") /\ Fault
  /\ CASE worker[w].at \in {"restore", "restored"} -> Retry("restore")
       [] At(w, "protect") -> Retry("protect")
       [] OTHER -> UNCHANGED queue
  /\ Ends(w)
  /\ UNCHANGED << files, rows, requests >>

LoseTask ==
  /\ Fault
  /\ \E kind \in queue : queue' = queue \ {kind}
  /\ UNCHANGED << files, rows, worker, requests >>

Restoring(w) == TryCandidate(w) \/ CommitRestore(w) \/ NoUsableReplica(w) \/ RestoreIsStale(w)
Protecting(w) == CopyTo(w) \/ CommitProtect(w)
Moving(w) == MoveCopy(w) \/ ReleaseOld(w) \/ CommitMove(w)
Monitoring(w) ==
  HashOriginal(w) \/ HashCopies(w) \/ QueueRestore(w) \/ QueueProtect(w) \/ CommitMonitor(w)
  \/ MonitorIsStale(w)
Begin(w) == StartRestore(w) \/ StartProtect(w) \/ CannotProtect(w)
Goes(w) == Restoring(w) \/ Protecting(w) \/ Moving(w) \/ Monitoring(w) \/ Deadlock(w)

StorageNext ==
  \/ \E w \in Workers :
       \/ Begin(w) \/ Goes(w) \/ StartMove(w) \/ StartScheduled(w) \/ StartVerifyOnly(w)
       \/ RestoreFails(w) \/ ProtectFails(w) \/ KillTask(w)
  \/ AskRestore \/ AskProtect \/ EventAges \/ Damage \/ LoseTask

StorageSpec == StorageInit /\ [][StorageNext]_storage

\* Tasks go on, the schedule starts the monitor, a message is taken although
\* other tasks hold the asset now and then, and time passes.
StorageFairness ==
  /\ \A w \in Workers :
       /\ WF_storage(Goes(w)) /\ WF_storage(StartScheduled(w))
       /\ SF_storage(StartRestore(w)) /\ SF_storage(StartProtect(w) \/ CannotProtect(w))
  /\ WF_storage(EventAges)

-----------------------------------------------------------------------------
(* Properties.                                                             *)

\* Every variable keeps its type, and no two tasks hold the asset or one path.
StorageTypeOK ==
  /\ original \in Bytes /\ copy \in [Drives -> Bytes]
  /\ row \in [Drives -> {"none", "verified", "failed"}]
  /\ asset \in AssetStatuses /\ event \in {"none", "fresh", "due"} /\ critical \in BOOLEAN
  /\ queue \subseteq {"restore", "protect"}
  /\ worker \in [Workers -> Tasks]
  /\ \A v, w \in Workers : v # w =>
       /\ Locked(v) \cap Locked(w) = {}
       /\ {worker[v].at, worker[w].at} \subseteq {"restore", "restored", "protect"} => FALSE
  /\ {faults, requests} \subseteq 0..MaxEvents

\* What the system does, however its tasks overlap or break off, never damages a
\* good original and never takes away the last good file: "a move is never
\* destructive" (README.md:98), and a restore publishes a right file or none.
OnlyFaultsDestroy ==
  [][faults' = faults =>
       /\ original = "good" => original' = "good"
       /\ (original = "good" \/ \E d \in Drives : copy[d] = "good") =>
            original' = "good" \/ \E d \in Drives : copy'[d] = "good"]_storage

\* A good file the catalog knows of.
Recoverable == original = "good" \/ \E d \in Drives : row[d] # "none" /\ copy[d] = "good"
Healthy == original = "good" /\ \E d \in Drives : row[d] = "verified" /\ copy[d] = "good"

\* "Missing or damaged managed originals are restored from verified protection
\* copies; missing or damaged replicas are rebuilt from a healthy original"
\* (README.md:164), whatever was lost, killed or overwritten by a stale pass.
Heals == <>[]Recoverable => <>[]Healthy

\* The alarm is on for an original that nothing can bring back, and off in the
\* end for one that is sound (original_unrecoverable, automatic_restore).
AlarmIsRight ==
  /\ <>[]~Recoverable => <>[]critical
  /\ <>[]Recoverable => <>[](~critical /\ event = "none")

=============================================================================
