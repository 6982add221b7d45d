-------------------------- MODULE AccountDeletion --------------------------
(***************************************************************************)
(* Durable deletion of one account: the DELETE /account request, the       *)
(* suppression ledger beside the database, the deletion job and its        *)
(* leases, the dispatcher and the broker, the cleanup workers, and the     *)
(* writers (uploads and processing tasks) that race them.                  *)
(*                                                                         *)
(* Row locks.  `userLock` is the exclusive or shared lock every writer and *)
(* every deletion step takes on the User row before anything else.  The    *)
(* lock on the job row is held for a whole item of the cleanup loop, so    *)
(* that an item is one action; a crash inside it is an action of its own,  *)
(* which keeps the unlinks and drops the uncommitted rows.                 *)
(*                                                                         *)
(* Sessions.  SELECT ... FOR UPDATE does not refresh an object the session  *)
(* already holds, and sessions do not expire on commit: a condition of the *)
(* WHERE clause sees the row, the Python code behind it sees the copy of   *)
(* the first load, and assigning the value of the copy writes nothing.     *)
(* `seen` is the copy of a request; a worker's copy of the job is as old   *)
(* as its claim until a rollback in its batch (worker state "again").      *)
(*                                                                         *)
(* Time.  A timestamp compared with now() is kept as the outcome of the    *)
(* comparison: the lease is `live`, the next attempt is `due`, the         *)
(* quiescence period is over (`calm`); actions of their own change them.   *)
(***************************************************************************)
EXTENDS Naturals, FiniteSets

CONSTANTS
  Requests,   \* DELETE /account requests; a request names the job id it draws
  Workers,    \* Celery cleanup workers; a worker names the lease token it draws
  Uploads,    \* resumable uploads: an upload_sessions row and its staging file
  Assets,     \* assets: an assets row and the managed bytes behind it
  Legacy,     \* assets whose catalogued path is not canonical: never unlinked
  Beat,       \* the periodic dispatcher
  None,       \* SQL NULL
  BatchSize,  \* account_deletion_batch_size
  MaxFaults,  \* bound: crashes, failed calls, lost messages, slow leases
  MaxDumps    \* bound: database archives taken

Items == Uploads \cup Assets

ASSUME DeletionAssumption ==
  /\ Legacy \subseteq Assets
  /\ Uploads \cap Assets = {}
  /\ Requests \cap Items = {}
  /\ Beat \notin Requests
  /\ None \notin Requests \cup Workers \cup Items
  /\ BatchSize \in Nat \ {0}
  /\ MaxFaults \in Nat
  /\ MaxDumps \in Nat

VARIABLES
  ledger,   \* job ids of the suppression markers on disk
  user,     \* the User row: "enabled", "disabled" or "gone"
  key,      \* TRUE when the wrapped media key is in the User row
  job,      \* the AccountDeletionJob row
  rows,     \* items with a catalog row
  files,    \* items with bytes in the account's namespaces
  userLock, \* holder of the row lock on the User row
  req,      \* where each deletion request is
  seen,     \* its session's copies of the user's key and of the job
  accepted, \* requests told that the deletion is accepted (202)
  writer,   \* where the writer of each item is
  beat,     \* where the dispatcher is
  broker,   \* job ids with a cleanup message in the broker
  worker,   \* where each cleanup worker is
  left,     \* iterations left in each worker's batch
  apiUp,    \* TRUE once the API has replayed the ledger and takes traffic
  dump,     \* the latest archive of the database
  dumps,    \* archives taken so far
  faults    \* faults so far

vars == << ledger, user, key, job, rows, files, userLock, req, seen, accepted,
           writer, beat, broker, worker, left, apiUp, dump, dumps, faults >>

db       == << user, key, job, rows >>
requests == << req, seen, accepted >>
senders  == << requests, beat >>
cleaners == << worker, left >>
bounds   == << dumps, faults >>

Claimable == {"pending", "queued", "retry", "running"}
Statuses  == Claimable \cup {"absent", "manual_review", "completed"}
Jobs == [ id : Requests \cup {None}, status : Statuses,
          token : Workers \cup {None}, live : BOOLEAN, due : BOOLEAN, calm : BOOLEAN ]
NoJob == [ id |-> None, status |-> "absent", token |-> None,
           live |-> FALSE, due |-> FALSE, calm |-> FALSE ]

Copies == [ key : BOOLEAN, status : Statuses, token : Workers \cup {None} ]
NoCopy == [ key |-> FALSE, status |-> "absent", token |-> None ]

(***************************************************************************)
(* Shared operations                                                       *)
(***************************************************************************)

\* Two markers for one subject make the whole ledger invalid.
LedgerReadable == \A i, j \in ledger : i = j

\* Authentication: a live session of an enabled user, and no marker for it.
Admits == apiUp /\ user = "enabled" /\ ledger = {}

Fault == faults < MaxFaults /\ faults' = faults + 1

\* A request holds the job's row lock, if there is a job, for as long as it
\* holds the User lock.
JobFree == userLock \notin Requests \/ job = NoJob

\* Mutant: the job is staged and the user row is left as it is.
PrepareKeepsUser(id, keySeen) ==
  /\ job' = [ id |-> id, status |-> "pending", token |-> None,
              live |-> FALSE, due |-> TRUE, calm |-> FALSE ]
  /\ UNCHANGED << user, key, rows >>

\* prepare_account_deletion: lock out the user, erase the key, stage the job.
\* A key the session has not seen is not erased.
Prepare(id, keySeen) ==
  /\ user' = "disabled"
  /\ key' = (key /\ ~keySeen)
  /\ job' = [ id |-> id, status |-> "pending", token |-> None,
              live |-> FALSE, due |-> TRUE, calm |-> FALSE ]
  /\ rows' = rows

\* Mutant: an account in service is taken for one that was never deleted.
ReconcileDisabledOnly ==
  /\ LedgerReadable
  /\ IF ledger # {} /\ job.id \notin ledger /\ user = "disabled" /\ job = NoJob
     THEN /\ userLock = None
          /\ \E id \in ledger : Prepare(id, TRUE)
     ELSE UNCHANGED db

\* reconcile_suppression_ledger: a marker without its job recreates the job,
\* if the user it names is still (or again) in the database.  Its reads and the
\* lock it takes are one step.
Reconcile ==
  /\ LedgerReadable
  /\ IF ledger # {} /\ job.id \notin ledger /\ user # "gone" /\ job = NoJob
     THEN /\ userLock = None
          /\ \E id \in ledger : Prepare(id, TRUE)
     ELSE UNCHANGED db

(***************************************************************************)
(* The deletion request                                                    *)
(***************************************************************************)

\* The current_auth dependency resolves; the handler has not run yet.
Authenticate(r) ==
  /\ req[r] = "idle"
  /\ Admits
  /\ req' = [req EXCEPT ![r] = "authed"]
  /\ seen' = [seen EXCEPT ![r].key = key]
  /\ UNCHANGED << ledger, db, files, userLock, accepted, writer, beat, broker,
                  cleaners, apiUp, dump, bounds >>

\* The request ends; `told` is {r} if its answer is 202.
Finish(r, told) ==
  /\ req' = [req EXCEPT ![r] = "done"]
  /\ seen' = [seen EXCEPT ![r] = NoCopy]
  /\ accepted' = accepted \cup told

\* A second factor, where the account has one, reads the user again
\* (populate_existing) while the lock is held.
KeyCopies(r) == {seen[r].key, key}

\* SELECT ... FOR UPDATE of the user and of the job there may be.  The copy of
\* an authenticated user is never disabled, so the branch for a deletion that
\* is already in progress is not taken.
LockAccount(r) ==
  /\ req[r] = "authed"
  /\ userLock = None
  /\ IF user = "gone"
     THEN Finish(r, {}) /\ UNCHANGED userLock
     ELSE /\ req' = [req EXCEPT ![r] = "locked"]
          /\ \E k \in KeyCopies(r) :
               seen' = [seen EXCEPT ![r] = [key |-> k, status |-> job.status, token |-> job.token]]
          /\ userLock' = r
          /\ UNCHANGED accepted
  /\ UNCHANGED << ledger, db, files, writer, beat, broker, cleaners, apiUp,
                  dump, bounds >>

\* Wrong confirmation, password or second factor.
Refuse(r) ==
  /\ req[r] = "locked"
  /\ Finish(r, {})
  /\ userLock' = None
  /\ UNCHANGED << ledger, db, files, writer, beat, broker, cleaners, apiUp,
                  dump, bounds >>

\* The marker of the request names the job it finds, or the one it stages.
MarkerId(r) == IF job = NoJob THEN r ELSE job.id

\* The job is staged in the open transaction; its marker is replaced into
\* place and fsynced before the commit.
WriteMarker(r) ==
  /\ req[r] = "locked"
  /\ ledger' = ledger \cup {MarkerId(r)}
  /\ req' = [req EXCEPT ![r] = "marked"]
  /\ UNCHANGED << db, files, userLock, seen, accepted, writer, beat, broker,
                  cleaners, apiUp, dump, bounds >>

\* write_suppression_marker raises: before os.replace, or after it, when the
\* directory cannot be opened or fsynced.  Rollback, 503.
MarkerFails(r) ==
  /\ req[r] = "locked"
  /\ Fault
  /\ ledger' \in { ledger, ledger \cup {MarkerId(r)} }
  /\ Finish(r, {})
  /\ userLock' = None
  /\ UNCHANGED << db, files, writer, beat, broker, cleaners, apiUp, dump, dumps >>

\* The rows the transaction leaves: an existing job is returned as it is.
Stage(r) == IF job = NoJob THEN Prepare(r, seen[r].key) ELSE UNCHANGED db

\* The copy of a job the request has created is the one it has staged.
Staged(r) == IF job = NoJob THEN [seen EXCEPT ![r].status = "pending"] ELSE seen

\* Mutant: the transaction commits before the marker is durable.
CommitBeforeMarker(r) ==
  /\ req[r] \in {"locked", "marked"}
  /\ Stage(r)
  /\ userLock' = None
  /\ req' = [req EXCEPT ![r] = "publish"]
  /\ seen' = Staged(r)
  /\ UNCHANGED << ledger, files, accepted, writer, beat, broker, cleaners, apiUp,
                  dump, bounds >>

Commit(r) ==
  /\ req[r] = "marked"
  /\ Stage(r)
  /\ userLock' = None
  /\ req' = [req EXCEPT ![r] = "publish"]
  /\ seen' = Staged(r)
  /\ UNCHANGED << ledger, files, accepted, writer, beat, broker, cleaners, apiUp,
                  dump, bounds >>

\* The commit raises: the server may have applied it or not.
CommitFails(r) ==
  /\ req[r] = "marked"
  /\ Fault
  /\ Stage(r) \/ UNCHANGED db
  /\ userLock' = None
  /\ req' = [req EXCEPT ![r] = "reconcile"]
  /\ UNCHANGED << ledger, files, seen, accepted, writer, beat, broker, cleaners,
                  apiUp, dump, dumps >>

\* The handler replays the ledger in a fresh session and answers 202 whether
\* or not the replay raises.
ReconcileAfterFailure(r) ==
  /\ req[r] = "reconcile"
  /\ Reconcile \/ UNCHANGED db
  /\ Finish(r, {r})
  /\ UNCHANGED << ledger, files, userLock, writer, beat, broker, cleaners,
                  apiUp, dump, bounds >>

(***************************************************************************)
(* Publishing: by the request after its commit, and by the dispatcher      *)
(***************************************************************************)

\* Mutant: a late publish callback overwrites whatever the job has become.
RecordPublishAlways(id, published) ==
  IF job.id = id
  THEN job' = [job EXCEPT !.status = IF published THEN "queued" ELSE "retry",
                          !.token = None, !.live = FALSE, !.due = FALSE]
  ELSE job' = job

\* record_account_deletion_publish on a job the session has not loaded before:
\* the outbox row advances only if no worker has run it.
RecordPublish(id, published) ==
  IF job.id = id /\ job.status \in {"pending", "queued", "retry"}
  THEN job' = [job EXCEPT !.status = IF published THEN "queued" ELSE "retry",
                          !.token = None, !.live = FALSE, !.due = FALSE]
  ELSE job' = job

\* The same on the request's copy: it decides, and only what differs from it is
\* written.  A job the request has created has no copy of its lease yet.
RecordSeen(r, published) ==
  LET new    == IF published THEN "queued" ELSE "retry"
      leased == job.id = r \/ seen[r].token # None
  IN IF seen[r].status \in {"pending", "queued", "retry"}
     THEN job' = [job EXCEPT !.status = IF seen[r].status = new THEN @ ELSE new,
                             !.token  = IF leased THEN None ELSE @,
                             !.live   = IF leased THEN FALSE ELSE @,
                             !.due    = FALSE]
     ELSE job' = job

RequestPublish(r) ==
  /\ req[r] = "publish"
  /\ \/ /\ broker' = broker \cup {job.id}
        /\ req' = [req EXCEPT ![r] = "sent"]
        /\ UNCHANGED faults
     \/ /\ Fault
        /\ req' = [req EXCEPT ![r] = "unsent"]
        /\ UNCHANGED broker
  /\ UNCHANGED << ledger, db, files, userLock, seen, accepted, writer, beat,
                  cleaners, apiUp, dump, dumps >>

\* A failure to record is swallowed: the answer is 202 all the same.
RequestRecord(r) ==
  /\ req[r] \in {"sent", "unsent"}
  /\ JobFree
  /\ \/ RecordSeen(r, req[r] = "sent") /\ UNCHANGED faults
     \/ Fault /\ UNCHANGED job
  /\ Finish(r, {r})
  /\ UNCHANGED << ledger, user, key, rows, files, userLock, writer, beat,
                  broker, cleaners, apiUp, dump, dumps >>

RequestCrash(r) ==
  /\ req[r] \notin {"idle", "done"}
  /\ Fault
  /\ Finish(r, {})
  /\ userLock' = IF userLock = r THEN None ELSE userLock
  /\ UNCHANGED << ledger, db, files, writer, beat, broker, cleaners,
                  apiUp, dump, dumps >>

\* Mutant: a queued job is taken to be in good hands for ever.
IsDueNotQueued(j) ==
  /\ j.status \in Claimable \ {"queued"}
  /\ j.calm /\ j.due
  /\ j.status = "running" => ~j.live

\* due_account_deletion_job_ids
IsDue(j) ==
  /\ j.status \in Claimable
  /\ j.calm /\ j.due
  /\ j.status = "running" => ~j.live

\* dispatch_account_deletions: replay the ledger, commit, list the due jobs.
\* With nothing due it ends here, and the ledger replay is its only effect.
BeatReconcile ==
  /\ beat = "idle"
  /\ IF LedgerReadable
     THEN Reconcile /\ beat' = IF IsDue(job') THEN "publish" ELSE "idle"
     ELSE UNCHANGED << db, beat >>
  /\ UNCHANGED << ledger, files, userLock, requests, writer, broker,
                  cleaners, apiUp, dump, bounds >>

BeatPublish ==
  /\ beat = "publish"
  /\ \/ /\ broker' = broker \cup {job.id}
        /\ beat' = "sent"
        /\ UNCHANGED faults
     \/ /\ Fault
        /\ beat' = "unsent"
        /\ UNCHANGED broker
  /\ UNCHANGED << ledger, db, files, userLock, requests, writer, cleaners,
                  apiUp, dump, dumps >>

BeatRecord ==
  /\ beat \in {"sent", "unsent"}
  /\ JobFree
  /\ RecordPublish(job.id, beat = "sent")
  /\ beat' = "idle"
  /\ UNCHANGED << ledger, user, key, rows, files, userLock, requests,
                  writer, broker, cleaners, apiUp, dump, bounds >>

BeatCrash ==
  /\ beat # "idle"
  /\ Fault
  /\ beat' = "idle"
  /\ UNCHANGED << ledger, db, files, userLock, requests, writer, broker,
                  cleaners, apiUp, dump, dumps >>

LoseMessage ==
  /\ Fault
  /\ \E id \in broker : broker' = broker \ {id}
  /\ UNCHANGED << ledger, db, files, userLock, senders, writer, cleaners,
                  apiUp, dump, dumps >>

(***************************************************************************)
(* The cleanup worker                                                      *)
(***************************************************************************)

\* Mutant: a running job is claimed whether or not its lease is live.
CanClaimLive(id) ==
  /\ job.id = id
  /\ job.status \in Claimable
  /\ job.calm
  /\ job.status # "queued" => job.due

\* claim_account_deletion_job
CanClaim(id) ==
  /\ job.id = id
  /\ job.status \in Claimable
  /\ job.calm
  /\ job.status # "queued" => job.due
  /\ job.status = "running" => ~job.live

\* A delivery: the broker may deliver the message again.  A refused claim is
\* the end of it.
Deliver(w) ==
  /\ worker[w] = "idle"
  /\ JobFree
  /\ \E id \in broker :
       /\ broker' \in { broker, broker \ {id} }
       /\ IF CanClaim(id)
          THEN /\ job' = [job EXCEPT !.status = "running", !.token = w, !.live = TRUE]
               /\ worker' = [worker EXCEPT ![w] = "batch"]
               /\ left' = [left EXCEPT ![w] = BatchSize]
          ELSE UNCHANGED << job, cleaners >>
  /\ UNCHANGED << ledger, user, key, rows, files, userLock, senders, writer,
                  apiUp, dump, bounds >>

\* The lease token is the fence: the job is re-read under its row lock with
\* the worker's token before anything is touched, and must still name a user.
Fenced(w) == job.token = w /\ job.id # None /\ user # "gone"

InBatch(w) == worker[w] \in {"batch", "again"}

\* Mutant: one iteration too many.
StepInBatchOnceMore(w) == InBatch(w) /\ left[w] >= 0 /\ JobFree /\ Fenced(w)

StepInBatch(w) == InBatch(w) /\ left[w] > 0 /\ JobFree /\ Fenced(w)

GiveUp(w) == worker' = [worker EXCEPT ![w] = "idle"] /\ left' = [left EXCEPT ![w] = 0]

Release(status, due) ==
  job' = [job EXCEPT !.status = status, !.token = None, !.live = FALSE, !.due = due]

\* After a rollback the job is read afresh, and released only while it runs.
ReleaseRunning(status, due) ==
  IF job.status = "running" THEN Release(status, due) ELSE job' = job

\* Uploads are taken before assets.
NextRows == IF rows \cap Uploads # {} THEN rows \cap Uploads ELSE rows

\* What an interrupted step may already have unlinked: the bytes of one item,
\* or in the final sweep any orphans.
PartialUnlinks(w) ==
  IF InBatch(w) THEN { {i} : i \in NextRows \ Legacy } \cup { {} }
                ELSE SUBSET (files \ Legacy)

\* process_account_deletion_batch, one iteration: unlink, delete the row,
\* renew the lease, commit.
PurgeItem(w) ==
  /\ StepInBatch(w)
  /\ \E i \in NextRows \ Legacy :
       /\ rows' = rows \ {i}
       /\ files' = files \ {i}
  /\ job' = [job EXCEPT !.live = TRUE]
  /\ worker' = [worker EXCEPT ![w] = IF job.status = "running" THEN "batch" ELSE @]
  /\ left' = [left EXCEPT ![w] = @ - 1]
  /\ UNCHANGED << ledger, user, key, userLock, senders, writer, broker, apiUp,
                  dump, bounds >>

\* A noncanonical path is retained; the job waits for an operator.
RetainLegacy(w) ==
  /\ StepInBatch(w)
  /\ NextRows \cap Legacy # {}
  /\ ReleaseRunning("manual_review", job.due)
  /\ GiveUp(w)
  /\ UNCHANGED << ledger, user, key, rows, files, userLock, senders, writer,
                  broker, apiUp, dump, bounds >>

\* Storage is unavailable or an unlink raises, before or after bytes went:
\* the transaction rolls back and the job backs off.
StepFails(w) ==
  /\ StepInBatch(w) \/ (worker[w] = "final" /\ userLock = None)
  /\ Fenced(w)
  /\ Fault
  /\ \E gone \in PartialUnlinks(w) : files' = files \ gone
  /\ ReleaseRunning("retry", FALSE)
  /\ GiveUp(w)
  /\ UNCHANGED << ledger, user, key, rows, userLock, senders, writer, broker,
                  apiUp, dump, dumps >>

\* No row is left, or other transactions hold the rows that are (SKIP LOCKED).
\* The job lock is released and taken again after the User lock, so another
\* worker may come in between.
EnterFinal(w) ==
  /\ StepInBatch(w)
  /\ \/ rows = {} /\ UNCHANGED faults
     \/ rows # {} /\ Fault
  /\ worker' = [worker EXCEPT ![w] = "final"]
  /\ UNCHANGED << ledger, db, files, userLock, senders, writer, broker, left,
                  apiUp, dump, dumps >>

\* The recount under both locks finds rows: on to the next iteration.
Recount(w) ==
  /\ worker[w] = "final"
  /\ userLock = None
  /\ Fenced(w)
  /\ rows # {}
  /\ worker' = [worker EXCEPT ![w] = "again"]
  /\ left' = [left EXCEPT ![w] = @ - 1]
  /\ UNCHANGED << ledger, db, files, userLock, senders, writer, broker, apiUp,
                  dump, bounds >>

\* Mutant: an empty catalog is taken for an empty disk.
FinalizeWithoutSweep(w) ==
  /\ worker[w] = "final"
  /\ userLock = None
  /\ Fenced(w)
  /\ rows = {}
  /\ Release("completed", TRUE) /\ user' = "gone" /\ key' = FALSE
  /\ GiveUp(w)
  /\ UNCHANGED << ledger, rows, files, userLock, senders, writer, broker,
                  apiUp, dump, bounds >>

\* Mutant: the User row goes although something is left to review.
FinalizeDropsUser(w) ==
  /\ worker[w] = "final"
  /\ userLock = None
  /\ Fenced(w)
  /\ rows = {}
  /\ files' = files \cap Legacy
  /\ user' = "gone" /\ key' = FALSE
  /\ Release(IF files' = {} THEN "completed" ELSE "manual_review", TRUE)
  /\ GiveUp(w)
  /\ UNCHANGED << ledger, rows, userLock, senders, writer, broker, apiUp,
                  dump, bounds >>

\* The recount finds none, under both locks (no writer can refill the catalog):
\* sweep_account_namespaces, then the User row goes and the job completes.
Finalize(w) ==
  /\ worker[w] = "final"
  /\ userLock = None
  /\ Fenced(w)
  /\ rows = {}
  /\ files' = files \cap Legacy
  /\ IF files' = {}
     THEN Release("completed", TRUE) /\ user' = "gone" /\ key' = FALSE
     ELSE Release("manual_review", job.due) /\ UNCHANGED << user, key >>
  /\ GiveUp(w)
  /\ UNCHANGED << ledger, rows, userLock, senders, writer, broker, apiUp,
                  dump, bounds >>

\* Another worker took the job over, or a late record took it away.
Stale(w) ==
  /\ worker[w] = "final" \/ (InBatch(w) /\ left[w] > 0)
  /\ JobFree
  /\ ~Fenced(w)
  /\ GiveUp(w)
  /\ UNCHANGED << ledger, db, files, userLock, senders, writer, broker, apiUp,
                  dump, bounds >>

\* The iterations are used up: the job is handed back if the copy the worker
\* has of it is running under its token, as the copy of its claim always is.
BatchEnds(w) ==
  /\ InBatch(w) /\ left[w] = 0
  /\ JobFree
  /\ IF worker[w] = "batch" \/ (job.status = "running" /\ job.token = w)
     THEN Release("pending", TRUE)
     ELSE job' = job
  /\ GiveUp(w)
  /\ UNCHANGED << ledger, user, key, rows, files, userLock, senders, writer,
                  broker, apiUp, dump, bounds >>

\* A crash after the unlinks of the current step and before its commit; the
\* unacknowledged message may be redelivered.
WorkerCrash(w) ==
  /\ worker[w] # "idle"
  /\ Fault
  /\ \/ UNCHANGED files
     \/ /\ StepInBatch(w) \/ (worker[w] = "final" /\ userLock = None /\ Fenced(w))
        /\ \E gone \in PartialUnlinks(w) : files' = files \ gone
  /\ GiveUp(w)
  /\ \/ UNCHANGED broker
     \/ job.id # None /\ broker' = broker \cup {job.id}
  /\ UNCHANGED << ledger, db, userLock, senders, writer, apiUp, dump, dumps >>

\* The periodic purge of the trash (purge_due_assets) finds the assets of a
\* locked-out account due as well; it needs no lease and no User lock.
RetentionPurge(i) ==
  /\ user = "disabled"
  /\ i \in (rows \cap Assets) \ Legacy
  /\ files' = files \ {i}
  /\ \/ rows' = rows \ {i} /\ UNCHANGED faults
     \/ rows' = rows /\ Fault
  /\ UNCHANGED << ledger, user, key, job, userLock, senders, writer, broker,
                  cleaners, apiUp, dump, dumps >>

(***************************************************************************)
(* Writers: create_upload, persist_managed_asset, processing tasks         *)
(***************************************************************************)

\* An upload request authenticates, or a task for a catalogued asset starts.
WriterStarts(i) ==
  /\ writer[i] = "idle"
  /\ i \notin Legacy
  /\ Admits \/ i \in rows \cap Assets
  /\ writer' = [writer EXCEPT ![i] = "started"]
  /\ UNCHANGED << ledger, db, files, userLock, senders, broker, cleaners, apiUp,
                  dump, bounds >>

\* The first asset of an account commits its wrapped key and locks again.
InitializeKey(i) ==
  /\ writer[i] = "started"
  /\ i \in Assets
  /\ userLock = None /\ user = "enabled" /\ ~key
  /\ key' = TRUE
  /\ UNCHANGED << ledger, user, job, rows, files, userLock, senders, writer,
                  broker, cleaners, apiUp, dump, bounds >>

\* Mutant: a writer that authenticated earlier does not look again.
LockForWriteUnchecked(i) ==
  /\ writer[i] = "started"
  /\ userLock = None
  /\ writer' = [writer EXCEPT ![i] = "locked"]
  /\ userLock' = i
  /\ UNCHANGED << ledger, db, files, senders, broker, cleaners, apiUp, dump,
                  bounds >>

\* The User row is locked where disabled_at IS NULL; the writer gives up if
\* there is none.
LockForWrite(i) ==
  /\ writer[i] = "started"
  /\ userLock = None
  /\ IF user = "enabled"
     THEN /\ i \in Assets => key
          /\ writer' = [writer EXCEPT ![i] = "locked"]
          /\ userLock' = i
     ELSE /\ writer' = [writer EXCEPT ![i] = "idle"]
          /\ UNCHANGED userLock
  /\ UNCHANGED << ledger, db, files, senders, broker, cleaners, apiUp, dump,
                  bounds >>

WriteBytes(i) ==
  /\ writer[i] = "locked"
  /\ files' = files \cup {i}
  /\ writer' = [writer EXCEPT ![i] = "written"]
  /\ UNCHANGED << ledger, db, userLock, senders, broker, cleaners, apiUp, dump,
                  bounds >>

CommitRow(i) ==
  /\ writer[i] = "written"
  /\ rows' = rows \cup {i}
  /\ userLock' = None
  /\ writer' = [writer EXCEPT ![i] = "idle"]
  /\ UNCHANGED << ledger, user, key, job, files, senders, broker, cleaners,
                  apiUp, dump, bounds >>

\* Bytes already published stay behind without a row.
WriterCrash(i) ==
  /\ writer[i] # "idle"
  /\ Fault
  /\ writer' = [writer EXCEPT ![i] = "idle"]
  /\ userLock' = IF userLock = i THEN None ELSE userLock
  /\ UNCHANGED << ledger, db, files, senders, broker, cleaners, apiUp, dump, dumps >>

(***************************************************************************)
(* Clocks, archives and restoration                                        *)
(***************************************************************************)

\* account_deletion_quiescence_seconds is 0 by default: nothing makes the period
\* outlast the request that has opened it.
QuiescenceEnds ==
  /\ job.id # None /\ ~job.calm
  /\ job' = [job EXCEPT !.calm = TRUE]
  /\ UNCHANGED << ledger, user, key, rows, files, userLock, senders, writer,
                  broker, cleaners, apiUp, dump, bounds >>

AttemptBecomesDue ==
  /\ job.status \in Claimable /\ ~job.due
  /\ job' = [job EXCEPT !.due = TRUE]
  /\ UNCHANGED << ledger, user, key, rows, files, userLock, senders, writer,
                  broker, cleaners, apiUp, dump, bounds >>

\* A lease nobody works under runs out.
LeaseExpires ==
  /\ job.live
  /\ worker[job.token] = "idle"
  /\ job' = [job EXCEPT !.live = FALSE]
  /\ UNCHANGED << ledger, user, key, rows, files, userLock, senders, writer,
                  broker, cleaners, apiUp, dump, bounds >>

\* Its holder is alive and slower than the lease: a fault.
LeaseOutrun ==
  /\ job.live
  /\ worker[job.token] # "idle"
  /\ Fault
  /\ job' = [job EXCEPT !.live = FALSE]
  /\ UNCHANGED << ledger, user, key, rows, files, userLock, senders, writer,
                  broker, cleaners, apiUp, dump, dumps >>

\* create_database_backup: a pg_dump of the committed rows.
TakeDump ==
  /\ dumps < MaxDumps
  /\ dumps' = dumps + 1
  /\ dump' = [user |-> user, key |-> key, job |-> job, rows |-> rows]
  /\ UNCHANGED << ledger, db, files, userLock, senders, writer, broker,
                  cleaners, apiUp, faults >>

\* The database is restored from the archive with every service stopped; the
\* ledger and the managed files are not part of it.
RestoreDump ==
  /\ Fault
  /\ dumps > 0
  /\ user' = dump.user /\ key' = dump.key /\ job' = dump.job /\ rows' = dump.rows
  /\ userLock' = None
  /\ req' = [r \in Requests |-> IF req[r] = "idle" THEN "idle" ELSE "done"]
  /\ seen' = [r \in Requests |-> NoCopy]
  /\ writer' = [i \in Items |-> "idle"]
  /\ beat' = "idle"
  /\ worker' = [w \in Workers |-> "idle"]
  /\ left' = [w \in Workers |-> 0]
  /\ apiUp' = FALSE
  /\ UNCHANGED << ledger, files, accepted, broker, dump, dumps >>

\* main.lifespan: the ledger is replayed before the API takes traffic.
Startup ==
  /\ ~apiUp
  /\ Reconcile
  /\ apiUp' = TRUE
  /\ UNCHANGED << ledger, files, userLock, senders, writer, broker, cleaners,
                  dump, bounds >>

(***************************************************************************)
(* Specification                                                           *)
(***************************************************************************)

\* An account in service: every row has its bytes; bytes without a row are
\* crash orphans or links found in the account's directories.
Init ==
  /\ ledger = {}
  /\ user = "enabled"
  /\ rows \in SUBSET Items
  /\ \E orphans \in SUBSET Legacy : files = rows \cup orphans
  /\ key = (rows \cap Assets # {})
  /\ job = NoJob
  /\ userLock = None
  /\ req = [r \in Requests |-> "idle"]
  /\ seen = [r \in Requests |-> NoCopy]
  /\ accepted = {}
  /\ writer = [i \in Items |-> "idle"]
  /\ beat = "idle"
  /\ broker = {}
  /\ worker = [w \in Workers |-> "idle"]
  /\ left = [w \in Workers |-> 0]
  /\ apiUp = TRUE
  /\ dump = [user |-> user, key |-> key, job |-> job, rows |-> rows]
  /\ dumps = 0
  /\ faults = 0

RequestStep(r) ==
  \/ LockAccount(r) \/ Refuse(r) \/ WriteMarker(r) \/ Commit(r)
  \/ ReconcileAfterFailure(r) \/ RequestPublish(r) \/ RequestRecord(r)

RequestFault(r) == MarkerFails(r) \/ CommitFails(r) \/ RequestCrash(r)

BeatStep == BeatReconcile \/ BeatPublish \/ BeatRecord

WorkerStep(w) ==
  \/ PurgeItem(w) \/ RetainLegacy(w) \/ EnterFinal(w) \/ Recount(w)
  \/ Finalize(w) \/ Stale(w) \/ BatchEnds(w)

WriterStep(i) == InitializeKey(i) \/ LockForWrite(i) \/ WriteBytes(i) \/ CommitRow(i)

Clock == QuiescenceEnds \/ AttemptBecomesDue \/ LeaseExpires

Next ==
  \/ \E r \in Requests : Authenticate(r) \/ RequestStep(r) \/ RequestFault(r)
  \/ BeatStep \/ BeatCrash
  \/ LoseMessage
  \/ \E w \in Workers : Deliver(w) \/ WorkerStep(w) \/ StepFails(w) \/ WorkerCrash(w)
  \/ \E i \in Items : WriterStarts(i) \/ WriterStep(i) \/ WriterCrash(i) \/ RetentionPurge(i)
  \/ Clock \/ LeaseOutrun
  \/ TakeDump \/ RestoreDump \/ Startup

Spec == Init /\ [][Next]_vars

(***************************************************************************)
(* Running code goes on running, the beat schedule fires, the broker       *)
(* delivers what it holds, clocks advance.  Whoever waits for the User row *)
(* lock gets it although others come and go (PostgreSQL queues the waiters *)
(* of a row), hence strong fairness where a step needs that lock.          *)
(***************************************************************************)
Fairness ==
  /\ \A r \in Requests : WF_vars(RequestStep(r))
  /\ SF_vars(BeatReconcile) /\ WF_vars(BeatPublish) /\ WF_vars(BeatRecord)
  /\ \A w \in Workers : WF_vars(Deliver(w)) /\ WF_vars(WorkerStep(w))
  /\ \A i \in Items : WF_vars(WriterStep(i))
  /\ WF_vars(QuiescenceEnds) /\ WF_vars(AttemptBecomesDue) /\ WF_vars(LeaseExpires)

(***************************************************************************)
(* Properties                                                              *)
(***************************************************************************)

RequestStates == {"idle", "authed", "locked", "marked", "reconcile",
                  "publish", "sent", "unsent", "done"}
WorkerStates == {"idle", "batch", "again", "final"}
WriterStates == {"idle", "started", "locked", "written"}

\* Every variable keeps its type; the model's own bounds are respected.
TypeOK ==
  /\ ledger \subseteq Requests
  /\ user \in {"enabled", "disabled", "gone"}
  /\ key \in BOOLEAN
  /\ job \in Jobs
  /\ rows \subseteq Items
  /\ files \subseteq Items
  /\ userLock \in Requests \cup Items \cup {None}
  /\ req \in [Requests -> RequestStates]
  /\ seen \in [Requests -> Copies]
  /\ accepted \subseteq Requests
  /\ writer \in [Items -> WriterStates]
  /\ beat \in {"idle", "publish", "sent", "unsent"}
  /\ broker \subseteq Requests
  /\ worker \in [Workers -> WorkerStates]
  /\ left \in [Workers -> 0..BatchSize]
  /\ apiUp \in BOOLEAN
  /\ dump \in [user : {"enabled", "disabled", "gone"}, key : BOOLEAN,
               job : Jobs, rows : SUBSET Items]
  /\ dumps \in Nat
  /\ faults \in Nat

\* The promise of deletion is on disk before anything of the account is
\* destroyed and before anybody is told it was accepted, and an archive that
\* holds the job cannot be older than its marker (write_suppression_marker
\* runs before the commit in delete_account).
PromiseComesFirst ==
  /\ user # "enabled" \/ job # NoJob => job.id \in ledger
  /\ dump.user # "enabled" \/ dump.job # NoJob => dump.job.id \in ledger
  /\ accepted # {} => ledger # {}

\* A job reports "completed" only when the user, the key, every catalog row
\* and every byte in the account's namespaces are gone, whatever crashed and
\* whoever was writing (the recount and the sweep under the User lock).
CompletedIsErased ==
  job.status = "completed" =>
    user = "gone" /\ ~key /\ rows = {} /\ files = {} /\ job.token = None

\* A job waiting for an operator keeps its disabled subject and something to
\* review: a retained row or file (the manual_review branches).
ReviewKeepsEvidence ==
  job.status = "manual_review" =>
    /\ user = "disabled"
    /\ (rows \cup files) \cap Legacy # {}

\* Once the user is locked out nothing of the account grows or comes back
\* except by restoring an archive: no row, no byte, no key, no login; and the
\* bytes of a legacy path are never unlinked (User lock and disabled_at check
\* of every writer against the deletion's steps).
NothingComesBack ==
  [][user # "enabled" /\ ~RestoreDump =>
       /\ rows' \subseteq rows /\ files' \subseteq files
       /\ key' => key
       /\ user' # "enabled"
       /\ files \cap Legacy \subseteq files']_vars

\* "A delayed worker or publish callback cannot reclaim or overwrite
\* manual_review" (docs/operations/account-deletion.md).  The code does not keep
\* it.
ReviewStays ==
  [][job.status = "manual_review" /\ ~RestoreDump => job'.status = "manual_review"]_vars

\* The two places that decide on a copy older than the row lock they hold.
StaleWrite == \/ \E r \in Requests : RequestRecord(r)
              \/ \E w \in Workers : BatchEnds(w)

\* Nothing but those two writes (and an archive) reopens a settled job or takes
\* a running job from the holder of its live lease: not the dispatcher, which
\* records a publication after the worker may have finished, not a duplicate or
\* late delivery, not a worker whose lease ran out (the guards of the claim, of
\* the publication record and of the fence).
OnlyStaleCopiesOverwrite ==
  [][~StaleWrite /\ ~RestoreDump =>
       /\ job.status \in {"manual_review", "completed"} => job'.status = job.status
       /\ job.status = "running" /\ job.live /\ job'.token # job.token =>
            worker'[job.token] # worker[job.token]]_vars

\* The whole machine implements the contract a deleted account relies on.
Contract == INSTANCE DeletionContract WITH
  promised <- ledger # {},
  open     <- user = "enabled",
  bytes    <- files,
  reported <- (job.status = "completed")
ContractIsKept == Contract!Spec

\* The account is erased, or its job waits for an operator.
Over == user = "gone" \/ job.status = "manual_review"

\* A durable marker leads to an account that is erased or under review for good,
\* through lost commits and messages, crashes, expired leases, late publish
\* callbacks and restored archives.
PromiseIsKept == (ledger # {}) ~> []Over

=============================================================================
