----------------------- MODULE AccountDeletionProofs -----------------------
(***************************************************************************)
(* Proofs about AccountDeletion, for every set of requests, workers,       *)
(* uploads and assets, every batch size and any number of faults.          *)
(***************************************************************************)
EXTENDS AccountDeletion, TLAPS

(***************************************************************************)
(* The inductive invariant, in five parts                                   *)
(***************************************************************************)

\* What the types alone do not say: a worker in its final step still has the
\* iteration it is in, and a job that does not exist has no fields.
Typing ==
  /\ TypeOK
  /\ \A w \in Workers : worker[w] = "final" => left[w] > 0
  /\ job.id = None => job = NoJob
  /\ dump.job.id = None => dump.job = NoJob

\* Nobody works on a job that does not exist.
Existing ==
  /\ beat # "idle" => job.id # None
  /\ \A r \in Requests : req[r] \in {"publish", "sent", "unsent"} => job.id # None
  /\ \A w \in Workers : worker[w] # "idle" => job.id # None

\* Who is past the User lock holds it; a writer saw an enabled user under it.
Locking ==
  /\ \A r \in Requests :
       req[r] \in {"locked", "marked"} => userLock = r /\ user # "gone"
  /\ \A i \in Items :
       writer[i] \in {"locked", "written"} => userLock = i /\ user = "enabled"

\* A request that has come so far has left a marker, or found one.
Marking ==
  /\ \A r \in Requests : req[r] = "marked" /\ user = "enabled" => r \in ledger
  /\ \A r \in Requests :
       req[r] \in {"marked", "reconcile", "publish", "sent", "unsent"} => ledger # {}
  /\ accepted # {} => ledger # {}

\* What holds of the committed rows, in the database and in any archive.
Recorded(u, k, j, catalog) ==
  /\ u = "enabled" <=> j.id = None
  /\ j.id = None => j = NoJob
  /\ j.id # None => j.id \in ledger /\ j.status # "absent"
  /\ j.status = "completed" => u = "gone"
  /\ u = "gone" => catalog = {} /\ ~k /\ j.status # "manual_review"
  /\ j.status \in {"manual_review", "completed"} => j.token = None
  /\ j.status = "manual_review" => (catalog \cup files) \cap Legacy # {}

\* The archive is never ahead of the database.
Recording ==
  /\ Recorded(user, key, job, rows)
  /\ Recorded(dump.user, dump.key, dump.job, dump.rows)
  /\ dump.user = "gone" => user = "gone"
  /\ user = "gone" => files = {}

IInv == Typing /\ Existing /\ Locking /\ Marking /\ Recording

\* A staged job is a job.
LEMMA StagedJob ==
  ASSUME NEW id \in Requests, NEW k \in BOOLEAN, Prepare(id, k)
  PROVE  job' \in Jobs /\ job'.id = id /\ id # None
  BY DeletionAssumption DEF Prepare, Jobs, Statuses, Claimable

\* The committed rows after a request has staged its deletion.
LEMMA StagedRows ==
  ASSUME TypeOK, NEW r \in Requests, Stage(r)
  PROVE  /\ job' \in Jobs /\ (job' = job \/ job'.id # None)
         /\ user' \in {"enabled", "disabled", "gone"} /\ key' \in BOOLEAN
         /\ rows' \subseteq Items
<1>1. CASE UNCHANGED db
  BY <1>1 DEF db, TypeOK
<1>2. CASE Prepare(r, seen[r].key)
  <2>1. seen[r].key \in BOOLEAN
    BY DEF TypeOK, Copies
  <2>. QED
    BY <1>2, <2>1, StagedJob DEF Prepare, TypeOK
<1>. QED
  BY <1>1, <1>2 DEF Stage

\* A request that ends keeps the types of what it touches.
LEMMA FinishTyped ==
  ASSUME TypeOK, NEW r \in Requests, NEW told \in SUBSET {r}, Finish(r, told)
  PROVE  /\ req' \in [Requests -> RequestStates] /\ seen' \in [Requests -> Copies]
         /\ accepted' \subseteq Requests
<1>1. NoCopy \in Copies
  BY DEF NoCopy, Copies, Statuses
<1>. QED
  BY <1>1 DEF TypeOK, Finish, RequestStates

\* The committed rows after a replay of the ledger.
LEMMA ReplayTyped ==
  ASSUME TypeOK, Reconcile
  PROVE  /\ job' \in Jobs /\ (job' = job \/ job'.id # None)
         /\ user' \in {"enabled", "disabled", "gone"} /\ key' \in BOOLEAN
         /\ rows' \subseteq Items
<1>1. CASE UNCHANGED db
  BY <1>1 DEF db, TypeOK
<1>2. CASE \E id \in ledger : Prepare(id, TRUE)
  BY <1>2, StagedJob DEF Prepare, TypeOK
<1>. QED
  BY <1>1, <1>2 DEF Reconcile

\* Settling a job or handing it back clears its lease and leaves its identity
\* alone.
LEMMA ReleasedJob ==
  ASSUME job \in Jobs, NEW s \in Statuses, NEW d \in BOOLEAN, Release(s, d)
  PROVE  /\ job' \in Jobs /\ job'.id = job.id /\ job'.calm = job.calm
         /\ job'.status = s /\ job'.token = None /\ ~job'.live
  BY DEF Release, Jobs

LEMMA ReleasedRunningJob ==
  ASSUME job \in Jobs, NEW s \in Statuses, NEW d \in BOOLEAN, ReleaseRunning(s, d)
  PROVE  /\ job' \in Jobs /\ job'.id = job.id /\ job'.calm = job.calm
         /\ \/ job' = job /\ job.status # "running"
            \/ job'.status = s /\ job'.token = None /\ ~job'.live
  BY ReleasedJob DEF ReleaseRunning

\* Handing back at the end of a batch.
LEMMA EndedJob ==
  ASSUME job \in Jobs, NEW w \in Workers, BatchEnds(w)
  PROVE  /\ job' \in Jobs /\ job'.id = job.id /\ job'.calm = job.calm
         /\ \/ job' = job /\ worker[w] # "batch"
            \/ /\ worker[w] = "batch" \/ (job.status = "running" /\ job.token = w)
               /\ job'.status = "pending" /\ job'.token = None /\ ~job'.live
<1>1. CASE worker[w] = "batch" \/ (job.status = "running" /\ job.token = w)
  <2>1. Release("pending", TRUE) /\ "pending" \in Statuses
    BY <1>1 DEF BatchEnds, Statuses, Claimable
  <2>. QED
    BY <1>1, <2>1, ReleasedJob
<1>2. CASE ~(worker[w] = "batch" \/ (job.status = "running" /\ job.token = w))
  BY <1>2 DEF BatchEnds
<1>. QED
  BY <1>1, <1>2

\* Recording a publication leaves a job alone that is running or settled.
LEMMA RecordedJob ==
  ASSUME job \in Jobs, BeatRecord
  PROVE  /\ job' \in Jobs /\ job'.id = job.id /\ job'.calm = job.calm
         /\ \/ job' = job
            \/ /\ job'.status \in {"queued", "retry"} /\ job'.token = None /\ ~job'.live
               /\ job.status \in {"pending", "queued", "retry"}
<1> DEFINE s == IF beat = "sent" THEN "queued" ELSE "retry"
<1>1. CASE job.status \in {"pending", "queued", "retry"}
  <2>1. job' = [job EXCEPT !.status = s, !.token = None, !.live = FALSE, !.due = FALSE]
    BY <1>1 DEF BeatRecord, RecordPublish
  <2>2. s \in {"queued", "retry"} /\ s \in Statuses
    BY DEF Statuses, Claimable
  <2> HIDE DEF s
  <2>. QED
    BY <1>1, <2>1, <2>2 DEF Jobs
<1>2. CASE job.status \notin {"pending", "queued", "retry"}
  BY <1>2 DEF BeatRecord, RecordPublish
<1>. QED
  BY <1>1, <1>2

\* So does recording by a request, except for what its copy does not show.
LEMMA RecordedSeenJob ==
  ASSUME job \in Jobs, NEW r \in Requests, RecordSeen(r, req[r] = "sent")
  PROVE  /\ job' \in Jobs /\ job'.id = job.id
         /\ job'.live => job.live
         /\ job'.token \in {None, job.token}
         /\ job'.status \in {"queued", "retry", job.status}
         /\ job'.calm = job.calm
<1>1. CASE UNCHANGED job
  BY <1>1 DEF Jobs
<1>2. CASE job' # job
  <2> DEFINE new    == IF req[r] = "sent" THEN "queued" ELSE "retry"
             leased == job.id = r \/ seen[r].token # None
  <2>1. job' = [job EXCEPT !.status = IF seen[r].status = new THEN @ ELSE new,
                           !.token  = IF leased THEN None ELSE @,
                           !.live   = IF leased THEN FALSE ELSE @,
                           !.due    = FALSE]
    BY <1>2 DEF RecordSeen
  <2>2. new \in {"queued", "retry"} /\ new \in Statuses
    BY DEF Statuses, Claimable
  <2> HIDE DEF new, leased
  <2>. QED
    BY <2>1, <2>2 DEF Jobs
<1>. QED
  BY <1>1, <1>2

\* A restored archive stops every process.
AllQuiet ==
  /\ beat = "idle"
  /\ \A r \in Requests : req[r] \in {"idle", "done"}
  /\ \A w \in Workers : worker[w] = "idle"

\* The job keeps its type; only a restored archive or nothing at all can take
\* its identity away.
LEMMA JobTyped ==
  ASSUME Typing, Existing, [Next]_vars
  PROVE  /\ job' \in Jobs
         /\ job.id # None /\ job'.id = None => AllQuiet'
         /\ job'.id = None => job' = NoJob
<1>0. /\ job \in Jobs /\ (job.id = None => job = NoJob) /\ TypeOK
      /\ None \notin broker /\ None \notin Requests
      /\ Existing
  BY DeletionAssumption DEF Typing, TypeOK
<1> DEFINE Goal == /\ job' \in Jobs
                   /\ job.id # None /\ job'.id = None => AllQuiet'
                   /\ job'.id = None => job' = NoJob
<1>1. ASSUME NEW r \in Requests, Commit(r) PROVE Goal
  BY <1>0, <1>1, StagedRows DEF Commit
<1>2. ASSUME NEW r \in Requests, CommitFails(r) PROVE Goal
  BY <1>0, <1>2, StagedRows DEF CommitFails, db
<1>3. ASSUME NEW r \in Requests, ReconcileAfterFailure(r) PROVE Goal
  BY <1>0, <1>3, ReplayTyped DEF ReconcileAfterFailure, Finish, db
<1>4. ASSUME NEW r \in Requests, RequestRecord(r) PROVE Goal
  <2>1. CASE UNCHANGED job
    BY <1>0, <1>4, <2>1 DEF RequestRecord
  <2>2. CASE RecordSeen(r, req[r] = "sent")
    <3>1. job' \in Jobs /\ job'.id = job.id
      BY <1>0, <2>2, RecordedSeenJob
    <3>2. job.id # None
      BY <1>4 DEF RequestRecord, Existing
    <3>. QED
      BY <1>0, <1>4, <3>1, <3>2 DEF RequestRecord
  <2>. QED
    BY <1>4, <2>1, <2>2 DEF RequestRecord
<1>5. ASSUME BeatReconcile PROVE Goal
  BY <1>0, <1>5, ReplayTyped DEF BeatReconcile, db
<1>6. ASSUME BeatRecord PROVE Goal
  <2>1. job.id # None
    BY <1>6 DEF BeatRecord, Existing
  <2>2. job' \in Jobs /\ job'.id = job.id
    BY <1>0, <1>6, RecordedJob
  <2>. QED
    BY <1>0, <1>6, <2>1, <2>2 DEF BeatRecord
<1>7. ASSUME NEW w \in Workers, Deliver(w) PROVE Goal
  <2>1. \/ job' = job
        \/ /\ job' = [job EXCEPT !.status = "running", !.token = w, !.live = TRUE]
           /\ job.id # None
    BY <1>0, <1>7 DEF Deliver, CanClaim
  <2>2. CASE job' = job
    BY <1>0, <2>2, <1>7
  <2>3. CASE /\ job' = [job EXCEPT !.status = "running", !.token = w, !.live = TRUE]
             /\ job.id # None
    <3>1. job' \in Jobs /\ job'.id = job.id
      BY <1>0, <2>3 DEF Jobs, Statuses, Claimable
    <3>. QED
      BY <2>3, <3>1
  <2>. QED
    BY <2>1, <2>2, <2>3
<1>8. ASSUME NEW w \in Workers, PurgeItem(w) PROVE Goal
  BY <1>0, <1>8 DEF PurgeItem, StepInBatch, Fenced, Jobs
<1>9. ASSUME NEW w \in Workers, RetainLegacy(w) PROVE Goal
  BY <1>0, <1>9, ReleasedRunningJob DEF RetainLegacy, Fenced, StepInBatch, Jobs,
     Statuses
<1>10. ASSUME NEW w \in Workers, Finalize(w) PROVE Goal
  <2>1. \/ Release("completed", TRUE)
        \/ Release("manual_review", job.due)
    BY <1>10 DEF Finalize
  <2>2. {"completed", "manual_review"} \subseteq Statuses /\ job.due \in BOOLEAN
    BY <1>0 DEF Statuses, Jobs
  <2>3. job' \in Jobs /\ job'.id = job.id
    BY <1>0, <2>1, <2>2, ReleasedJob
  <2>. QED
    BY <1>0, <1>10, <2>3 DEF Finalize, Fenced
<1>11. ASSUME NEW w \in Workers, BatchEnds(w) PROVE Goal
  BY <1>0, <1>11, EndedJob DEF BatchEnds, InBatch, Existing
<1>12. ASSUME NEW w \in Workers, StepFails(w) PROVE Goal
  BY <1>0, <1>12, ReleasedRunningJob DEF StepFails, Fenced, Statuses, Claimable
<1>13. ASSUME QuiescenceEnds PROVE Goal
  BY <1>0, <1>13 DEF QuiescenceEnds, Jobs
<1>14. ASSUME AttemptBecomesDue PROVE Goal
  <2>1. job.id # None
    BY <1>0, <1>14 DEF AttemptBecomesDue, NoJob, Claimable
  <2>. QED
    BY <1>0, <1>14, <2>1 DEF AttemptBecomesDue, Jobs
<1>15. ASSUME LeaseExpires PROVE Goal
  <2>1. job.id # None
    BY <1>0, <1>15 DEF LeaseExpires, NoJob
  <2>. QED
    BY <1>0, <1>15, <2>1 DEF LeaseExpires, Jobs
<1>16. ASSUME LeaseOutrun PROVE Goal
  <2>1. job.id # None
    BY <1>0, <1>16 DEF LeaseOutrun, NoJob
  <2>. QED
    BY <1>0, <1>16, <2>1 DEF LeaseOutrun, Jobs
<1>17. ASSUME RestoreDump PROVE Goal
  BY <1>17 DEF RestoreDump, Typing, TypeOK, AllQuiet
<1>18. ASSUME Startup PROVE Goal
  BY <1>0, <1>18, ReplayTyped DEF Startup, db
<1>19. CASE UNCHANGED job
  BY <1>0, <1>19
<1>. QED
  BY <1>1, <1>2, <1>3, <1>4, <1>5, <1>6, <1>7, <1>8, <1>9, <1>10, <1>11, <1>12,
     <1>13, <1>14, <1>15, <1>16, <1>17, <1>18, <1>19
     DEF Next, RequestStep, RequestFault, BeatStep, WorkerStep, WriterStep,
         Clock, vars, db,
         Authenticate, LockAccount, Refuse, WriteMarker, MarkerFails,
         RequestPublish, RequestCrash, BeatPublish, BeatCrash, LoseMessage,
         EnterFinal, Recount, Stale, WorkerCrash, WriterStarts, InitializeKey,
         LockForWrite, WriteBytes, CommitRow, WriterCrash, RetentionPurge, TakeDump

LEMMA TypingStep == Typing /\ Existing /\ [Next]_vars => Typing'
<1> SUFFICES ASSUME Typing, Existing, [Next]_vars PROVE Typing'
  OBVIOUS
<1>0. /\ job' \in Jobs
      /\ job'.id = None => job' = NoJob
      /\ job.id \in Requests \cup {None}
  BY JobTyped DEF Typing, TypeOK, Jobs
<1> USE DeletionAssumption DEF Typing, TypeOK, RequestStates, WorkerStates,
        WriterStates, Copies, NoCopy, Items, db, requests, senders, cleaners,
        bounds
<1>1. ASSUME NEW r \in Requests, Authenticate(r) PROVE Typing'
  BY <1>0, <1>1 DEF Authenticate
<1>2. ASSUME NEW r \in Requests, LockAccount(r) PROVE Typing'
  <2>1. /\ req' \in [Requests -> RequestStates] /\ seen' \in [Requests -> Copies]
        /\ accepted' \subseteq Requests
    <3>1. CASE user = "gone"
      BY <1>2, <3>1, FinishTyped DEF LockAccount
    <3>2. CASE user # "gone"
      <4>1. job.status \in Statuses /\ job.token \in Workers \cup {None}
        BY DEF Jobs
      <4>2. PICK k \in KeyCopies(r) :
              seen' = [seen EXCEPT ![r] = [key |-> k, status |-> job.status, token |-> job.token]]
        BY <1>2, <3>2 DEF LockAccount
      <4>3. k \in BOOLEAN
        BY <4>2 DEF KeyCopies
      <4>4. [key |-> k, status |-> job.status, token |-> job.token] \in Copies
        BY <4>1, <4>3 DEF Copies
      <4>5. seen' \in [Requests -> Copies]
        <5>. HIDE DEF Copies
        <5>. QED
          BY <4>2, <4>4
      <4>. QED
        BY <1>2, <3>2, <4>5 DEF LockAccount
    <3>. QED
      BY <3>1, <3>2
  <2>2. userLock' \in Requests \cup Items \cup {None}
    BY <1>2 DEF LockAccount
  <2>. QED
    BY <1>0, <1>2, <2>1, <2>2 DEF LockAccount
<1>3. ASSUME NEW r \in Requests, Refuse(r) PROVE Typing'
  BY <1>0, <1>3, FinishTyped DEF Refuse
<1>4. ASSUME NEW r \in Requests, WriteMarker(r) PROVE Typing'
  <2>1. MarkerId(r) \in Requests
    BY <1>0 DEF MarkerId
  <2>. QED
    BY <1>0, <1>4, <2>1 DEF WriteMarker
<1>5. ASSUME NEW r \in Requests, MarkerFails(r) PROVE Typing'
  <2>1. /\ req' \in [Requests -> RequestStates] /\ seen' \in [Requests -> Copies]
        /\ accepted' \subseteq Requests
    BY <1>5, FinishTyped DEF MarkerFails
  <2>2. MarkerId(r) \in Requests
    BY <1>0 DEF MarkerId
  <2>3. ledger' \subseteq Requests /\ faults' \in Nat
    BY <1>0, <1>5, <2>2 DEF MarkerFails, Fault
  <2>. QED
    BY <1>0, <1>5, <2>1, <2>3 DEF MarkerFails
<1>6. ASSUME NEW r \in Requests, Commit(r) PROVE Typing'
  <2>1. seen' \in [Requests -> Copies]
    BY <1>6 DEF Commit, Staged, Statuses, Claimable
  <2>. QED
    BY <1>0, <1>6, <2>1, StagedRows DEF Commit
<1>7. ASSUME NEW r \in Requests, CommitFails(r) PROVE Typing'
  <2>1. /\ user' \in {"enabled", "disabled", "gone"}
        /\ key' \in BOOLEAN /\ rows' \subseteq Items
    BY <1>7, StagedRows DEF CommitFails
  <2>. QED
    BY <1>0, <1>7, <2>1 DEF CommitFails, Fault
<1>8. ASSUME NEW r \in Requests, ReconcileAfterFailure(r) PROVE Typing'
  BY <1>0, <1>8, ReplayTyped, FinishTyped DEF ReconcileAfterFailure
<1>9. ASSUME NEW r \in Requests, RequestPublish(r) PROVE Typing'
  <2>1. job.id \in Requests
    BY <1>0, <1>9 DEF RequestPublish, Existing
  <2>. QED
    BY <1>0, <1>9, <2>1 DEF RequestPublish, Fault
<1>10. ASSUME NEW r \in Requests, RequestRecord(r) PROVE Typing'
  BY <1>0, <1>10, FinishTyped DEF RequestRecord, Fault
<1>11. ASSUME NEW r \in Requests, RequestCrash(r) PROVE Typing'
  BY <1>0, <1>11, FinishTyped DEF RequestCrash, Fault
<1>12. ASSUME BeatReconcile PROVE Typing'
  <2>1. /\ user' \in {"enabled", "disabled", "gone"}
        /\ key' \in BOOLEAN /\ rows' \subseteq Items
    BY <1>12, ReplayTyped DEF BeatReconcile
  <2>2. beat' \in {"idle", "publish"} \/ beat' = beat
    BY <1>12 DEF BeatReconcile
  <2>. QED
    BY <1>0, <1>12, <2>1, <2>2 DEF BeatReconcile
<1>13. ASSUME BeatPublish PROVE Typing'
  <2>1. job.id \in Requests
    BY <1>0, <1>13 DEF BeatPublish, Existing
  <2>. QED
    BY <1>0, <1>13, <2>1 DEF BeatPublish, Fault
<1>14. ASSUME BeatRecord PROVE Typing'
  BY <1>0, <1>14 DEF BeatRecord
<1>15. ASSUME BeatCrash PROVE Typing'
  BY <1>0, <1>15 DEF BeatCrash, Fault
<1>16. ASSUME LoseMessage PROVE Typing'
  BY <1>0, <1>16 DEF LoseMessage, Fault
<1>17. ASSUME NEW w \in Workers, Deliver(w) PROVE Typing'
  BY <1>0, <1>17 DEF Deliver
<1>18. ASSUME NEW w \in Workers, PurgeItem(w) PROVE Typing'
  BY <1>0, <1>18 DEF PurgeItem, StepInBatch, InBatch, Fenced, NextRows
<1>19. ASSUME NEW w \in Workers, RetainLegacy(w) PROVE Typing'
  BY <1>0, <1>19 DEF RetainLegacy, StepInBatch, InBatch, Fenced, NextRows, GiveUp
<1>20. ASSUME NEW w \in Workers, EnterFinal(w) PROVE Typing'
  BY <1>0, <1>20 DEF EnterFinal, StepInBatch, InBatch, Fenced, Fault
<1>21. ASSUME NEW w \in Workers, Recount(w) PROVE Typing'
  BY <1>0, <1>21 DEF Recount, Fenced
<1>22. ASSUME NEW w \in Workers, Finalize(w) PROVE Typing'
  <2>1. /\ user' \in {"enabled", "disabled", "gone"}
        /\ key' \in BOOLEAN /\ rows' \subseteq Items /\ files' \subseteq Items
    BY <1>22 DEF Finalize
  <2>. QED
    BY <1>0, <1>22, <2>1 DEF Finalize, GiveUp
<1>23. ASSUME NEW w \in Workers, Stale(w) PROVE Typing'
  BY <1>0, <1>23 DEF Stale, InBatch, Fenced, GiveUp
<1>24. ASSUME NEW w \in Workers, BatchEnds(w) PROVE Typing'
  BY <1>0, <1>24 DEF BatchEnds, InBatch, GiveUp
<1>25. ASSUME NEW w \in Workers, StepFails(w) PROVE Typing'
  BY <1>0, <1>25 DEF StepFails, StepInBatch, InBatch, Fenced, Fault,
     PartialUnlinks,
     NextRows, GiveUp
<1>26. ASSUME NEW w \in Workers, WorkerCrash(w) PROVE Typing'
  BY <1>0, <1>26 DEF WorkerCrash, StepInBatch, InBatch, Fenced, Fault,
     PartialUnlinks,
     NextRows, GiveUp
<1>27. ASSUME NEW i \in Items, WriterStarts(i) PROVE Typing'
  BY <1>0, <1>27 DEF WriterStarts, Admits
<1>28. ASSUME NEW i \in Items, InitializeKey(i) PROVE Typing'
  BY <1>0, <1>28 DEF InitializeKey
<1>29. ASSUME NEW i \in Items, LockForWrite(i) PROVE Typing'
  BY <1>0, <1>29 DEF LockForWrite
<1>30. ASSUME NEW i \in Items, WriteBytes(i) PROVE Typing'
  BY <1>0, <1>30 DEF WriteBytes
<1>31. ASSUME NEW i \in Items, CommitRow(i) PROVE Typing'
  BY <1>0, <1>31 DEF CommitRow
<1>32. ASSUME NEW i \in Items, WriterCrash(i) PROVE Typing'
  BY <1>0, <1>32 DEF WriterCrash, Fault
<1>33. ASSUME QuiescenceEnds PROVE Typing'
  BY <1>0, <1>33 DEF QuiescenceEnds
<1>34. ASSUME AttemptBecomesDue PROVE Typing'
  BY <1>0, <1>34 DEF AttemptBecomesDue
<1>35. ASSUME LeaseExpires PROVE Typing'
  BY <1>0, <1>35 DEF LeaseExpires
<1>36. ASSUME LeaseOutrun PROVE Typing'
  BY <1>0, <1>36 DEF LeaseOutrun, Fault
<1>37. ASSUME TakeDump PROVE Typing'
  BY <1>0, <1>37 DEF TakeDump
<1>38. ASSUME RestoreDump PROVE Typing'
  <2>1. /\ user' \in {"enabled", "disabled", "gone"}
        /\ key' \in BOOLEAN /\ rows' \subseteq Items
    BY <1>38 DEF RestoreDump
  <2>2. req' \in [Requests -> {"idle", "done"}]
    BY <1>38 DEF RestoreDump
  <2>3. /\ worker' \in [Workers -> {"idle"}] /\ left' \in [Workers -> {0}]
        /\ writer' \in [Items -> {"idle"}]
    BY <1>38 DEF RestoreDump
  <2>4. req' \in [Requests -> RequestStates] /\ seen' \in [Requests -> Copies]
    BY <1>38, <2>2 DEF RestoreDump, RequestStates, Copies, NoCopy, Statuses
  <2>5. \A w \in Workers : worker'[w] = "idle"
    BY <2>3
  <2>6. /\ worker' \in [Workers -> {"idle", "batch", "final"}]
        /\ left' \in [Workers -> 0..BatchSize]
        /\ writer' \in [Items -> WriterStates]
    BY <2>3 DEF WriterStates
  <2>7. userLock' \in Requests \cup Items \cup {None} /\ beat' = "idle" /\ apiUp' = FALSE
        /\ faults' \in Nat /\ job' = dump.job
    BY <1>38 DEF RestoreDump, Fault
  <2>. QED
    BY <1>0, <1>38, <2>1, <2>4, <2>5, <2>6, <2>7 DEF RestoreDump
<1>39. ASSUME Startup PROVE Typing'
  BY <1>0, <1>39, ReplayTyped DEF Startup
<1>40. CASE UNCHANGED vars
  BY <1>40 DEF vars
<1>41. ASSUME NEW i \in Items, RetentionPurge(i) PROVE Typing'
  BY <1>0, <1>41 DEF RetentionPurge, Fault
<1>. QED
  BY <1>1, <1>2, <1>3, <1>4, <1>5, <1>6, <1>7, <1>8, <1>9, <1>10, <1>11, <1>12,
     <1>13, <1>14, <1>15, <1>16, <1>17, <1>18, <1>19, <1>20, <1>21, <1>22,
     <1>23, <1>24, <1>25, <1>26, <1>27, <1>28, <1>29, <1>30, <1>31, <1>32,
     <1>33, <1>34, <1>35, <1>36, <1>37, <1>38, <1>39, <1>40, <1>41
     DEF Next, RequestStep, RequestFault, BeatStep, WorkerStep, WriterStep, Clock

LEMMA ExistingStep == Typing /\ Existing /\ [Next]_vars => Existing'
<1> SUFFICES ASSUME Typing, Existing, [Next]_vars PROVE Existing'
  OBVIOUS
<1>0. /\ job.id # None /\ job'.id = None => AllQuiet'
      /\ req \in [Requests -> RequestStates] /\ worker \in [Workers -> WorkerStates]
  BY JobTyped DEF Typing, TypeOK
<1> USE DEF Existing, AllQuiet, requests, senders, cleaners, bounds
<1>1. ASSUME NEW r \in Requests, Authenticate(r) PROVE Existing'
  BY <1>0, <1>1 DEF Authenticate
<1>2. ASSUME NEW r \in Requests, LockAccount(r) PROVE Existing'
  BY <1>0, <1>2 DEF LockAccount, Finish
<1>3. ASSUME NEW r \in Requests, Refuse(r) PROVE Existing'
  BY <1>0, <1>3 DEF Refuse, Finish
<1>4. ASSUME NEW r \in Requests, WriteMarker(r) PROVE Existing'
  BY <1>0, <1>4 DEF WriteMarker
<1>5. ASSUME NEW r \in Requests, MarkerFails(r) PROVE Existing'
  BY <1>0, <1>5 DEF MarkerFails, Finish
<1>6. ASSUME NEW r \in Requests, Commit(r) PROVE Existing'
  <2>1. job'.id # None
    <3>1. None \notin Requests /\ (job.id = None => job = NoJob)
      BY DeletionAssumption DEF Typing
    <3>2. CASE job = NoJob
      BY <1>6, <3>1, <3>2 DEF Commit, Stage, Prepare
    <3>3. CASE job # NoJob
      BY <1>6, <3>1, <3>3 DEF Commit, Stage, db
    <3>. QED
      BY <3>2, <3>3
  <2>. QED
    BY <1>0, <1>6, <2>1 DEF Commit
<1>7. ASSUME NEW r \in Requests, CommitFails(r) PROVE Existing'
  BY <1>0, <1>7 DEF CommitFails
<1>8. ASSUME NEW r \in Requests, ReconcileAfterFailure(r) PROVE Existing'
  BY <1>0, <1>8 DEF ReconcileAfterFailure, Finish
<1>9. ASSUME NEW r \in Requests, RequestPublish(r) PROVE Existing'
  BY <1>0, <1>9 DEF RequestPublish
<1>10. ASSUME NEW r \in Requests, RequestRecord(r) PROVE Existing'
  BY <1>0, <1>10 DEF RequestRecord, Finish
<1>11. ASSUME NEW r \in Requests, RequestCrash(r) PROVE Existing'
  BY <1>0, <1>11 DEF RequestCrash, Finish
<1>12. ASSUME BeatReconcile PROVE Existing'
  <2>1. job'.id = None => ~IsDue(job')
    BY <1>12, JobTyped DEF IsDue, Claimable, NoJob
  <2>2. beat' # beat => IsDue(job')
    BY <1>12 DEF BeatReconcile
  <2>. QED
    BY <1>0, <1>12, <2>1, <2>2 DEF BeatReconcile
<1>13. ASSUME BeatPublish PROVE Existing'
  BY <1>0, <1>13 DEF BeatPublish
<1>14. ASSUME BeatRecord PROVE Existing'
  BY <1>0, <1>14 DEF BeatRecord
<1>15. ASSUME BeatCrash PROVE Existing'
  BY <1>0, <1>15 DEF BeatCrash
<1>16. ASSUME LoseMessage PROVE Existing'
  BY <1>0, <1>16 DEF LoseMessage
<1>17. ASSUME NEW w \in Workers, Deliver(w) PROVE Existing'
  <2>1. None \notin broker
    BY DeletionAssumption DEF Typing, TypeOK
  <2>. QED
    BY <1>0, <1>17, <2>1 DEF Deliver, CanClaim
<1>18. ASSUME NEW w \in Workers, PurgeItem(w) PROVE Existing'
  BY <1>0, <1>18 DEF PurgeItem, StepInBatch, InBatch
<1>19. ASSUME NEW w \in Workers, RetainLegacy(w) PROVE Existing'
  BY <1>0, <1>19 DEF RetainLegacy, StepInBatch, InBatch, GiveUp
<1>20. ASSUME NEW w \in Workers, EnterFinal(w) PROVE Existing'
  BY <1>0, <1>20 DEF EnterFinal, StepInBatch, InBatch
<1>21. ASSUME NEW w \in Workers, Recount(w) PROVE Existing'
  BY <1>0, <1>21 DEF Recount
<1>22. ASSUME NEW w \in Workers, Finalize(w) PROVE Existing'
  BY <1>0, <1>22 DEF Finalize, GiveUp
<1>23. ASSUME NEW w \in Workers, Stale(w) PROVE Existing'
  BY <1>0, <1>23 DEF Stale, GiveUp, InBatch
<1>24. ASSUME NEW w \in Workers, BatchEnds(w) PROVE Existing'
  BY <1>0, <1>24 DEF BatchEnds, GiveUp, InBatch
<1>25. ASSUME NEW w \in Workers, StepFails(w) PROVE Existing'
  BY <1>0, <1>25 DEF StepFails, StepInBatch, InBatch, GiveUp
<1>26. ASSUME NEW w \in Workers, WorkerCrash(w) PROVE Existing'
  BY <1>0, <1>26 DEF WorkerCrash, StepInBatch, InBatch, GiveUp
<1>27. ASSUME NEW i \in Items, WriterStarts(i) PROVE Existing'
  BY <1>0, <1>27 DEF WriterStarts
<1>28. ASSUME NEW i \in Items, InitializeKey(i) PROVE Existing'
  BY <1>0, <1>28 DEF InitializeKey
<1>29. ASSUME NEW i \in Items, LockForWrite(i) PROVE Existing'
  BY <1>0, <1>29 DEF LockForWrite
<1>30. ASSUME NEW i \in Items, WriteBytes(i) PROVE Existing'
  BY <1>0, <1>30 DEF WriteBytes
<1>31. ASSUME NEW i \in Items, CommitRow(i) PROVE Existing'
  BY <1>0, <1>31 DEF CommitRow
<1>32. ASSUME NEW i \in Items, WriterCrash(i) PROVE Existing'
  BY <1>0, <1>32 DEF WriterCrash
<1>33. ASSUME QuiescenceEnds PROVE Existing'
  BY <1>0, <1>33 DEF QuiescenceEnds
<1>34. ASSUME AttemptBecomesDue PROVE Existing'
  BY <1>0, <1>34 DEF AttemptBecomesDue
<1>35. ASSUME LeaseExpires PROVE Existing'
  BY <1>0, <1>35 DEF LeaseExpires
<1>36. ASSUME LeaseOutrun PROVE Existing'
  BY <1>0, <1>36 DEF LeaseOutrun
<1>37. ASSUME TakeDump PROVE Existing'
  BY <1>0, <1>37 DEF TakeDump
<1>38. ASSUME RestoreDump PROVE Existing'
  BY <1>0, <1>38 DEF RestoreDump
<1>39. ASSUME Startup PROVE Existing'
  BY <1>0, <1>39 DEF Startup
<1>40. CASE UNCHANGED vars
  BY <1>0, <1>40 DEF vars
<1>41. ASSUME NEW i \in Items, RetentionPurge(i) PROVE Existing'
  BY <1>0, <1>41 DEF RetentionPurge, Fault
<1>. QED
  BY <1>1, <1>2, <1>3, <1>4, <1>5, <1>6, <1>7, <1>8, <1>9, <1>10, <1>11, <1>12,
     <1>13, <1>14, <1>15, <1>16, <1>17, <1>18, <1>19, <1>20, <1>21, <1>22,
     <1>23, <1>24, <1>25, <1>26, <1>27, <1>28, <1>29, <1>30, <1>31, <1>32,
     <1>33, <1>34, <1>35, <1>36, <1>37, <1>38, <1>39, <1>40, <1>41
     DEF Next, RequestStep, RequestFault, BeatStep, WorkerStep, WriterStep, Clock

LEMMA LockingStep == Typing /\ Locking /\ [Next]_vars => Locking'
<1> SUFFICES ASSUME Typing, Locking, [Next]_vars PROVE Locking'
  OBVIOUS
<1>0. /\ req \in [Requests -> RequestStates] /\ writer \in [Items -> WriterStates]
      /\ Requests \cap Items = {} /\ None \notin Requests \cup Items
  BY DeletionAssumption DEF Typing, TypeOK, Items
<1> USE DEF Locking, db, requests, senders, cleaners, bounds
<1>1. ASSUME NEW r \in Requests, Authenticate(r) PROVE Locking'
  BY <1>0, <1>1 DEF Authenticate
<1>2. ASSUME NEW r \in Requests, LockAccount(r) PROVE Locking'
  BY <1>0, <1>2 DEF LockAccount, Finish
<1>3. ASSUME NEW r \in Requests, Refuse(r) PROVE Locking'
  BY <1>0, <1>3 DEF Refuse, Finish
<1>4. ASSUME NEW r \in Requests, WriteMarker(r) PROVE Locking'
  BY <1>0, <1>4 DEF WriteMarker
<1>5. ASSUME NEW r \in Requests, MarkerFails(r) PROVE Locking'
  BY <1>0, <1>5 DEF MarkerFails, Finish
<1>6. ASSUME NEW r \in Requests, Commit(r) PROVE Locking'
  BY <1>0, <1>6 DEF Commit, Stage, Prepare
<1>7. ASSUME NEW r \in Requests, CommitFails(r) PROVE Locking'
  BY <1>0, <1>7 DEF CommitFails, Stage, Prepare
<1>8. ASSUME NEW r \in Requests, ReconcileAfterFailure(r) PROVE Locking'
  BY <1>0, <1>8 DEF ReconcileAfterFailure, Finish, Reconcile, Prepare
<1>9. ASSUME NEW r \in Requests, RequestPublish(r) PROVE Locking'
  BY <1>0, <1>9 DEF RequestPublish
<1>10. ASSUME NEW r \in Requests, RequestRecord(r) PROVE Locking'
  BY <1>0, <1>10 DEF RequestRecord, Finish
<1>11. ASSUME NEW r \in Requests, RequestCrash(r) PROVE Locking'
  BY <1>0, <1>11 DEF RequestCrash, Finish
<1>12. ASSUME BeatReconcile PROVE Locking'
  BY <1>0, <1>12 DEF BeatReconcile, Reconcile, Prepare
<1>13. ASSUME BeatPublish PROVE Locking'
  BY <1>0, <1>13 DEF BeatPublish
<1>14. ASSUME BeatRecord PROVE Locking'
  BY <1>0, <1>14 DEF BeatRecord
<1>15. ASSUME BeatCrash PROVE Locking'
  BY <1>0, <1>15 DEF BeatCrash
<1>16. ASSUME LoseMessage PROVE Locking'
  BY <1>0, <1>16 DEF LoseMessage
<1>17. ASSUME NEW w \in Workers, Deliver(w) PROVE Locking'
  BY <1>0, <1>17 DEF Deliver
<1>18. ASSUME NEW w \in Workers, PurgeItem(w) PROVE Locking'
  BY <1>0, <1>18 DEF PurgeItem
<1>19. ASSUME NEW w \in Workers, RetainLegacy(w) PROVE Locking'
  BY <1>0, <1>19 DEF RetainLegacy
<1>20. ASSUME NEW w \in Workers, EnterFinal(w) PROVE Locking'
  BY <1>0, <1>20 DEF EnterFinal
<1>21. ASSUME NEW w \in Workers, Recount(w) PROVE Locking'
  BY <1>0, <1>21 DEF Recount
<1>22. ASSUME NEW w \in Workers, Finalize(w) PROVE Locking'
  BY <1>0, <1>22 DEF Finalize
<1>23. ASSUME NEW w \in Workers, Stale(w) PROVE Locking'
  BY <1>0, <1>23 DEF Stale, InBatch
<1>24. ASSUME NEW w \in Workers, BatchEnds(w) PROVE Locking'
  BY <1>0, <1>24 DEF BatchEnds, InBatch
<1>25. ASSUME NEW w \in Workers, StepFails(w) PROVE Locking'
  BY <1>0, <1>25 DEF StepFails
<1>26. ASSUME NEW w \in Workers, WorkerCrash(w) PROVE Locking'
  BY <1>0, <1>26 DEF WorkerCrash
<1>27. ASSUME NEW i \in Items, WriterStarts(i) PROVE Locking'
  BY <1>0, <1>27 DEF WriterStarts
<1>28. ASSUME NEW i \in Items, InitializeKey(i) PROVE Locking'
  BY <1>0, <1>28 DEF InitializeKey
<1>29. ASSUME NEW i \in Items, LockForWrite(i) PROVE Locking'
  BY <1>0, <1>29 DEF LockForWrite
<1>30. ASSUME NEW i \in Items, WriteBytes(i) PROVE Locking'
  BY <1>0, <1>30 DEF WriteBytes
<1>31. ASSUME NEW i \in Items, CommitRow(i) PROVE Locking'
  BY <1>0, <1>31 DEF CommitRow
<1>32. ASSUME NEW i \in Items, WriterCrash(i) PROVE Locking'
  BY <1>0, <1>32 DEF WriterCrash
<1>33. ASSUME QuiescenceEnds PROVE Locking'
  BY <1>0, <1>33 DEF QuiescenceEnds
<1>34. ASSUME AttemptBecomesDue PROVE Locking'
  BY <1>0, <1>34 DEF AttemptBecomesDue
<1>35. ASSUME LeaseExpires PROVE Locking'
  BY <1>0, <1>35 DEF LeaseExpires
<1>36. ASSUME LeaseOutrun PROVE Locking'
  BY <1>0, <1>36 DEF LeaseOutrun
<1>37. ASSUME TakeDump PROVE Locking'
  BY <1>0, <1>37 DEF TakeDump
<1>38. ASSUME RestoreDump PROVE Locking'
  BY <1>0, <1>38 DEF RestoreDump
<1>39. ASSUME Startup PROVE Locking'
  BY <1>0, <1>39 DEF Startup, Reconcile, Prepare
<1>40. CASE UNCHANGED vars
  BY <1>0, <1>40 DEF vars
<1>41. ASSUME NEW i \in Items, RetentionPurge(i) PROVE Locking'
  BY <1>0, <1>41 DEF RetentionPurge, Fault
<1>. QED
  BY <1>1, <1>2, <1>3, <1>4, <1>5, <1>6, <1>7, <1>8, <1>9, <1>10, <1>11, <1>12,
     <1>13, <1>14, <1>15, <1>16, <1>17, <1>18, <1>19, <1>20, <1>21, <1>22,
     <1>23, <1>24, <1>25, <1>26, <1>27, <1>28, <1>29, <1>30, <1>31, <1>32,
     <1>33, <1>34, <1>35, <1>36, <1>37, <1>38, <1>39, <1>40, <1>41
     DEF Next, RequestStep, RequestFault, BeatStep, WorkerStep, WriterStep, Clock

LEMMA MarkingStep == Typing /\ Marking /\ Recording /\ [Next]_vars => Marking'
<1> SUFFICES ASSUME Typing, Marking, Recording, [Next]_vars PROVE Marking'
  OBVIOUS
<1>0. /\ req \in [Requests -> RequestStates] /\ accepted \subseteq Requests
      /\ user = "enabled" => job = NoJob
  BY DEF Typing, TypeOK, Recording, Recorded
<1> USE DEF Marking, db, requests, senders, cleaners, bounds
<1>1. ASSUME NEW r \in Requests, Authenticate(r) PROVE Marking'
  BY <1>0, <1>1 DEF Authenticate
<1>2. ASSUME NEW r \in Requests, LockAccount(r) PROVE Marking'
  BY <1>0, <1>2 DEF LockAccount, Finish
<1>3. ASSUME NEW r \in Requests, Refuse(r) PROVE Marking'
  BY <1>0, <1>3 DEF Refuse, Finish
<1>4. ASSUME NEW r \in Requests, WriteMarker(r) PROVE Marking'
  BY <1>0, <1>4 DEF WriteMarker, MarkerId
<1>5. ASSUME NEW r \in Requests, MarkerFails(r) PROVE Marking'
  BY <1>0, <1>5 DEF MarkerFails, Finish, MarkerId
<1>6. ASSUME NEW r \in Requests, Commit(r) PROVE Marking'
  BY <1>0, <1>6 DEF Commit, Stage, Prepare
<1>7. ASSUME NEW r \in Requests, CommitFails(r) PROVE Marking'
  BY <1>0, <1>7 DEF CommitFails, Stage, Prepare
<1>8. ASSUME NEW r \in Requests, ReconcileAfterFailure(r) PROVE Marking'
  BY <1>0, <1>8 DEF ReconcileAfterFailure, Finish, Reconcile, Prepare
<1>9. ASSUME NEW r \in Requests, RequestPublish(r) PROVE Marking'
  BY <1>0, <1>9 DEF RequestPublish
<1>10. ASSUME NEW r \in Requests, RequestRecord(r) PROVE Marking'
  BY <1>0, <1>10 DEF RequestRecord, Finish
<1>11. ASSUME NEW r \in Requests, RequestCrash(r) PROVE Marking'
  BY <1>0, <1>11 DEF RequestCrash, Finish
<1>12. ASSUME BeatReconcile PROVE Marking'
  BY <1>0, <1>12 DEF BeatReconcile, Reconcile, Prepare
<1>13. ASSUME BeatPublish PROVE Marking'
  BY <1>0, <1>13 DEF BeatPublish
<1>14. ASSUME BeatRecord PROVE Marking'
  BY <1>0, <1>14 DEF BeatRecord
<1>15. ASSUME BeatCrash PROVE Marking'
  BY <1>0, <1>15 DEF BeatCrash
<1>16. ASSUME LoseMessage PROVE Marking'
  BY <1>0, <1>16 DEF LoseMessage
<1>17. ASSUME NEW w \in Workers, Deliver(w) PROVE Marking'
  BY <1>0, <1>17 DEF Deliver
<1>18. ASSUME NEW w \in Workers, PurgeItem(w) PROVE Marking'
  BY <1>0, <1>18 DEF PurgeItem
<1>19. ASSUME NEW w \in Workers, RetainLegacy(w) PROVE Marking'
  BY <1>0, <1>19 DEF RetainLegacy
<1>20. ASSUME NEW w \in Workers, EnterFinal(w) PROVE Marking'
  BY <1>0, <1>20 DEF EnterFinal
<1>21. ASSUME NEW w \in Workers, Recount(w) PROVE Marking'
  BY <1>0, <1>21 DEF Recount
<1>22. ASSUME NEW w \in Workers, Finalize(w) PROVE Marking'
  BY <1>0, <1>22 DEF Finalize
<1>23. ASSUME NEW w \in Workers, Stale(w) PROVE Marking'
  BY <1>0, <1>23 DEF Stale
<1>24. ASSUME NEW w \in Workers, BatchEnds(w) PROVE Marking'
  BY <1>0, <1>24 DEF BatchEnds
<1>25. ASSUME NEW w \in Workers, StepFails(w) PROVE Marking'
  BY <1>0, <1>25 DEF StepFails
<1>26. ASSUME NEW w \in Workers, WorkerCrash(w) PROVE Marking'
  BY <1>0, <1>26 DEF WorkerCrash
<1>27. ASSUME NEW i \in Items, WriterStarts(i) PROVE Marking'
  BY <1>0, <1>27 DEF WriterStarts
<1>28. ASSUME NEW i \in Items, InitializeKey(i) PROVE Marking'
  BY <1>0, <1>28 DEF InitializeKey
<1>29. ASSUME NEW i \in Items, LockForWrite(i) PROVE Marking'
  BY <1>0, <1>29 DEF LockForWrite
<1>30. ASSUME NEW i \in Items, WriteBytes(i) PROVE Marking'
  BY <1>0, <1>30 DEF WriteBytes
<1>31. ASSUME NEW i \in Items, CommitRow(i) PROVE Marking'
  BY <1>0, <1>31 DEF CommitRow
<1>32. ASSUME NEW i \in Items, WriterCrash(i) PROVE Marking'
  BY <1>0, <1>32 DEF WriterCrash
<1>33. ASSUME QuiescenceEnds PROVE Marking'
  BY <1>0, <1>33 DEF QuiescenceEnds
<1>34. ASSUME AttemptBecomesDue PROVE Marking'
  BY <1>0, <1>34 DEF AttemptBecomesDue
<1>35. ASSUME LeaseExpires PROVE Marking'
  BY <1>0, <1>35 DEF LeaseExpires
<1>36. ASSUME LeaseOutrun PROVE Marking'
  BY <1>0, <1>36 DEF LeaseOutrun
<1>37. ASSUME TakeDump PROVE Marking'
  BY <1>0, <1>37 DEF TakeDump
<1>38. ASSUME RestoreDump PROVE Marking'
  BY <1>0, <1>38 DEF RestoreDump
<1>39. ASSUME Startup PROVE Marking'
  BY <1>0, <1>39 DEF Startup, Reconcile, Prepare
<1>40. CASE UNCHANGED vars
  BY <1>0, <1>40 DEF vars
<1>41. ASSUME NEW i \in Items, RetentionPurge(i) PROVE Marking'
  BY <1>0, <1>41 DEF RetentionPurge, Fault
<1>. QED
  BY <1>1, <1>2, <1>3, <1>4, <1>5, <1>6, <1>7, <1>8, <1>9, <1>10, <1>11, <1>12,
     <1>13, <1>14, <1>15, <1>16, <1>17, <1>18, <1>19, <1>20, <1>21, <1>22,
     <1>23, <1>24, <1>25, <1>26, <1>27, <1>28, <1>29, <1>30, <1>31, <1>32,
     <1>33, <1>34, <1>35, <1>36, <1>37, <1>38, <1>39, <1>40, <1>41
     DEF Next, RequestStep, RequestFault, BeatStep, WorkerStep, WriterStep, Clock

LEMMA RecordingStep ==
  Typing /\ Existing /\ Locking /\ Marking /\ Recording /\ [Next]_vars => Recording'
<1> SUFFICES ASSUME Typing, Existing, Locking, Marking, Recording, [Next]_vars PROVE Recording'
  OBVIOUS
<1>0. /\ job \in Jobs /\ dump.job \in Jobs /\ ledger \subseteq Requests
      /\ None \notin Requests /\ None \notin Workers
  BY DeletionAssumption DEF Typing, TypeOK, Items
<1> USE DEF Recording, Recorded, db, requests, senders, cleaners, bounds
<1>1. ASSUME NEW r \in Requests, Authenticate(r) PROVE Recording'
  BY <1>0, <1>1 DEF Authenticate
<1>2. ASSUME NEW r \in Requests, LockAccount(r) PROVE Recording'
  BY <1>0, <1>2 DEF LockAccount, Finish
<1>3. ASSUME NEW r \in Requests, Refuse(r) PROVE Recording'
  BY <1>0, <1>3 DEF Refuse, Finish
<1>4. ASSUME NEW r \in Requests, WriteMarker(r) PROVE Recording'
  BY <1>0, <1>4 DEF WriteMarker
<1>5. ASSUME NEW r \in Requests, MarkerFails(r) PROVE Recording'
  BY <1>0, <1>5 DEF MarkerFails, Finish
<1>6. ASSUME NEW r \in Requests, Commit(r) PROVE Recording'
  <2>1. CASE UNCHANGED db
    BY <1>0, <1>6, <2>1 DEF Commit
  <2>2. CASE job = NoJob /\ Prepare(r, seen[r].key)
    <3>1. r \in ledger /\ user = "enabled"
      BY <1>6, <2>2 DEF Commit, Marking, NoJob
    <3>. QED
      BY <1>0, <1>6, <2>2, <3>1 DEF Commit, Prepare, NoJob
  <2>. QED
    BY <1>6, <2>1, <2>2 DEF Commit, Stage
<1>7. ASSUME NEW r \in Requests, CommitFails(r) PROVE Recording'
  <2>1. CASE UNCHANGED db
    BY <1>0, <1>7, <2>1 DEF CommitFails
  <2>2. CASE job = NoJob /\ Prepare(r, seen[r].key)
    <3>1. r \in ledger /\ user = "enabled"
      BY <1>7, <2>2 DEF CommitFails, Marking, NoJob
    <3>. QED
      BY <1>0, <1>7, <2>2, <3>1 DEF CommitFails, Prepare, NoJob
  <2>. QED
    BY <1>7, <2>1, <2>2 DEF CommitFails, Stage
<1>8. ASSUME NEW r \in Requests, ReconcileAfterFailure(r) PROVE Recording'
  BY <1>0, <1>8 DEF ReconcileAfterFailure, Finish, Reconcile, Prepare,
     LedgerReadable,
     Jobs, NoJob, Claimable, Statuses
<1>9. ASSUME NEW r \in Requests, RequestPublish(r) PROVE Recording'
  BY <1>0, <1>9 DEF RequestPublish
<1>10. ASSUME NEW r \in Requests, RequestRecord(r) PROVE Recording'
  <2>1. CASE UNCHANGED job
    BY <1>0, <1>10, <2>1 DEF RequestRecord
  <2>2. CASE RecordSeen(r, req[r] = "sent")
    <3>1. /\ job'.id = job.id /\ job'.token \in {None, job.token}
          /\ job'.status \in {"queued", "retry", job.status}
      BY <1>0, <2>2, RecordedSeenJob
    <3>2. job.id # None
      BY <1>10 DEF RequestRecord, Existing
    <3>. QED
      BY <1>0, <1>10, <3>1, <3>2 DEF RequestRecord
  <2>. QED
    BY <1>10, <2>1, <2>2 DEF RequestRecord
<1>11. ASSUME NEW r \in Requests, RequestCrash(r) PROVE Recording'
  BY <1>0, <1>11 DEF RequestCrash, Finish
<1>12. ASSUME BeatReconcile PROVE Recording'
  BY <1>0, <1>12 DEF BeatReconcile, Reconcile, Prepare, LedgerReadable, IsDue,
     Jobs, NoJob, Claimable, Statuses
<1>13. ASSUME BeatPublish PROVE Recording'
  BY <1>0, <1>13 DEF BeatPublish
<1>14. ASSUME BeatRecord PROVE Recording'
  <2>1. job.id # None
    BY <1>14 DEF Existing, BeatRecord
  <2>2. \/ job' = job
        \/ job'.id = job.id /\ job'.status \in {"queued", "retry"} /\ job'.token = None
    BY <1>0, <1>14, RecordedJob DEF BeatRecord
  <2>. QED
    BY <1>0, <1>14, <2>1, <2>2 DEF BeatRecord
<1>15. ASSUME BeatCrash PROVE Recording'
  BY <1>0, <1>15 DEF BeatCrash
<1>16. ASSUME LoseMessage PROVE Recording'
  BY <1>0, <1>16 DEF LoseMessage
<1>17. ASSUME NEW w \in Workers, Deliver(w) PROVE Recording'
  <2>1. \/ job' = job
        \/ /\ job' = [id |-> job.id, status |-> "running", token |-> w, live |-> TRUE,
                       due |-> job.due, calm |-> job.calm]
           /\ job.status \in Claimable
    BY <1>0, <1>17 DEF Deliver, CanClaim, Jobs
  <2>2. job.status \in Claimable => job.id # None /\ job.status # "completed"
    BY DEF Claimable, NoJob
  <2>3. UNCHANGED << ledger, user, key, rows, files, dump >>
    BY <1>17 DEF Deliver
  <2>4. CASE job' = job
    BY <2>3, <2>4
  <2>5. CASE job' # job
    BY <2>1, <2>2, <2>3, <2>5
  <2>. QED
    BY <2>4, <2>5
<1>18. ASSUME NEW w \in Workers, PurgeItem(w) PROVE Recording'
  BY <1>0, <1>18 DEF PurgeItem, StepInBatch, InBatch, Fenced, NextRows, Jobs,
     NoJob,
     Claimable, Statuses
<1>19. ASSUME NEW w \in Workers, RetainLegacy(w) PROVE Recording'
  <2>1. job.id # None /\ user # "gone" /\ user # "enabled" /\ rows \cap Legacy # {}
    BY <1>19 DEF RetainLegacy, StepInBatch, Fenced, NextRows
  <2>2. \/ job' = job
        \/ job'.id = job.id /\ job'.status = "manual_review" /\ job'.token = None
    BY <1>0, <1>19, ReleasedRunningJob DEF RetainLegacy, Jobs, Statuses
  <2>. QED
    BY <1>0, <1>19, <2>1, <2>2 DEF RetainLegacy
<1>20. ASSUME NEW w \in Workers, EnterFinal(w) PROVE Recording'
  BY <1>0, <1>20 DEF EnterFinal, StepInBatch, InBatch, Fenced
<1>21. ASSUME NEW w \in Workers, Recount(w) PROVE Recording'
  BY <1>0, <1>21 DEF Recount, Fenced
<1>22. ASSUME NEW w \in Workers, Finalize(w) PROVE Recording'
  <2>1. job.id # None /\ rows = {} /\ user # "gone" /\ job.id \in ledger
    BY <1>22 DEF Finalize, Fenced
  <2>2. CASE files' = {}
    <3>1. Release("completed", TRUE) /\ "completed" \in Statuses
      BY <1>22, <2>2 DEF Finalize, Statuses
    <3>2. job'.id = job.id /\ job'.status = "completed" /\ job'.token = None
      BY <1>0, <3>1, ReleasedJob
    <3>. QED
      <4>1. /\ UNCHANGED << dump, ledger, rows >>
            /\ files' \cap Legacy = files \cap Legacy
            /\ user' = "gone" /\ key' = FALSE
        BY <1>22, <2>2 DEF Finalize
      <4>2. Recorded(user, key, job, rows)'
        BY <2>1, <3>2, <4>1
      <4>3. Recorded(dump.user, dump.key, dump.job, dump.rows)'
        BY <4>1
      <4>. QED
        BY <2>2, <4>1, <4>2, <4>3
  <2>3. CASE files' # {}
    <3>1. Release("manual_review", job.due) /\ "manual_review" \in Statuses
          /\ job.due \in BOOLEAN
      BY <1>0, <1>22, <2>3 DEF Finalize, Statuses, Jobs
    <3>2. job'.id = job.id /\ job'.status = "manual_review" /\ job'.token = None
      BY <1>0, <3>1, ReleasedJob
    <3>. QED
      BY <1>0, <1>22, <2>1, <2>3, <3>2 DEF Finalize
  <2>. QED
    BY <2>2, <2>3
<1>23. ASSUME NEW w \in Workers, Stale(w) PROVE Recording'
  BY <1>0, <1>23 DEF Stale, InBatch, Fenced, GiveUp
<1>24. ASSUME NEW w \in Workers, BatchEnds(w) PROVE Recording'
  <2>1. job.id # None
    BY <1>24 DEF Existing, BatchEnds, InBatch
  <2>2. \/ job' = job
        \/ job'.id = job.id /\ job'.status = "pending" /\ job'.token = None
    BY <1>0, <1>24, EndedJob
  <2>. QED
    BY <1>0, <1>24, <2>1, <2>2 DEF BatchEnds
<1>25. ASSUME NEW w \in Workers, StepFails(w) PROVE Recording'
  <2>1. job.id # None /\ user # "gone" /\ user # "enabled"
    BY <1>25 DEF StepFails, Fenced
  <2>2. \/ job' = job
        \/ job'.id = job.id /\ job'.status = "retry" /\ job'.token = None
    <3>1. ReleaseRunning("retry", FALSE) /\ "retry" \in Statuses
      BY <1>25 DEF StepFails, Statuses, Claimable
    <3>. QED
      BY <1>0, <3>1, ReleasedRunningJob
  <2>3. files' \subseteq files /\ files \cap Legacy \subseteq files'
    BY <1>25 DEF StepFails, PartialUnlinks, NextRows
  <2>. QED
    BY <1>0, <1>25, <2>1, <2>2, <2>3 DEF StepFails
<1>26. ASSUME NEW w \in Workers, WorkerCrash(w) PROVE Recording'
  BY <1>0, <1>26 DEF WorkerCrash, StepInBatch, InBatch, Fenced, PartialUnlinks,
     NextRows, GiveUp
<1>27. ASSUME NEW i \in Items, WriterStarts(i) PROVE Recording'
  BY <1>0, <1>27 DEF WriterStarts, Admits
<1>28. ASSUME NEW i \in Items, InitializeKey(i) PROVE Recording'
  BY <1>0, <1>28 DEF InitializeKey
<1>29. ASSUME NEW i \in Items, LockForWrite(i) PROVE Recording'
  BY <1>0, <1>29 DEF LockForWrite
<1>30. ASSUME NEW i \in Items, WriteBytes(i) PROVE Recording'
  BY <1>0, <1>30 DEF WriteBytes, Locking
<1>31. ASSUME NEW i \in Items, CommitRow(i) PROVE Recording'
  BY <1>0, <1>31 DEF CommitRow, Locking
<1>32. ASSUME NEW i \in Items, WriterCrash(i) PROVE Recording'
  BY <1>0, <1>32 DEF WriterCrash
<1>33. ASSUME QuiescenceEnds PROVE Recording'
  BY <1>0, <1>33 DEF QuiescenceEnds, Jobs, NoJob, Claimable, Statuses
<1>34. ASSUME AttemptBecomesDue PROVE Recording'
  BY <1>0, <1>34 DEF AttemptBecomesDue, Jobs, NoJob, Claimable, Statuses
<1>35. ASSUME LeaseExpires PROVE Recording'
  BY <1>0, <1>35 DEF LeaseExpires, Jobs, NoJob, Claimable, Statuses
<1>36. ASSUME LeaseOutrun PROVE Recording'
  BY <1>0, <1>36 DEF LeaseOutrun, Jobs, NoJob, Claimable, Statuses
<1>37. ASSUME TakeDump PROVE Recording'
  BY <1>0, <1>37 DEF TakeDump
<1>38. ASSUME RestoreDump PROVE Recording'
  BY <1>0, <1>38 DEF RestoreDump
<1>39. ASSUME Startup PROVE Recording'
  BY <1>0, <1>39 DEF Startup, Reconcile, Prepare, LedgerReadable, Jobs, NoJob,
     Claimable, Statuses
<1>40. CASE UNCHANGED vars
  BY <1>0, <1>40 DEF vars
<1>41. ASSUME NEW i \in Items, RetentionPurge(i) PROVE Recording'
  BY <1>0, <1>41 DEF RetentionPurge, Fault
<1>. QED
  BY <1>1, <1>2, <1>3, <1>4, <1>5, <1>6, <1>7, <1>8, <1>9, <1>10, <1>11, <1>12,
     <1>13, <1>14, <1>15, <1>16, <1>17, <1>18, <1>19, <1>20, <1>21, <1>22,
     <1>23, <1>24, <1>25, <1>26, <1>27, <1>28, <1>29, <1>30, <1>31, <1>32,
     <1>33, <1>34, <1>35, <1>36, <1>37, <1>38, <1>39, <1>40, <1>41
     DEF Next, RequestStep, RequestFault, BeatStep, WorkerStep, WriterStep, Clock

\* An account in service has no job, no marker and nobody in its way.
LEMMA InitialState == Init => IInv
<1> SUFFICES ASSUME Init PROVE IInv
  OBVIOUS
<1> USE DeletionAssumption DEF Init
<1>1. NoJob \in Jobs
  BY DEF NoJob, Jobs, Statuses
<1>2. Typing
  <2>1. NoCopy \in Copies
    BY DEF NoCopy, Copies, Statuses
  <2>2. seen \in [Requests -> Copies] /\ req \in [Requests -> RequestStates]
        /\ worker \in [Workers -> WorkerStates] /\ writer \in [Items -> WriterStates]
    BY <2>1 DEF RequestStates, WorkerStates, WriterStates
  <2>3. /\ rows \subseteq Items /\ files \subseteq Items
        /\ key \in BOOLEAN /\ left \in [Workers -> 0..BatchSize]
    BY DEF Items
  <2>4. dump \in [user : {"enabled", "disabled", "gone"}, key : BOOLEAN,
                   job : Jobs, rows : SUBSET Items]
    BY <1>1, <2>3
  <2>. QED
    BY <1>1, <2>2, <2>3, <2>4 DEF Typing, TypeOK, NoJob
<1>3. Locking
  BY DEF Locking
<1>4. Marking
  BY DEF Marking
<1>5. Recording
  BY DEF Recording, Recorded, NoJob
<1>6. Existing
  BY DEF Existing
<1>. QED
  BY <1>2, <1>3, <1>4, <1>5, <1>6 DEF IInv

(***************************************************************************)
(* The theorems                                                            *)
(***************************************************************************)

\* The inductive invariant holds in every reachable state: no interleaving of
\* requests, dispatcher, workers, writers, crashes and restored archives
\* breaks the locking, the order of marker and commit, or what rows record.
THEOREM Invariance == Spec => []IInv
<1>1. IInv /\ [Next]_vars => IInv'
  BY TypingStep, ExistingStep, LockingStep, MarkingStep, RecordingStep
     DEF IInv
<1>. QED
  BY InitialState, <1>1, PTL DEF Spec

\* Every variable keeps its type; in particular a batch never goes on past its
\* last iteration, and only existing jobs are published (the loop of
\* process_account_deletion_batch, dispatch_account_deletions).
THEOREM TypeCorrect == Spec => []TypeOK
<1>1. IInv => TypeOK
  BY DEF IInv, Typing
<1>. QED
  BY Invariance, <1>1, PTL

\* Nothing is committed, archived or answered before the marker is durable
\* (write_suppression_marker before the commit in delete_account).
THEOREM PromiseAlwaysFirst == Spec => []PromiseComesFirst
<1>1. IInv => PromiseComesFirst
  BY DEF IInv, Marking, Recording, Recorded, PromiseComesFirst, NoJob
<1>. QED
  BY Invariance, <1>1, PTL

\* A completed deletion has erased everything (the finalization under the User
\* lock in process_account_deletion_batch).
THEOREM CompletionErases == Spec => []CompletedIsErased
<1>1. IInv => CompletedIsErased
  BY DEF IInv, Recording, Recorded, CompletedIsErased, NoJob
<1>. QED
  BY Invariance, <1>1, PTL

\* A job in review has something to review (the manual_review branches of
\* process_account_deletion_batch).
THEOREM ReviewHasEvidence == Spec => []ReviewKeepsEvidence
<1>1. IInv => ReviewKeepsEvidence
  <2> SUFFICES ASSUME IInv PROVE ReviewKeepsEvidence
    OBVIOUS
  <2>1. user \in {"enabled", "disabled", "gone"}
    BY DEF IInv, Typing, TypeOK
  <2>. QED
    BY <2>1 DEF IInv, Recording, Recorded, ReviewKeepsEvidence, NoJob
<1>. QED
  BY Invariance, <1>1, PTL

LEMMA NothingComesBackStep ==
  ASSUME IInv, Next, user # "enabled", ~RestoreDump
  PROVE  /\ rows' \subseteq rows /\ files' \subseteq files /\ (key' => key)
         /\ user' # "enabled" /\ files \cap Legacy \subseteq files'
<1> DEFINE Goal == /\ rows' \subseteq rows /\ files' \subseteq files /\ (key' => key)
                   /\ user' # "enabled" /\ files \cap Legacy \subseteq files'
<1>0. user # "enabled"
  OBVIOUS
<1> USE DEF db, requests, senders, cleaners, bounds
<1>1. ASSUME NEW r \in Requests, Authenticate(r) PROVE Goal
  BY <1>0, <1>1 DEF Authenticate
<1>2. ASSUME NEW r \in Requests, LockAccount(r) PROVE Goal
  BY <1>0, <1>2 DEF LockAccount, Finish
<1>3. ASSUME NEW r \in Requests, Refuse(r) PROVE Goal
  BY <1>0, <1>3 DEF Refuse, Finish
<1>4. ASSUME NEW r \in Requests, WriteMarker(r) PROVE Goal
  BY <1>0, <1>4 DEF WriteMarker
<1>5. ASSUME NEW r \in Requests, MarkerFails(r) PROVE Goal
  BY <1>0, <1>5 DEF MarkerFails, Finish
<1>6. ASSUME NEW r \in Requests, Commit(r) PROVE Goal
  BY <1>0, <1>6 DEF Commit, Stage, Prepare
<1>7. ASSUME NEW r \in Requests, CommitFails(r) PROVE Goal
  <2>1. \/ UNCHANGED db
        \/ (key' => key) /\ user' = "disabled" /\ rows' = rows
    BY <1>7 DEF CommitFails, Stage, Prepare
  <2>. QED
    BY <1>0, <1>7, <2>1 DEF CommitFails
<1>8. ASSUME NEW r \in Requests, ReconcileAfterFailure(r) PROVE Goal
  <2>1. \/ UNCHANGED db
        \/ (key' => key) /\ user' = "disabled" /\ rows' = rows
    BY <1>8 DEF ReconcileAfterFailure, Reconcile, Prepare
  <2>. QED
    BY <1>0, <1>8, <2>1 DEF ReconcileAfterFailure
<1>9. ASSUME NEW r \in Requests, RequestPublish(r) PROVE Goal
  BY <1>0, <1>9 DEF RequestPublish
<1>10. ASSUME NEW r \in Requests, RequestRecord(r) PROVE Goal
  BY <1>0, <1>10 DEF RequestRecord, Finish
<1>11. ASSUME NEW r \in Requests, RequestCrash(r) PROVE Goal
  BY <1>0, <1>11 DEF RequestCrash, Finish
<1>12. ASSUME BeatReconcile PROVE Goal
  BY <1>0, <1>12 DEF BeatReconcile, Reconcile, Prepare, LedgerReadable, IsDue
<1>13. ASSUME BeatPublish PROVE Goal
  BY <1>0, <1>13 DEF BeatPublish
<1>14. ASSUME BeatRecord PROVE Goal
  BY <1>0, <1>14 DEF BeatRecord
<1>15. ASSUME BeatCrash PROVE Goal
  BY <1>0, <1>15 DEF BeatCrash
<1>16. ASSUME LoseMessage PROVE Goal
  BY <1>0, <1>16 DEF LoseMessage
<1>17. ASSUME NEW w \in Workers, Deliver(w) PROVE Goal
  BY <1>0, <1>17 DEF Deliver
<1>18. ASSUME NEW w \in Workers, PurgeItem(w) PROVE Goal
  BY <1>0, <1>18 DEF PurgeItem, StepInBatch, InBatch, NextRows
<1>19. ASSUME NEW w \in Workers, RetainLegacy(w) PROVE Goal
  BY <1>0, <1>19 DEF RetainLegacy, StepInBatch, InBatch, NextRows
<1>20. ASSUME NEW w \in Workers, EnterFinal(w) PROVE Goal
  BY <1>0, <1>20 DEF EnterFinal, StepInBatch, InBatch
<1>21. ASSUME NEW w \in Workers, Recount(w) PROVE Goal
  BY <1>0, <1>21 DEF Recount
<1>22. ASSUME NEW w \in Workers, Finalize(w) PROVE Goal
  BY <1>0, <1>22 DEF Finalize
<1>23. ASSUME NEW w \in Workers, Stale(w) PROVE Goal
  BY <1>0, <1>23 DEF Stale, InBatch
<1>24. ASSUME NEW w \in Workers, BatchEnds(w) PROVE Goal
  BY <1>0, <1>24 DEF BatchEnds, InBatch
<1>25. ASSUME NEW w \in Workers, StepFails(w) PROVE Goal
  BY <1>0, <1>25 DEF StepFails, StepInBatch, InBatch, PartialUnlinks, NextRows
<1>26. ASSUME NEW w \in Workers, WorkerCrash(w) PROVE Goal
  BY <1>0, <1>26 DEF WorkerCrash, StepInBatch, InBatch, PartialUnlinks, NextRows
<1>27. ASSUME NEW i \in Items, WriterStarts(i) PROVE Goal
  BY <1>0, <1>27 DEF WriterStarts, Admits
<1>28. ASSUME NEW i \in Items, InitializeKey(i) PROVE Goal
  BY <1>0, <1>28 DEF InitializeKey
<1>29. ASSUME NEW i \in Items, LockForWrite(i) PROVE Goal
  BY <1>0, <1>29 DEF LockForWrite
<1>30. ASSUME NEW i \in Items, WriteBytes(i) PROVE Goal
  BY <1>0, <1>30 DEF WriteBytes, IInv, Locking
<1>31. ASSUME NEW i \in Items, CommitRow(i) PROVE Goal
  BY <1>0, <1>31 DEF CommitRow, IInv, Locking
<1>32. ASSUME NEW i \in Items, WriterCrash(i) PROVE Goal
  BY <1>0, <1>32 DEF WriterCrash
<1>33. ASSUME QuiescenceEnds PROVE Goal
  BY <1>0, <1>33 DEF QuiescenceEnds
<1>34. ASSUME AttemptBecomesDue PROVE Goal
  BY <1>0, <1>34 DEF AttemptBecomesDue
<1>35. ASSUME LeaseExpires PROVE Goal
  BY <1>0, <1>35 DEF LeaseExpires
<1>36. ASSUME LeaseOutrun PROVE Goal
  BY <1>0, <1>36 DEF LeaseOutrun
<1>37. ASSUME TakeDump PROVE Goal
  BY <1>0, <1>37 DEF TakeDump
<1>38. ASSUME RestoreDump PROVE Goal
  BY <1>0, <1>38 DEF RestoreDump
<1>39. ASSUME Startup PROVE Goal
  BY <1>0, <1>39 DEF Startup, Reconcile, Prepare, LedgerReadable
<1>41. ASSUME NEW i \in Items, RetentionPurge(i) PROVE Goal
  BY <1>0, <1>41 DEF RetentionPurge, Fault
<1>. QED
  BY <1>1, <1>2, <1>3, <1>4, <1>5, <1>6, <1>7, <1>8, <1>9, <1>10, <1>11, <1>12,
     <1>13, <1>14, <1>15, <1>16, <1>17, <1>18, <1>19, <1>20, <1>21, <1>22,
     <1>23, <1>24, <1>25, <1>26, <1>27, <1>28, <1>29, <1>30, <1>31, <1>32,
     <1>33, <1>34, <1>35, <1>36, <1>37, <1>38, <1>39, <1>41
     DEF Next, RequestStep, RequestFault, BeatStep, WorkerStep, WriterStep, Clock

\* What a locked-out account loses stays lost (the User lock and disabled_at
\* check of create_upload, persist_managed_asset and active_asset_for_write).
THEOREM NothingEverComesBack == Spec => NothingComesBack
<1>1. IInv /\ [Next]_vars =>
        [user # "enabled" /\ ~RestoreDump =>
           /\ rows' \subseteq rows /\ files' \subseteq files
           /\ key' => key
           /\ user' # "enabled"
           /\ files \cap Legacy \subseteq files']_vars
  BY NothingComesBackStep
<1>. QED
  BY Invariance, <1>1, PTL DEF Spec, NothingComesBack

\* A settled job has no lease: nobody passes the fence, and nobody claims it.
LEMMA SettledStep ==
  ASSUME IInv, Next, ~StaleWrite, ~RestoreDump,
         job.status \in {"manual_review", "completed"}
  PROVE  job'.status = job.status
<1> DEFINE Goal == job'.status = job.status
<1>0. /\ job.status \in {"manual_review", "completed"}
      /\ job \in Jobs /\ job.token = None /\ job # NoJob
      /\ None \notin Workers
      /\ ~StaleWrite /\ ~RestoreDump
  BY DeletionAssumption DEF IInv, Typing, TypeOK, Recording, Recorded, NoJob
<1> USE DEF db
<1>1. ASSUME NEW r \in Requests, Commit(r) PROVE Goal
  BY <1>0, <1>1 DEF Commit, Stage
<1>2. ASSUME NEW r \in Requests, CommitFails(r) PROVE Goal
  BY <1>0, <1>2 DEF CommitFails, Stage
<1>3. ASSUME NEW r \in Requests, ReconcileAfterFailure(r) PROVE Goal
  BY <1>0, <1>3 DEF ReconcileAfterFailure, Reconcile
<1>4. ASSUME NEW r \in Requests, RequestRecord(r) PROVE Goal
  BY <1>0, <1>4 DEF StaleWrite
<1>5. ASSUME BeatReconcile PROVE Goal
  BY <1>0, <1>5 DEF BeatReconcile, Reconcile
<1>6. ASSUME BeatRecord PROVE Goal
  BY <1>0, <1>6, RecordedJob
<1>7. ASSUME NEW w \in Workers, Deliver(w) PROVE Goal
  BY <1>0, <1>7 DEF Deliver, CanClaim, Claimable, cleaners
<1>8. ASSUME NEW w \in Workers, PurgeItem(w) PROVE Goal
  BY <1>0, <1>8 DEF PurgeItem, StepInBatch, Fenced
<1>9. ASSUME NEW w \in Workers, RetainLegacy(w) PROVE Goal
  BY <1>0, <1>9 DEF RetainLegacy, StepInBatch, InBatch, Fenced, GiveUp
<1>10. ASSUME NEW w \in Workers, Finalize(w) PROVE Goal
  BY <1>0, <1>10 DEF Finalize, Fenced, GiveUp
<1>11. ASSUME NEW w \in Workers, BatchEnds(w) PROVE Goal
  BY <1>0, <1>11 DEF StaleWrite
<1>12. ASSUME NEW w \in Workers, StepFails(w) PROVE Goal
  BY <1>0, <1>12 DEF StepFails, StepInBatch, InBatch, Fenced, GiveUp
<1>13. ASSUME QuiescenceEnds PROVE Goal
  BY <1>0, <1>13 DEF QuiescenceEnds
<1>14. ASSUME AttemptBecomesDue PROVE Goal
  BY <1>0, <1>14 DEF AttemptBecomesDue
<1>15. ASSUME LeaseExpires PROVE Goal
  BY <1>0, <1>15 DEF LeaseExpires
<1>16. ASSUME LeaseOutrun PROVE Goal
  BY <1>0, <1>16 DEF LeaseOutrun
<1>17. ASSUME Startup PROVE Goal
  BY <1>0, <1>17 DEF Startup, Reconcile
<1>18. CASE UNCHANGED job
  BY <1>0, <1>18
<1>. QED
  BY <1>0, <1>1, <1>2, <1>3, <1>4, <1>5, <1>6, <1>7, <1>8, <1>9, <1>10, <1>11,
     <1>12, <1>13, <1>14, <1>15, <1>16, <1>17, <1>18
     DEF Next, RequestStep, RequestFault, BeatStep, WorkerStep, WriterStep,
         Clock, vars, db,
         Authenticate, LockAccount, Refuse, WriteMarker, MarkerFails,
         RequestPublish, RequestCrash, BeatPublish, BeatCrash, LoseMessage,
         EnterFinal, Recount, Stale, WorkerCrash, WriterStarts, InitializeKey,
         LockForWrite, WriteBytes, CommitRow, WriterCrash, RetentionPurge, TakeDump

\* A running job under a live lease is claimed by nobody else, and only its
\* holder passes the fence.
LEMMA LeaseStep ==
  ASSUME IInv, Next, ~StaleWrite, ~RestoreDump,
         job.status = "running", job.live, job'.token # job.token
  PROVE  worker'[job.token] # worker[job.token]
<1> DEFINE Goal == job'.token # job.token => worker'[job.token] # worker[job.token]
<1>0. /\ job.live /\ job.status = "running" /\ job # NoJob
      /\ job \in Jobs /\ worker \in [Workers -> WorkerStates]
      /\ None \notin Workers
      /\ ~StaleWrite /\ ~RestoreDump
  BY DeletionAssumption DEF IInv, Typing, TypeOK, NoJob
<1> USE DEF db
<1>1. ASSUME NEW r \in Requests, Commit(r) PROVE Goal
  BY <1>0, <1>1 DEF Commit, Stage
<1>2. ASSUME NEW r \in Requests, CommitFails(r) PROVE Goal
  BY <1>0, <1>2 DEF CommitFails, Stage
<1>3. ASSUME NEW r \in Requests, ReconcileAfterFailure(r) PROVE Goal
  BY <1>0, <1>3 DEF ReconcileAfterFailure, Reconcile
<1>4. ASSUME NEW r \in Requests, RequestRecord(r) PROVE Goal
  BY <1>0, <1>4 DEF StaleWrite
<1>5. ASSUME BeatReconcile PROVE Goal
  BY <1>0, <1>5 DEF BeatReconcile, Reconcile
<1>6. ASSUME BeatRecord PROVE Goal
  BY <1>0, <1>6, RecordedJob
<1>7. ASSUME NEW w \in Workers, Deliver(w) PROVE Goal
  BY <1>0, <1>7 DEF Deliver, CanClaim, Claimable, cleaners
<1>8. ASSUME NEW w \in Workers, PurgeItem(w) PROVE Goal
  BY <1>0, <1>8 DEF PurgeItem, StepInBatch, Fenced
<1>9. ASSUME NEW w \in Workers, RetainLegacy(w) PROVE Goal
  BY <1>0, <1>9 DEF RetainLegacy, StepInBatch, InBatch, Fenced, GiveUp
<1>10. ASSUME NEW w \in Workers, Finalize(w) PROVE Goal
  BY <1>0, <1>10 DEF Finalize, Fenced, GiveUp
<1>11. ASSUME NEW w \in Workers, BatchEnds(w) PROVE Goal
  BY <1>0, <1>11 DEF StaleWrite
<1>12. ASSUME NEW w \in Workers, StepFails(w) PROVE Goal
  BY <1>0, <1>12 DEF StepFails, StepInBatch, InBatch, Fenced, GiveUp
<1>13. ASSUME QuiescenceEnds PROVE Goal
  BY <1>0, <1>13 DEF QuiescenceEnds
<1>14. ASSUME AttemptBecomesDue PROVE Goal
  BY <1>0, <1>14 DEF AttemptBecomesDue
<1>15. ASSUME LeaseExpires PROVE Goal
  BY <1>0, <1>15 DEF LeaseExpires
<1>16. ASSUME LeaseOutrun PROVE Goal
  BY <1>0, <1>16 DEF LeaseOutrun
<1>17. ASSUME Startup PROVE Goal
  BY <1>0, <1>17 DEF Startup, Reconcile
<1>18. CASE UNCHANGED job
  BY <1>0, <1>18
<1>. QED
  BY <1>0, <1>1, <1>2, <1>3, <1>4, <1>5, <1>6, <1>7, <1>8, <1>9, <1>10, <1>11,
     <1>12, <1>13, <1>14, <1>15, <1>16, <1>17, <1>18
     DEF Next, RequestStep, RequestFault, BeatStep, WorkerStep, WriterStep,
         Clock, vars, db,
         Authenticate, LockAccount, Refuse, WriteMarker, MarkerFails,
         RequestPublish, RequestCrash, BeatPublish, BeatCrash, LoseMessage,
         EnterFinal, Recount, Stale, WorkerCrash, WriterStarts, InitializeKey,
         LockForWrite, WriteBytes, CommitRow, WriterCrash, RetentionPurge, TakeDump

\* Whoever is late, only a write decided on a stale copy reopens a settled job
\* or takes a running job from its holder: neither the dispatcher, nor a claim,
\* nor a worker behind the fence (claim_account_deletion_job,
\* record_account_deletion_publish by the dispatcher,
\* process_account_deletion_batch).
THEOREM OthersKeepTheirHandsOff == Spec => OnlyStaleCopiesOverwrite
<1>1. IInv /\ [Next]_vars =>
        [~StaleWrite /\ ~RestoreDump =>
           /\ job.status \in {"manual_review", "completed"} => job'.status = job.status
           /\ job.status = "running" /\ job.live /\ job'.token # job.token =>
                worker'[job.token] # worker[job.token]]_vars
  BY SettledStep, LeaseStep
<1>. QED
  BY Invariance, <1>1, PTL DEF Spec, OnlyStaleCopiesOverwrite

(***************************************************************************)
(* The machine implements the contract                                     *)
(***************************************************************************)

\* What a step does to the four things the contract speaks of.
Promised == ledger # {}
Open == user = "enabled"
Reported == job.status = "completed"

ContractStep ==
  \/ UNCHANGED << Promised, Open, files, Reported >>
  \/ ~Promised /\ Promised' /\ UNCHANGED << Open, files, Reported >>
  \/ Promised /\ Open /\ ~Open' /\ UNCHANGED << Promised, files, Reported >>
  \/ /\ Promised /\ ~Open /\ files' \subseteq files /\ (Reported' => files' = {})
     /\ UNCHANGED << Promised, Open >>
  \/ /\ Open /\ \E i \in Items : files' = files \cup {i}
     /\ UNCHANGED << Promised, Open, Reported >>
  \/ (~Open' => Promised) /\ (Reported' => Reported) /\ UNCHANGED << Promised, files >>

LEMMA EveryStepIsAContractStep == IInv /\ IInv' /\ [Next]_vars => ContractStep
<1> SUFFICES ASSUME IInv, IInv', [Next]_vars PROVE ContractStep
  OBVIOUS
<1>0. /\ job \in Jobs /\ None \notin Workers
      /\ Recording /\ Recording' /\ Marking /\ Locking /\ files \subseteq Items
  BY DeletionAssumption DEF IInv, Typing, TypeOK
<1> USE DEF ContractStep, Promised, Open, Reported, Recording, Recorded, Marking, Locking,
        db, requests, senders, cleaners, bounds, NoJob
<1>1. ASSUME NEW r \in Requests, Authenticate(r) PROVE ContractStep
  BY <1>0, <1>1 DEF Authenticate
<1>2. ASSUME NEW r \in Requests, LockAccount(r) PROVE ContractStep
  BY <1>0, <1>2 DEF LockAccount, Finish
<1>3. ASSUME NEW r \in Requests, Refuse(r) PROVE ContractStep
  BY <1>0, <1>3 DEF Refuse, Finish
<1>4. ASSUME NEW r \in Requests, WriteMarker(r) PROVE ContractStep
  BY <1>0, <1>4 DEF WriteMarker
<1>5. ASSUME NEW r \in Requests, MarkerFails(r) PROVE ContractStep
  BY <1>0, <1>5 DEF MarkerFails, Finish
<1>6. ASSUME NEW r \in Requests, Commit(r) PROVE ContractStep
  BY <1>0, <1>6 DEF Commit, Stage, Prepare, Jobs
<1>7. ASSUME NEW r \in Requests, CommitFails(r) PROVE ContractStep
  BY <1>0, <1>7 DEF CommitFails, Stage, Prepare, Jobs
<1>8. ASSUME NEW r \in Requests, ReconcileAfterFailure(r) PROVE ContractStep
  BY <1>0, <1>8 DEF ReconcileAfterFailure, Finish, Reconcile, Prepare, Jobs
<1>9. ASSUME NEW r \in Requests, RequestPublish(r) PROVE ContractStep
  BY <1>0, <1>9 DEF RequestPublish
<1>10. ASSUME NEW r \in Requests, RequestRecord(r) PROVE ContractStep
  BY <1>0, <1>10 DEF RequestRecord, Finish, RecordSeen, Jobs
<1>11. ASSUME NEW r \in Requests, RequestCrash(r) PROVE ContractStep
  BY <1>0, <1>11 DEF RequestCrash, Finish
<1>12. ASSUME BeatReconcile PROVE ContractStep
  BY <1>0, <1>12 DEF BeatReconcile, Reconcile, Prepare, Jobs
<1>13. ASSUME BeatPublish PROVE ContractStep
  BY <1>0, <1>13 DEF BeatPublish
<1>14. ASSUME BeatRecord PROVE ContractStep
  BY <1>0, <1>14 DEF BeatRecord, RecordPublish, Jobs
<1>15. ASSUME BeatCrash PROVE ContractStep
  BY <1>0, <1>15 DEF BeatCrash
<1>16. ASSUME LoseMessage PROVE ContractStep
  BY <1>0, <1>16 DEF LoseMessage
<1>17. ASSUME NEW w \in Workers, Deliver(w) PROVE ContractStep
  BY <1>0, <1>17 DEF Deliver, Jobs
<1>18. ASSUME NEW w \in Workers, PurgeItem(w) PROVE ContractStep
  BY <1>0, <1>18 DEF PurgeItem, StepInBatch, InBatch, Fenced, NextRows, Jobs
<1>19. ASSUME NEW w \in Workers, RetainLegacy(w) PROVE ContractStep
  BY <1>0, <1>19 DEF RetainLegacy, StepInBatch, InBatch, Fenced, NextRows,
     Release,
     GiveUp, Jobs
<1>20. ASSUME NEW w \in Workers, EnterFinal(w) PROVE ContractStep
  BY <1>0, <1>20 DEF EnterFinal, StepInBatch, InBatch, Fenced
<1>21. ASSUME NEW w \in Workers, Recount(w) PROVE ContractStep
  BY <1>0, <1>21 DEF Recount, Fenced
<1>22. ASSUME NEW w \in Workers, Finalize(w) PROVE ContractStep
  BY <1>0, <1>22 DEF Finalize, Fenced, Release, GiveUp, Jobs
<1>23. ASSUME NEW w \in Workers, Stale(w) PROVE ContractStep
  BY <1>0, <1>23 DEF Stale, InBatch, Fenced, GiveUp
<1>24. ASSUME NEW w \in Workers, BatchEnds(w) PROVE ContractStep
  BY <1>0, <1>24 DEF BatchEnds, InBatch, Release, GiveUp, Jobs
<1>25. ASSUME NEW w \in Workers, StepFails(w) PROVE ContractStep
  BY <1>0, <1>25 DEF StepFails, StepInBatch, InBatch, Fenced, PartialUnlinks,
     NextRows,
     Release, GiveUp, Jobs
<1>26. ASSUME NEW w \in Workers, WorkerCrash(w) PROVE ContractStep
  BY <1>0, <1>26 DEF WorkerCrash, StepInBatch, InBatch, Fenced, PartialUnlinks,
     NextRows, GiveUp
<1>27. ASSUME NEW i \in Items, WriterStarts(i) PROVE ContractStep
  BY <1>0, <1>27 DEF WriterStarts, Admits
<1>28. ASSUME NEW i \in Items, InitializeKey(i) PROVE ContractStep
  BY <1>0, <1>28 DEF InitializeKey
<1>29. ASSUME NEW i \in Items, LockForWrite(i) PROVE ContractStep
  BY <1>0, <1>29 DEF LockForWrite
<1>30. ASSUME NEW i \in Items, WriteBytes(i) PROVE ContractStep
  BY <1>0, <1>30 DEF WriteBytes
<1>31. ASSUME NEW i \in Items, CommitRow(i) PROVE ContractStep
  BY <1>0, <1>31 DEF CommitRow
<1>32. ASSUME NEW i \in Items, WriterCrash(i) PROVE ContractStep
  BY <1>0, <1>32 DEF WriterCrash
<1>33. ASSUME QuiescenceEnds PROVE ContractStep
  BY <1>0, <1>33 DEF QuiescenceEnds, Jobs
<1>34. ASSUME AttemptBecomesDue PROVE ContractStep
  BY <1>0, <1>34 DEF AttemptBecomesDue, Jobs
<1>35. ASSUME LeaseExpires PROVE ContractStep
  BY <1>0, <1>35 DEF LeaseExpires, Jobs
<1>36. ASSUME LeaseOutrun PROVE ContractStep
  BY <1>0, <1>36 DEF LeaseOutrun, Jobs
<1>37. ASSUME TakeDump PROVE ContractStep
  BY <1>0, <1>37 DEF TakeDump
<1>38. ASSUME RestoreDump PROVE ContractStep
  BY <1>0, <1>38 DEF RestoreDump, Jobs
<1>39. ASSUME Startup PROVE ContractStep
  BY <1>0, <1>39 DEF Startup, Reconcile, Prepare, Jobs
<1>40. CASE UNCHANGED vars
  BY <1>40 DEF vars
<1>41. ASSUME NEW i \in Items, RetentionPurge(i) PROVE ContractStep
  BY <1>0, <1>41 DEF RetentionPurge, Fault
<1>. QED
  BY <1>1, <1>2, <1>3, <1>4, <1>5, <1>6, <1>7, <1>8, <1>9, <1>10, <1>11, <1>12,
     <1>13, <1>14, <1>15, <1>16, <1>17, <1>18, <1>19, <1>20, <1>21, <1>22,
     <1>23, <1>24, <1>25, <1>26, <1>27, <1>28, <1>29, <1>30, <1>31, <1>32,
     <1>33, <1>34, <1>35, <1>36, <1>37, <1>38, <1>39, <1>40, <1>41
     DEF Next, RequestStep, RequestFault, BeatStep, WorkerStep, WriterStep, Clock

LEMMA ContractStepIsNext == ContractStep /\ IInv => [Contract!Next]_(Contract!contract)
<1> SUFFICES ASSUME ContractStep, IInv PROVE [Contract!Next]_(Contract!contract)
  OBVIOUS
<1> USE DEF Promised, Open, Reported, Contract!contract
<1>1. CASE UNCHANGED << Promised, Open, files, Reported >>
  BY <1>1
<1>2. CASE ~Promised /\ Promised' /\ UNCHANGED << Open, files, Reported >>
  BY <1>2 DEF Contract!Next, Contract!Promise
<1>3. CASE Promised /\ Open /\ ~Open' /\ UNCHANGED << Promised, files, Reported >>
  BY <1>3 DEF Contract!Next, Contract!Close
<1>4. CASE /\ Promised /\ ~Open /\ files' \subseteq files /\ (Reported' => files' = {})
           /\ UNCHANGED << Promised, Open >>
  BY <1>4 DEF Contract!Next, Contract!Erase
<1>5. CASE /\ Open /\ \E i \in Items : files' = files \cup {i}
           /\ UNCHANGED << Promised, Open, Reported >>
  BY <1>5 DEF Contract!Next, Contract!Add
<1>6. CASE /\ (~Open' => Promised) /\ (Reported' => Reported)
           /\ UNCHANGED << Promised, files >>
  BY <1>6 DEF Contract!Next, Contract!Restore
<1>. QED
  BY <1>1, <1>2, <1>3, <1>4, <1>5, <1>6 DEF ContractStep

\* The deletion machine implements DeletionContract: bytes are destroyed only
\* in an account closed under a durable promise, nothing is added to a closed
\* account, and completion is reported only when no byte is left.
THEOREM DeletionImplementsContract == Spec => ContractIsKept
<1>1. Init => Contract!Init
  BY DeletionAssumption DEF Init, Contract!Init, NoJob, Items
<1>2. IInv /\ IInv' /\ [Next]_vars => [Contract!Next]_(Contract!contract)
  BY EveryStepIsAContractStep, ContractStepIsNext
<1>. QED
  BY Invariance, <1>1, <1>2, PTL DEF Spec, ContractIsKept, Contract!Spec

=============================================================================
