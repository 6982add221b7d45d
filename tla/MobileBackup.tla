----------------------------- MODULE MobileBackup -----------------------------
(***************************************************************************)
(* The phone's transfer queue (queue.ts) and the runs of the backup that   *)
(* work it off (backup.ts): the app in the foreground and the background   *)
(* task.  Two leases fence them: one on the run and one on the transfer.   *)
(* A lease is renewed far more often than it ends, so it ends under its    *)
(* owner only while the phone suspends it; that is a fault of the model.   *)
(***************************************************************************)
EXTENDS ResumableUpload

CONSTANTS
  Versions,       \* local versions of photos, keys of the queue
  Photo,          \* the content of each
  Runs,           \* concurrent runs of the backup
  Dead,           \* the owner of what a killed run held
  MobileSessions, \* pool of ids for the sessions the phone creates
  MaxAttempts     \* 8 in the code

ASSUME MobileAssumption ==
  /\ Runs \subseteq Clients
  /\ MobileSessions \subseteq Sessions
  /\ Photo \in [Versions -> Contents]
  /\ Dead \notin Runs \cup {None}
  /\ MaxAttempts \in Nat \ {0}

VARIABLES
  queue,    \* the transfers table
  runLock,  \* the row of backup_run_locks
  run       \* where each run is, with its copies of the claimed row

mobile == << queue, runLock, run >>

Owners == Runs \cup {Dead, None}

Transfers == [ state : {"absent", "queued", "uploading", "retry", "complete", "failed"},
               session : MobileSessions \cup {None}, owner : Owners, live : BOOLEAN,
               attempts : 0..MaxAttempts, due : BOOLEAN ]
NoTransfer == [ state |-> "absent", session |-> None, owner |-> None, live |-> FALSE,
                attempts |-> 0, due |-> TRUE ]

IdleRun == [ at |-> "idle", v |-> None, session |-> None, offset |-> 0, attempts |-> 0 ]

MobileInit ==
  /\ queue = [v \in Versions |-> NoTransfer]
  /\ runLock = [ owner |-> None, live |-> FALSE ]
  /\ run = [r \in Runs |-> IdleRun]

\* An id is free when no row, run or handler knows it: a session whose creation
\* nobody learnt of is as good as none.
FreeSession(s) ==
  /\ \A v \in Versions : queue[v].session # s
  /\ \A r \in Runs : run[r].session # s
  /\ \A h \in Handlers : handler[h].session # s

Goto(r, at) == run' = [run EXCEPT ![r].at = at]

(***************************************************************************)
(* The queue: the owner clause of updateTransfer makes a write of a run    *)
(* that has lost the row do nothing.                                       *)
(***************************************************************************)

Owned(r) == queue[run[r].v].owner = r
UpdateTransfer(r, row) == IF Owned(r) THEN [queue EXCEPT ![run[r].v] = row] ELSE queue

Unclaimed(row) == [row EXCEPT !.owner = None, !.live = FALSE]

\* acquireBackupRun: a lock whose time is over may be taken.
Acquire(r) ==
  /\ run[r].at = "idle"
  /\ ~runLock.live
  /\ runLock' = [ owner |-> r, live |-> TRUE ]
  /\ Goto(r, "scan")
  /\ UNCHANGED << queue, server, reply, faults >>

\* scanLibrary: every photo is in the queue, and the lock is renewed or lost.
Scan(r) ==
  /\ run[r].at = "scan"
  /\ queue' = [v \in Versions |->
                 IF queue[v].state = "absent" THEN [NoTransfer EXCEPT !.state = "queued"] ELSE queue[v]]
  /\ IF runLock.owner = r
     THEN runLock' = [ owner |-> r, live |-> TRUE ] /\ Goto(r, "claim")
     ELSE Goto(r, "release") /\ UNCHANGED runLock
  /\ UNCHANGED << server, reply, faults >>

\* Mutant: the upload of a run that is gone stays an upload.
FreedNothing == queue

\* claimNextTransfer: uploads whose lease has ended become retries, and the
\* next one is taken, retries first.
Freed == [v \in Versions |->
            IF queue[v].state = "uploading" /\ ~queue[v].live
            THEN [Unclaimed(queue[v]) EXCEPT !.state = "retry"] ELSE queue[v]]

NextTransfers(q) ==
  LET Ready(state) == { v \in Versions : q[v].state = state /\ q[v].due }
  IN IF Ready("retry") # {} THEN Ready("retry") ELSE Ready("queued")

Claim(r) ==
  /\ run[r].at = "claim"
  /\ \/ /\ NextTransfers(Freed) = {}
        /\ queue' = Freed
        /\ Goto(r, "release")
     \/ \E v \in NextTransfers(Freed) :
          /\ queue' = [Freed EXCEPT ![v].state = "uploading", ![v].owner = r, ![v].live = TRUE]
          /\ run' = [run EXCEPT ![r] = [ at |-> "open", v |-> v, session |-> queue[v].session,
                                         offset |-> 0, attempts |-> queue[v].attempts ]]
  /\ UNCHANGED << runLock, server, reply, faults >>

\* releaseBackupRun
Release(r) ==
  /\ run[r].at = "release"
  /\ runLock' = IF runLock.owner = r THEN [ owner |-> None, live |-> FALSE ] ELSE runLock
  /\ queue' = [v \in Versions |->
                 IF queue[v].state = "uploading" /\ queue[v].owner = r
                 THEN [Unclaimed(queue[v]) EXCEPT !.state = "retry"] ELSE queue[v]]
  /\ run' = [run EXCEPT ![r] = IdleRun]
  /\ UNCHANGED << server, reply, faults >>

(***************************************************************************)
(* One transfer (uploadTransfer)                                           *)
(***************************************************************************)

\* Mutant: a failure is recorded without the owner clause.
FailWithAny(r, row, retryable, pause) ==
  LET attempts == run[r].attempts + 1
      final == ~retryable \/ attempts >= MaxAttempts
  IN /\ queue' = [queue EXCEPT ![run[r].v] = [Unclaimed(row) EXCEPT !.attempts = attempts, !.due = final,
                                                !.state = IF final THEN "failed" ELSE "retry"]]
     /\ run' = [run EXCEPT ![r] = [IdleRun EXCEPT !.at = IF pause THEN "release" ELSE "claim"]]
     /\ UNCHANGED runLock

\* The catch block of runBackup: one more attempt than at the claim, and the
\* last one fails for good.  `row` is what the transfer has written before.
FailWith(r, row, retryable, pause) ==
  LET attempts == run[r].attempts + 1
      final == ~retryable \/ attempts >= MaxAttempts
  IN /\ queue' = UpdateTransfer(r, [Unclaimed(row) EXCEPT !.attempts = attempts, !.due = final,
                                      !.state = IF final THEN "failed" ELSE "retry"])
     /\ run' = [run EXCEPT ![r] = [IdleRun EXCEPT !.at = IF pause THEN "release" ELSE "claim"]]
     /\ UNCHANGED runLock

Fail(r, retryable, pause) == FailWith(r, queue[run[r].v], retryable, pause)

\* keepAlive: both leases are renewed, even one that has ended and that nobody
\* has taken.
Holds(r) == runLock.owner = r /\ Owned(r)
Renewed(row) == [row EXCEPT !.live = TRUE]
RenewRun(r) == runLock' = [ owner |-> r, live |-> TRUE ]

\* The policy stops the run: before the first request, or between two chunks.
Blocked(r) ==
  /\ run[r].at \in {"open", "send"} /\ (run[r].at = "send" => run[r].offset < Size)
  /\ Fault
  /\ queue' = IF run[r].at = "open" THEN queue
              ELSE UpdateTransfer(r, [Unclaimed(queue[run[r].v]) EXCEPT !.state = "retry", !.due = TRUE])
  /\ Goto(r, "release")
  /\ UNCHANGED << runLock, server, reply >>

Resumable(s) == s # None /\ session[s].status = "active"

\* resumeOrCreate, up to the POST: HEAD on the session of the claimed row, which
\* is resumed while it is active and forgotten otherwise.
Open(r) ==
  LET v == run[r].v
      s == run[r].session
  IN
  /\ run[r].at = "open"
  /\ \/ ~Holds(r) /\ Fail(r, TRUE, TRUE) /\ UNCHANGED faults
     \/ Holds(r) /\ Fault /\ \E retryable \in BOOLEAN : Fail(r, retryable, retryable)
     \/ /\ Holds(r) /\ RenewRun(r) /\ UNCHANGED faults
        /\ \/ /\ Resumable(s)
              /\ run' = [run EXCEPT ![r].at = "send", ![r].offset = session[s].offset]
              /\ queue' = [queue EXCEPT ![v] = Renewed(queue[v])]
           \/ /\ ~Resumable(s)
              /\ run' = [run EXCEPT ![r].at = "create", ![r].session = None]
              /\ queue' = [queue EXCEPT ![v] = [Renewed(queue[v]) EXCEPT !.session = None]]
  /\ UNCHANGED << server, reply >>

\* The POST of resumeOrCreate: the phone does not know a checksum.
CreateSession(r) ==
  /\ run[r].at = "create"
  /\ \/ \E s \in MobileSessions :
          /\ FreeSession(s)
          /\ Create(s, Photo[run[r].v])
          /\ queue' = UpdateTransfer(r, [queue[run[r].v] EXCEPT !.session = s])
          /\ run' = [run EXCEPT ![r].at = "send", ![r].session = s, ![r].offset = 0]
          /\ UNCHANGED << runLock, faults >>
     \/ Fault /\ Fail(r, TRUE, TRUE) /\ UNCHANGED session
  /\ UNCHANGED << key, original, assets, handler, reply >>

\* One turn of the loop over chunks.
Send(r) ==
  /\ run[r].at = "send" /\ run[r].offset < Size
  /\ \/ /\ Holds(r) /\ RenewRun(r)
        /\ \E h \in Handlers : Patch(r, h, run[r].session, run[r].offset)
        /\ queue' = [queue EXCEPT ![run[r].v] = Renewed(queue[run[r].v])]
        /\ Goto(r, "wait")
     \/ /\ ~Holds(r) /\ Fail(r, TRUE, TRUE)
        /\ UNCHANGED << session, handler, reply, faults >>
  /\ UNCHANGED << key, original, assets >>

\* The answer.  On 409 the offset is asked for; on 410 the session is forgotten;
\* a heartbeat that found a lease lost fails the transfer whatever the answer.
Hear(r) ==
  LET row == queue[run[r].v]
      code == reply[r].code
  IN
  /\ run[r].at = "wait" /\ code \notin {"none", "waiting"}
  /\ \/ /\ code = "ok" /\ reply[r].offset > run[r].offset
        /\ run' = [run EXCEPT ![r].at = "send", ![r].offset = reply[r].offset]
        /\ queue' = UpdateTransfer(r, Renewed(row))
        /\ UNCHANGED << runLock, faults >>
     \/ /\ code = "conflict"
        /\ run' = [run EXCEPT ![r].at = "send", ![r].offset = session[run[r].session].offset]
        /\ UNCHANGED << queue, runLock, faults >>
     \/ code = "conflict" /\ Fault /\ Fail(r, TRUE, TRUE)
     \/ code = "gone" /\ FailWith(r, [row EXCEPT !.session = None], TRUE, FALSE) /\ UNCHANGED faults
     \/ /\ code = "error" \/ (code = "ok" /\ reply[r].offset <= run[r].offset) \/ ~Holds(r)
        /\ Fail(r, TRUE, TRUE) /\ UNCHANGED faults
  /\ Answer(r, NoReply)
  /\ UNCHANGED server

\* Mutant: the row is completed without the owner clause.
MarkCompleteAny(r) ==
  /\ run[r].at = "send" /\ run[r].offset >= Size
  /\ queue' = [queue EXCEPT ![run[r].v] = [Unclaimed(queue[run[r].v]) EXCEPT
                                            !.state = "complete", !.attempts = 0, !.due = TRUE]]
  /\ run' = [run EXCEPT ![r] = [IdleRun EXCEPT !.at = "claim"]]
  /\ UNCHANGED << runLock, server, reply, faults >>

\* The end of uploadTransfer: the loop is over when the offset is the size,
\* also when it never started.
MarkComplete(r) ==
  /\ run[r].at = "send" /\ run[r].offset >= Size
  /\ queue' = UpdateTransfer(r, [Unclaimed(queue[run[r].v]) EXCEPT
                                   !.state = "complete", !.attempts = 0, !.due = TRUE])
  /\ run' = [run EXCEPT ![r] = [IdleRun EXCEPT !.at = "claim"]]
  /\ UNCHANGED << runLock, server, reply, faults >>

RunStep(r) ==
  \/ Acquire(r) \/ Scan(r) \/ Claim(r) \/ Release(r)
  \/ Open(r) \/ CreateSession(r) \/ Send(r) \/ Hear(r) \/ MarkComplete(r)

(***************************************************************************)
(* The user, time and the phone                                            *)
(***************************************************************************)

RetryFailed ==
  /\ \E v \in Versions : queue[v].state = "failed"
  /\ queue' = [v \in Versions |->
                 IF queue[v].state = "failed"
                 THEN [Unclaimed(queue[v]) EXCEPT !.state = "retry", !.attempts = 0, !.due = TRUE]
                 ELSE queue[v]]
  /\ UNCHANGED << runLock, run, server, reply, faults >>

CancelPending ==
  LET Cancelled == { v \in Versions : queue[v].state \in {"queued", "retry", "failed"} } IN
  /\ Cancelled # {}
  /\ queue' = [v \in Versions |-> IF v \in Cancelled THEN NoTransfer ELSE queue[v]]
  /\ UNCHANGED << runLock, run, server, reply, faults >>

RetryBecomesDue(v) ==
  /\ queue[v].state = "retry" /\ ~queue[v].due
  /\ queue' = [queue EXCEPT ![v].due = TRUE]
  /\ UNCHANGED << runLock, run, server, reply, faults >>

\* The lease of a killed run ends by itself.
LeaseEnds ==
  /\ \/ /\ runLock.live /\ runLock.owner = Dead
        /\ runLock' = [runLock EXCEPT !.live = FALSE]
        /\ UNCHANGED queue
     \/ \E v \in Versions :
          /\ queue[v].live /\ queue[v].owner = Dead
          /\ queue' = [queue EXCEPT ![v].live = FALSE]
          /\ UNCHANGED runLock
  /\ UNCHANGED << run, server, reply, faults >>

\* The phone suspends a run for so long that its leases end; it goes on later.
Suspend(r) ==
  /\ Fault
  /\ runLock.owner = r \/ \E v \in Versions : queue[v].owner = r
  /\ runLock' = [runLock EXCEPT !.live = @ /\ runLock.owner # r]
  /\ queue' = [v \in Versions |-> [queue[v] EXCEPT !.live = @ /\ queue[v].owner # r]]
  /\ UNCHANGED << run, server, reply >>

\* The phone kills a run.  Its owner string is never used again.
Kill(r) ==
  /\ run[r].at # "idle"
  /\ Fault
  /\ runLock' = IF runLock.owner = r THEN [runLock EXCEPT !.owner = Dead] ELSE runLock
  /\ queue' = [v \in Versions |-> IF queue[v].owner = r THEN [queue[v] EXCEPT !.owner = Dead] ELSE queue[v]]
  /\ run' = [run EXCEPT ![r] = IdleRun]
  /\ Answer(r, NoReply)
  /\ handler' = [h \in Handlers |-> IF handler[h].client = r
                                    THEN [handler[h] EXCEPT !.client = None] ELSE handler[h]]
  /\ UNCHANGED << session, key, original, assets >>

MobileNext ==
  \/ \E r \in Runs : RunStep(r) \/ Blocked(r) \/ Suspend(r) \/ Kill(r)
  \/ \E v \in Versions : RetryBecomesDue(v)
  \/ LeaseEnds \/ RetryFailed \/ CancelPending

(***************************************************************************)
(* Properties                                                              *)
(***************************************************************************)

MobileTypeOK ==
  /\ queue \in [Versions -> Transfers]
  /\ runLock \in [ owner : Owners, live : BOOLEAN ]
  /\ run \in [Runs -> [ at : {"idle", "scan", "claim", "open", "create", "send", "wait", "release"},
                         v : Versions \cup {None}, session : MobileSessions \cup {None},
                         offset : 0..Size, attempts : 0..MaxAttempts ]]

\* A transfer shown as complete names a session of its own photo that has
\* received every byte, although a suspended run may go on beside its successor
\* and both write the row (updateTransfer's owner clause).
CompleteIsReceived ==
  \A v \in Versions :
    queue[v].state = "complete" =>
      /\ queue[v].session # None
      /\ session[queue[v].session].offset = Size
      /\ session[queue[v].session].content = Photo[v]

\* "The current record must remain as durable proof that this exact local
\* version was backed up" (enqueueTransfer): no late write of a run, no scan and
\* no button takes a completed record away.
CompleteStays ==
  [][\A v \in Versions : queue[v].state = "complete" => queue'[v].state = "complete"]_queue

\* The same comment: a completed record is proof that the version was backed up.
CompleteIsProof ==
  \A v \in Versions : queue[v].state = "complete" => Photo[v] \in assets

=============================================================================
