------------------------------- MODULE RunLocks -------------------------------
(***************************************************************************)
(* The two locks that keep long background runs apart.                     *)
(*                                                                         *)
(* The backup lock is one Redis key with a lifetime: a request of the host *)
(* owner sets it to its token and queues a task with that token; the       *)
(* worker swaps the token for one of its own, and a scheduled task, which  *)
(* has no token, sets the key itself (storage_status.py:212-236,           *)
(* tasks.py:1310-1332).  A task is killed after 6600 seconds and the key   *)
(* lives for 7200, so the key of a run does not expire under it.           *)
(*                                                                         *)
(* The lock of an account's storage verification is an open                *)
(* MonitoringEvent row, of which an index allows one: a request inserts    *)
(* it, queues the task and records the job; the worker closes it           *)
(* (monitoring.py:31-101, tasks.py:1140-1196).                             *)
(*                                                                         *)
(* Tasks are acknowledged late: a message may be delivered again while its *)
(* first delivery still runs, and it may be lost.                          *)
(***************************************************************************)
CONSTANTS
  Owners,         \* requests for a backup
  Runners,        \* worker processes
  Verifications,  \* MonitoringEvent rows of one account
  Scheduled,      \* the message of the scheduler, which has no token
  Unset           \* no key

ASSUME LocksAssumption ==
  /\ Scheduled \notin Owners
  /\ Unset \notin Verifications
  /\ Unset \notin ({"request"} \X Owners) \cup ({"run"} \X Runners)

VARIABLES
  key,      \* the Redis key: whose token it holds
  asker,    \* backup requests of the owner
  backups,  \* messages for backup_operational_state
  runner,   \* what a worker process runs
  check,    \* MonitoringEvent rows, and whether their hour has passed
  orders,   \* verifications with a message in the broker
  checker   \* the verification a worker process runs, if any

runs == <<key, asker, backups, runner, check, orders, checker>>

Tokens == ({"request"} \X Owners) \cup ({"run"} \X Runners)

LocksInit ==
  /\ key = Unset
  /\ asker = [o \in Owners |-> "new"]
  /\ backups = {}
  /\ runner = [w \in Runners |-> "idle"]
  /\ check = [v \in Verifications |->
                [status |-> "none", job |-> FALSE, old |-> FALSE, api |-> "over"]]
  /\ orders = {}
  /\ checker = [w \in Runners |-> Unset]

----------------------------------------------------------------------------
(* Backups                                                                 *)

AskBackup(o) ==
  /\ asker[o] = "new"
  /\ IF key = Unset
     THEN key' = <<"request", o>> /\ asker' = [asker EXCEPT ![o] = "publishing"]
     ELSE key' = key /\ asker' = [asker EXCEPT ![o] = "refused"]
  /\ UNCHANGED <<backups, runner, check, orders, checker>>

\* Mutant: the key is deleted whoever holds it.
ReleasedAnyway(token) == Unset
\* Deletes the key if it still holds the token, in one script.
Released(token) == IF key = token THEN Unset ELSE key

\* A publish that raises may have reached the broker all the same.
PublishBackup(o) ==
  /\ asker[o] = "publishing"
  /\ \/ /\ asker' = [asker EXCEPT ![o] = "queued"]
        /\ backups' = backups \cup {o}
        /\ key' = key
     \/ /\ asker' = [asker EXCEPT ![o] = "failed"]
        /\ backups' \in {backups, backups \cup {o}}
        /\ key' = Released(<<"request", o>>)
  /\ UNCHANGED <<runner, check, orders, checker>>

\* The API process dies between the key and the message.
AskerDies(o) ==
  /\ asker[o] = "publishing"
  /\ asker' = [asker EXCEPT ![o] = "failed"]
  /\ UNCHANGED <<key, backups, runner, check, orders, checker>>

Schedule ==
  /\ Scheduled \notin backups
  /\ backups' = backups \cup {Scheduled}
  /\ UNCHANGED <<key, asker, runner, check, orders, checker>>

\* A message claims the key: the token it carries must still be there, and one
\* without a token needs the key to be unset.
Claims(m) == key = IF m = Scheduled THEN Unset ELSE <<"request", m>>

StartBackup(w, m) ==
  /\ m \in backups
  /\ runner[w] = "idle"
  /\ IF Claims(m)
     THEN key' = <<"run", w>> /\ runner' = [runner EXCEPT ![w] = "backup"]
     ELSE key' = key /\ runner' = runner
  /\ backups' \in {backups, backups \ {m}}
  /\ UNCHANGED <<asker, check, orders, checker>>

\* The run ends, also by an error or the soft time limit.
FinishBackup(w) ==
  /\ runner[w] = "backup"
  /\ runner' = [runner EXCEPT ![w] = "idle"]
  /\ key' = Released(<<"run", w>>)
  /\ UNCHANGED <<asker, backups, check, orders, checker>>

\* The hard time limit, or the process dies: the key stays.
KillBackup(w) ==
  /\ runner[w] = "backup"
  /\ runner' = [runner EXCEPT ![w] = "idle"]
  /\ UNCHANGED <<key, asker, backups, check, orders, checker>>

LoseBackup(m) ==
  /\ m \in backups
  /\ backups' = backups \ {m}
  /\ UNCHANGED <<key, asker, runner, check, orders, checker>>

\* The lifetime of a request's token may pass at any time; that of a run's is
\* longer than the run.
KeyExpires ==
  /\ key # Unset
  /\ \A w \in Runners : key = <<"run", w>> => runner[w] # "backup"
  /\ key' = Unset
  /\ UNCHANGED <<asker, backups, runner, check, orders, checker>>

----------------------------------------------------------------------------
(* Verifications of an account's storage                                   *)

\* The open row of the account, which the request locks; the index admits one.
OpenChecks == {v \in Verifications : check[v].status = "open"}

\* Mutant: a lock of an hour is stale, also when its job has been accepted.
LockActiveByAge(v) == ~check[v].old
\* verification_lock_active.
LockActive(v) == check[v].job \/ ~check[v].old

\* A stale lock is resolved and replaced in one transaction.
AskVerification(v) ==
  /\ check[v].status = "none"
  /\ \A o \in OpenChecks : ~LockActive(o)
  /\ check' = [u \in Verifications |->
       IF u = v
       THEN [status |-> "open", job |-> FALSE, old |-> FALSE, api |-> "publishing"]
       ELSE IF u \in OpenChecks THEN [check[u] EXCEPT !.status = "resolved"]
       ELSE check[u]]
  /\ UNCHANGED <<key, asker, backups, runner, orders, checker>>

\* The publish; one that raises may have reached the broker all the same, and
\* the API process may die at either step.
PublishVerification(v) ==
  /\ check[v].api = "publishing"
  /\ \/ /\ orders' = orders \cup {v}
        /\ check' = [check EXCEPT ![v].api = "recording"]
     \/ /\ orders' \in {orders, orders \cup {v}}
        /\ check' \in {[check EXCEPT ![v].api = "over", ![v].status = "failed"],
                       [check EXCEPT ![v].api = "over"]}
  /\ UNCHANGED <<key, asker, backups, runner, checker>>

\* The job id is recorded on the row as it is by then.
RecordJob(v) ==
  /\ check[v].api = "recording"
  /\ \E job \in BOOLEAN :
       check' = [check EXCEPT ![v].api = "over", ![v].job = job]
  /\ UNCHANGED <<key, asker, backups, runner, orders, checker>>

HourPasses(v) ==
  /\ check[v].status = "open"
  /\ ~check[v].old
  /\ check' = [check EXCEPT ![v].old = TRUE]
  /\ UNCHANGED <<key, asker, backups, runner, orders, checker>>

\* A delivery; the message may be delivered again while this one runs.
StartVerification(w, v) ==
  /\ v \in orders
  /\ checker[w] = Unset
  /\ checker' = [checker EXCEPT ![w] = v]
  /\ orders' \in {orders, orders \ {v}}
  /\ UNCHANGED <<key, asker, backups, runner, check>>

\* finish_account_verification, for the row its message names and only while that
\* is open; where it raises, the row is left as it is.
FinishVerification(w) ==
  /\ checker[w] # Unset
  /\ checker' = [checker EXCEPT ![w] = Unset]
  /\ \/ \E outcome \in {"resolved", "failed"} :
          check' = [check EXCEPT ![checker[w]].status = IF @ = "open" THEN outcome ELSE @]
     \/ UNCHANGED check
  /\ UNCHANGED <<key, asker, backups, runner, orders>>

\* Its worker dies; the message comes back, unless the broker has lost it.
KillVerification(w) ==
  /\ checker[w] # Unset
  /\ checker' = [checker EXCEPT ![w] = Unset]
  /\ orders' \in {orders, orders \cup {checker[w]}}
  /\ UNCHANGED <<key, asker, backups, runner, check>>

LoseVerification(v) ==
  /\ v \in orders
  /\ orders' = orders \ {v}
  /\ UNCHANGED <<key, asker, backups, runner, check, checker>>

BackupNext ==
  \/ \E o \in Owners : AskBackup(o) \/ PublishBackup(o) \/ AskerDies(o)
  \/ Schedule \/ KeyExpires
  \/ \E m \in Owners \cup {Scheduled} :
       LoseBackup(m) \/ \E w \in Runners : StartBackup(w, m)
  \/ \E w \in Runners : FinishBackup(w) \/ KillBackup(w)

VerificationNext ==
  \/ \E v \in Verifications :
       \/ AskVerification(v) \/ PublishVerification(v) \/ RecordJob(v)
       \/ HourPasses(v) \/ LoseVerification(v)
       \/ \E w \in Runners : StartVerification(w, v)
  \/ \E w \in Runners : FinishVerification(w) \/ KillVerification(w)

\* The two locks have nothing in common.
LocksNext == BackupNext \/ VerificationNext

LocksSpec == LocksInit /\ [][LocksNext]_runs

----------------------------------------------------------------------------
\* Types; at most one verification of the account is open, as its index demands.
LocksTypeOK ==
  /\ key \in Tokens \cup {Unset}
  /\ asker \in [Owners -> {"new", "publishing", "queued", "refused", "failed"}]
  /\ backups \subseteq Owners \cup {Scheduled}
  /\ runner \in [Runners -> {"idle", "backup"}]
  /\ check \in [Verifications ->
       [status : {"none", "open", "resolved", "failed"}, job : BOOLEAN,
        old : BOOLEAN, api : {"publishing", "recording", "over"}]]
  /\ orders \subseteq Verifications
  /\ checker \in [Runners -> Verifications \cup {Unset}]
  /\ \A u, v \in Verifications :
       check[u].status = "open" /\ check[v].status = "open" => u = v

\* Two backups never run at the same time, whatever expires, fails to publish, is
\* delivered twice or is killed: "Expired/replaced or duplicate delivery must not
\* overlap" (tasks.py:1325).
NoTwoBackups ==
  \A v, w \in Runners : runner[v] = "backup" /\ runner[w] = "backup" => v = w

\* "Once Celery acknowledges a job, only that exact worker completion may release
\* the lock" (monitoring.py:34-36): a worker that runs this very verification, not
\* a late request, not the task of another, also when messages come twice.
OnlyItsWorkerReleases ==
  [][\A v \in Verifications :
       check[v].status = "open" /\ check[v].job /\ check'[v].status # "open"
         => \E w \in Runners : checker[w] = v /\ checker'[w] = Unset]_runs
=============================================================================
