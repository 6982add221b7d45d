------------------------ MODULE StorageRecoveryProofs ------------------------
(***************************************************************************)
(* StorageRecovery for any drives, workers and number of faults.           *)
(*                                                                         *)
(* A copy is only ever written with what a good source holds, and a good   *)
(* one is never written over.  The one step that takes a file away is the  *)
(* end of a move: the copy it has made elsewhere is still good, because    *)
(* the move holds the lock of its path (MovesAreSound).                    *)
(***************************************************************************)
EXTENDS StorageRecovery, TLAPS

\* The paths a task holds, and the places where it holds the asset.
LockedBy(task) ==
  CASE task.at = "protect" -> task.good \cup task.bad
    [] task.at = "release" -> task.good
    [] task.at = "moved"   -> task.good \cup task.todo
    [] OTHER -> {}
Locking == {"restore", "restored", "protect"}

\* A move is between two drives.
IsMove(task) ==
  task.at \in {"move", "release"} =>
    \E high, low \in Drives :
      high # low /\ task.todo = {high}
        /\ (IF task.at = "move" THEN task.bad ELSE task.good) = {low}

\* The copy that a move has made is good until the other is taken away.
MovesAreSound ==
  \A w \in Workers :
    /\ IsMove(worker[w])
    /\ At(w, "release") => \A d \in worker[w].good : copy[d] = "good"

\* The inductive invariant.
StorageInv == StorageTypeOK /\ MovesAreSound

\* The idle task, field by field.
LEMMA NoTaskFields ==
  /\ NoTask \in Tasks /\ NoTask.at = "idle" /\ NoTask.todo = {} /\ NoTask.was = {}
  /\ NoTask.good = {} /\ NoTask.bad = {} /\ NoTask.seen \in AssetStatuses
BY DEF NoTask, Tasks, AssetStatuses

\* A move that begins goes from a drive to another one.
LEMMA MoveFields ==
  ASSUME NEW high \in Drives, NEW low \in Drives, row[high] = "verified", row[low] = "none"
  PROVE  /\ Move(high, low) \in Tasks /\ Move(high, low).at = "move" /\ high # low
         /\ Move(high, low).todo = {high} /\ Move(high, low).bad = {low}
         /\ Move(high, low).good = {} /\ IsMove(Move(high, low))
<1>1. /\ Move(high, low) \in Tasks /\ Move(high, low).at = "move"
      /\ Move(high, low).todo = {high} /\ Move(high, low).bad = {low}
      /\ Move(high, low).good = {}
  BY NoTaskFields DEF Move, Tasks
<1>2. high # low
  OBVIOUS
<1> QED
  BY <1>1, <1>2 DEF IsMove

\* Nobody works, or one worker has begun to move a copy.
LEMMA StorageInitially == StorageInit => StorageInv
<1> SUFFICES ASSUME StorageInit PROVE StorageInv
  OBVIOUS
<1> DEFINE Nothing == [w \in Workers |-> NoTask]
<1>1. /\ faults = 0 /\ requests = 0 /\ critical = FALSE
      /\ original \in Bytes /\ event \in {"none", "fresh", "due"}
      /\ copy \in [Drives -> Bytes] /\ queue \subseteq {"restore", "protect"}
      /\ row \in [Drives -> {"none", "verified", "failed"}]
      /\ asset \in AssetStatuses
  BY DEF StorageInit, Bytes, AssetStatuses
<1>2. /\ worker \in [Workers -> Tasks]
      /\ \A w \in Workers : worker[w].at \in {"idle", "move"} /\ IsMove(worker[w])
  <2>1. \A w \in Workers : Nothing[w] = NoTask
    OBVIOUS
  <2>2. CASE worker = Nothing
    BY <2>1, <2>2, NoTaskFields DEF IsMove
  <2>3. ASSUME NEW v \in Workers, NEW high \in Drives, NEW low \in Drives,
               row[high] = "verified", row[low] = "none",
               worker = [Nothing EXCEPT ![v] = Move(high, low)]
        PROVE  <1>2
    <3>1. \A w \in Workers : worker[w] = IF w = v THEN Move(high, low) ELSE NoTask
      BY <2>3
    <3>2. Move(high, low) \in Tasks /\ Move(high, low).at = "move" /\ IsMove(Move(high, low))
      BY <2>3, MoveFields
    <3>3. worker \in [Workers -> Tasks]
      BY <2>3, <3>2, NoTaskFields
    <3> HIDE DEF Nothing
    <3> QED
      BY <3>1, <3>2, <3>3, NoTaskFields DEF IsMove
  <2> QED
    BY <2>2, <2>3 DEF StorageInit
<1>3. \A w \in Workers : Locked(w) = {} /\ ~At(w, "release")
  BY <1>2 DEF Locked, At
<1>4. StorageTypeOK
  <2>1. {faults, requests} \subseteq 0 .. MaxEvents
    BY <1>1, StorageAssumption
  <2>2. \A v, w \in Workers : v # w =>
          /\ Locked(v) \cap Locked(w) = {}
          /\ {worker[v].at, worker[w].at} \subseteq {"restore", "restored", "protect"} => FALSE
    BY <1>2, <1>3
  <2> QED
    BY <1>1, <1>2, <2>1, <2>2 DEF StorageTypeOK
<1>5. MovesAreSound
  BY <1>2, <1>3 DEF MovesAreSound
<1> QED
  BY <1>4, <1>5 DEF StorageInv

\* The types, field by field.
LEMMA StorageTypes ==
  ASSUME StorageInv
  PROVE  /\ original \in Bytes /\ copy \in [Drives -> Bytes]
         /\ row \in [Drives -> {"none", "verified", "failed"}]
         /\ asset \in AssetStatuses
         /\ queue \subseteq {"restore", "protect"}
         /\ worker \in [Workers -> Tasks]
         /\ faults \in 0 .. MaxEvents /\ requests \in 0 .. MaxEvents /\ MaxEvents \in Nat
         /\ \A w \in Workers :
              /\ worker[w] \in Tasks /\ Locked(w) = LockedBy(worker[w])
              /\ worker[w].todo \subseteq Drives /\ worker[w].was \subseteq Drives
              /\ worker[w].good \subseteq Drives /\ worker[w].bad \subseteq Drives
              /\ worker[w].seen \in AssetStatuses
              /\ IsMove(worker[w])
<1>1. worker \in [Workers -> Tasks]
  BY DEF StorageInv, StorageTypeOK
<1>2. \A w \in Workers :
        /\ worker[w] \in Tasks
        /\ worker[w].todo \subseteq Drives /\ worker[w].was \subseteq Drives
        /\ worker[w].good \subseteq Drives /\ worker[w].bad \subseteq Drives
        /\ worker[w].seen \in AssetStatuses
  BY <1>1 DEF Tasks
<1>3. \A w \in Workers : Locked(w) = LockedBy(worker[w])
  BY DEF Locked, LockedBy, At
<1> QED
  BY <1>1, <1>2, <1>3, StorageAssumption DEF StorageInv, StorageTypeOK, MovesAreSound

----------------------------------------------------------------------------
\* Worker w goes on with `task`: it locks what is free, and a move that has made
\* its copy has made a good one.
GoesOn(w, task) ==
  /\ Run(w, task) /\ task \in Tasks /\ IsMove(task)
  /\ \A d \in LockedBy(task) : d \in Locked(w) \/ PathFree(w, d)
  /\ task.at \in Locking => worker[w].at \in Locking \/ AssetFree(w)
  /\ task.at = "release" => \A d \in task.good : copy'[d] = "good"

\* The copies that other workers' moves have made stay good.
SparesMoves(w) ==
  \A v \in Workers \ {w} :
    At(v, "release") => \A d \in worker[v].good : copy[d] = "good" => copy'[d] = "good"

\* Locks apart, moves sound.
TasksHold ==
  /\ worker \in [Workers -> Tasks] /\ MovesAreSound
  /\ \A v, w \in Workers : v # w =>
       /\ Locked(v) \cap Locked(w) = {}
       /\ ~({worker[v].at, worker[w].at} \subseteq Locking)

\* Such a step keeps the locks apart and the moves sound.
LEMMA TaskGoesOn ==
  ASSUME StorageInv, NEW w \in Workers, NEW task, GoesOn(w, task), SparesMoves(w)
  PROVE  TasksHold'
<1>1. /\ worker' \in [Workers -> Tasks] /\ worker'[w] = task
      /\ \A v \in Workers \ {w} : worker'[v] = worker[v]
  BY StorageTypes DEF GoesOn, Run
<1>2. MovesAreSound'
  BY <1>1, StorageTypes DEF MovesAreSound, GoesOn, SparesMoves, IsMove, At, StorageInv
<1>3. \A v \in Workers : /\ Locked(v)' = LockedBy(worker'[v])
                         /\ v # w => Locked(v)' = Locked(v)
  BY <1>1 DEF Locked, LockedBy, At
<1>4. \A v \in Workers \ {w} : LockedBy(task) \cap Locked(v) = {}
  BY DEF GoesOn, PathFree, StorageInv, StorageTypeOK
<1>5. \A v, x \in Workers : v # x => (Locked(v) \cap Locked(x) = {})'
  BY <1>1, <1>3, <1>4 DEF StorageInv, StorageTypeOK
<1>6. \A v \in Workers \ {w} : ~({worker[v].at, task.at} \subseteq Locking)
  BY DEF GoesOn, AssetFree, Locking, StorageInv, StorageTypeOK
<1>7. \A v, x \in Workers : v # x => ~({worker'[v].at, worker'[x].at} \subseteq Locking)
  BY <1>1, <1>6 DEF StorageInv, StorageTypeOK, Locking
<1> QED
  BY <1>1, <1>2, <1>5, <1>7 DEF TasksHold

\* Nobody's task changes.
LEMMA TasksStay ==
  ASSUME StorageInv, UNCHANGED worker,
         \A w \in Workers : At(w, "release") =>
           \A d \in worker[w].good : copy[d] = "good" => copy'[d] = "good"
  PROVE  TasksHold'
BY DEF StorageInv, StorageTypeOK, MovesAreSound, TasksHold, Locked, At, IsMove, Locking

\* A task ends.
LEMMA TaskEnds ==
  ASSUME StorageInv, NEW w \in Workers, Ends(w), SparesMoves(w)
  PROVE  TasksHold'
<1>1. GoesOn(w, NoTask)
  BY NoTaskFields DEF Ends, GoesOn, LockedBy, IsMove, Locking
<1> QED
  BY <1>1, TaskGoesOn

\* A copy is written where it is not good.
LEMMA CopyIsKept ==
  ASSUME StorageInv, NEW d \in Drives, NEW from \in Bytes,
         copy' = [copy EXCEPT ![d] = Copied(from, copy[d])]
  PROVE  /\ copy' \in [Drives -> Bytes] /\ copy'[d] = Copied(from, copy[d])
         /\ \A x \in Drives : copy[x] = "good" => copy'[x] = "good"
BY StorageTypes DEF Copied, Bytes

\* Restoring holds the asset from start to commit.
LEMMA RestoringGoesOn ==
  ASSUME StorageInv, NEW w \in Workers, StartRestore(w) \/ Restoring(w) \/ RestoreFails(w)
  PROVE  TasksHold'
<1>1. UNCHANGED copy
  BY DEF StartRestore, Restoring, TryCandidate, CommitRestore, NoUsableReplica,
         RestoreIsStale, RestoreFails, files
<1>2. SparesMoves(w)
  BY <1>1 DEF SparesMoves
<1>3. CASE StartRestore(w)
  <2> DEFINE task == [NoTask EXCEPT !.at = "restore", !.todo = Verified, !.was = Verified]
  <2>1. Run(w, task) /\ AssetFree(w)
    BY <1>3 DEF StartRestore
  <2>2. Verified \subseteq Drives
    BY DEF Verified
  <2>3. task \in Tasks /\ task.at = "restore"
    BY <2>2, NoTaskFields DEF Tasks
  <2> HIDE DEF task
  <2>4. GoesOn(w, task)
    BY <2>1, <2>3 DEF GoesOn, IsMove, LockedBy
  <2> QED
    BY <1>2, <2>4, TaskGoesOn
<1>4. CASE TryCandidate(w)
  <2>1. PICK d \in worker[w].todo :
          \/ Run(w, [worker[w] EXCEPT !.at = "restored", !.good = {d}])
          \/ Run(w, [worker[w] EXCEPT !.todo = @ \ {d}, !.bad = @ \cup {d}])
    BY <1>4 DEF TryCandidate
  <2> DEFINE todo == worker[w].todo \ {d}
             bad == worker[w].bad \cup {d}
             found == [worker[w] EXCEPT !.at = "restored", !.good = {d}]
             next == [worker[w] EXCEPT !.todo = todo, !.bad = bad]
  <2>2. todo \subseteq Drives /\ bad \subseteq Drives /\ d \in Drives
    BY <2>1, StorageTypes
  <2>3. Run(w, found) \/ Run(w, next)
    BY <2>1
  <2> HIDE DEF todo, bad
  <2>4. /\ found \in Tasks /\ found.at = "restored"
        /\ next \in Tasks /\ next.at = "restore"
    BY <1>4, <2>2, StorageTypes DEF Tasks, TryCandidate, At
  <2> HIDE DEF found, next
  <2>5. worker[w].at \in Locking
    BY <1>4 DEF TryCandidate, At, Locking
  <2>6. GoesOn(w, found) \/ GoesOn(w, next)
    BY <2>3, <2>4, <2>5 DEF GoesOn, IsMove, LockedBy
  <2> QED
    BY <1>2, <2>6, TaskGoesOn
<1>5. CASE CommitRestore(w) \/ NoUsableReplica(w) \/ RestoreIsStale(w) \/ RestoreFails(w)
  <2>1. Ends(w)
    BY <1>5 DEF CommitRestore, NoUsableReplica, RestoreIsStale, RestoreFails
  <2> QED
    BY <1>2, <2>1, TaskEnds
<1> QED
  BY <1>3, <1>4, <1>5 DEF Restoring

\* Protecting holds the asset, and locks each path before it writes there.
LEMMA ProtectingGoesOn ==
  ASSUME StorageInv, NEW w \in Workers, StartProtect(w) \/ Protecting(w)
  PROVE  TasksHold'
<1>1. CASE StartProtect(w)
  <2>1. PICK targets \in SUBSET Drives :
          Run(w, [NoTask EXCEPT !.at = "protect", !.todo = targets])
    BY <1>1 DEF StartProtect
  <2>2. AssetFree(w) /\ SparesMoves(w)
    BY <1>1 DEF StartProtect, SparesMoves, files
  <2> DEFINE task == [NoTask EXCEPT !.at = "protect", !.todo = targets]
  <2>3. /\ task \in Tasks /\ task.at = "protect" /\ task.good = {} /\ task.bad = {}
    BY NoTaskFields DEF Tasks
  <2>4. Run(w, task)
    BY <2>1
  <2> HIDE DEF task
  <2>5. GoesOn(w, task)
    BY <2>2, <2>3, <2>4 DEF GoesOn, IsMove, LockedBy
  <2> QED
    BY <2>2, <2>5, TaskGoesOn
<1>2. CASE CopyTo(w)
  <2>1. At(w, "protect")
    BY <1>2 DEF CopyTo
  <2>2. PICK d \in worker[w].todo :
          /\ PathFree(w, d)
          /\ copy' = [copy EXCEPT ![d] = Copied(original, copy[d])]
          /\ \/ Run(w, [worker[w] EXCEPT !.todo = @ \ {d}, !.good = @ \cup {d},
                                         !.was = @ \cup (Verified \cap {d})])
             \/ Run(w, [worker[w] EXCEPT !.todo = @ \ {d}, !.bad = @ \cup {d},
                                         !.was = @ \cup (Verified \cap {d})])
    BY <1>2 DEF CopyTo
  <2> DEFINE todo == worker[w].todo \ {d}
             good == worker[w].good \cup {d}
             bad == worker[w].bad \cup {d}
             was == worker[w].was \cup (Verified \cap {d})
             copied == [worker[w] EXCEPT !.todo = todo, !.good = good, !.was = was]
             failed == [worker[w] EXCEPT !.todo = todo, !.bad = bad, !.was = was]
  <2>3. /\ todo \subseteq Drives /\ good \subseteq Drives /\ bad \subseteq Drives
        /\ was \subseteq Drives /\ d \in Drives
    BY <2>2, StorageTypes
  <2>4. Run(w, copied) \/ Run(w, failed)
    BY <2>2
  <2>5. /\ good \cup worker[w].bad = Locked(w) \cup {d}
        /\ worker[w].good \cup bad = Locked(w) \cup {d}
    <3>1. Locked(w) = worker[w].good \cup worker[w].bad
      BY <2>1 DEF Locked, At
    <3> QED
      BY <3>1
  <2> HIDE DEF todo, good, bad, was
  <2>6. worker[w] \in Tasks
    BY StorageTypes
  <2>7. /\ copied \in Tasks /\ copied.at = "protect"
        /\ copied.good = good /\ copied.bad = worker[w].bad
    BY <2>1, <2>3, <2>6 DEF Tasks, At
  <2>8. /\ failed \in Tasks /\ failed.at = "protect"
        /\ failed.good = worker[w].good /\ failed.bad = bad
    BY <2>1, <2>3, <2>6 DEF Tasks, At
  <2> HIDE DEF copied, failed
  <2>9. LockedBy(copied) = Locked(w) \cup {d} /\ LockedBy(failed) = Locked(w) \cup {d}
    BY <2>5, <2>7, <2>8 DEF LockedBy
  <2>10. GoesOn(w, copied) \/ GoesOn(w, failed)
    BY <2>1, <2>2, <2>4, <2>7, <2>8, <2>9 DEF GoesOn, IsMove, At, Locking
  <2>11. SparesMoves(w)
    BY <2>2, <2>3, StorageTypes, CopyIsKept DEF SparesMoves
  <2> QED
    BY <2>10, <2>11, TaskGoesOn
<1>3. CASE CommitProtect(w)
  BY <1>3, TaskEnds DEF CommitProtect, SparesMoves, files
<1> QED
  BY <1>1, <1>2, <1>3 DEF Protecting

\* Moving a copy: the drive it leaves is not the one it goes to.
LEMMA MovingGoesOn ==
  ASSUME StorageInv, NEW w \in Workers, StartMove(w) \/ Moving(w)
  PROVE  TasksHold'
<1>1. CASE StartMove(w)
  <2>1. PICK high \in Drives, low \in Drives :
          /\ row[high] = "verified" /\ row[low] = "none"
          /\ Run(w, Move(high, low))
    BY <1>1 DEF StartMove
  <2> DEFINE task == Move(high, low)
  <2>2. task \in Tasks /\ task.at = "move" /\ task.todo = {high} /\ task.bad = {low}
    BY <2>1, MoveFields
  <2>3. Run(w, task) /\ high # low
    BY <2>1, MoveFields
  <2>4. SparesMoves(w)
    BY <1>1 DEF StartMove, SparesMoves, files
  <2> HIDE DEF task
  <2>5. GoesOn(w, task)
    BY <2>2, <2>3 DEF GoesOn, IsMove, LockedBy, Locking
  <2> QED
    BY <2>4, <2>5, TaskGoesOn
<1>2. CASE MoveCopy(w)
  <2>1. PICK high \in worker[w].todo, low \in worker[w].bad :
          /\ PathFree(w, low)
          /\ copy' = [copy EXCEPT ![low] = Copied(copy[high], copy[low])]
          /\ Run(w, IF Copied(copy[high], copy[low]) = "good"
                    THEN [worker[w] EXCEPT !.at = "release", !.good = {low}, !.bad = {}]
                    ELSE NoTask)
    BY <1>2 DEF MoveCopy
  <2>2. high \in Drives /\ low \in Drives /\ high # low /\ worker[w].todo = {high}
    BY <1>2, <2>1, StorageTypes DEF MoveCopy, At, IsMove
  <2>3. SparesMoves(w) /\ copy'[low] = Copied(copy[high], copy[low])
    <3>1. copy[high] \in Bytes
      BY <2>2, StorageTypes
    <3> QED
      BY <2>1, <2>2, <3>1, CopyIsKept, StorageTypes DEF SparesMoves
  <2>4. CASE Copied(copy[high], copy[low]) = "good"
    <3> DEFINE task == [worker[w] EXCEPT !.at = "release", !.good = {low}, !.bad = {}]
    <3>1. /\ task \in Tasks /\ task.at = "release" /\ task.good = {low}
          /\ task.todo = {high}
      BY <2>2, StorageTypes DEF Tasks
    <3>2. Run(w, task)
      BY <2>1, <2>4
    <3> HIDE DEF task
    <3>3. GoesOn(w, task)
      BY <2>1, <2>2, <2>3, <2>4, <3>1, <3>2 DEF GoesOn, IsMove, LockedBy, Locking
    <3> QED
      BY <2>3, <3>3, TaskGoesOn
  <2>5. CASE Copied(copy[high], copy[low]) # "good"
    BY <2>1, <2>3, <2>5, TaskEnds DEF Ends
  <2> QED
    BY <2>4, <2>5
<1>3. CASE ReleaseOld(w)
  <2>1. PICK high \in worker[w].todo :
          PathFree(w, high) /\ copy' = [copy EXCEPT ![high] = "gone"]
    BY <1>3 DEF ReleaseOld
  <2>2. /\ At(w, "release") /\ high \in Drives /\ worker[w].todo = {high}
    BY <1>3, <2>1, StorageTypes DEF ReleaseOld, At, IsMove
  <2> DEFINE task == [worker[w] EXCEPT !.at = "moved"]
  <2>3. /\ task \in Tasks /\ task.at = "moved" /\ task.good = worker[w].good
        /\ task.todo = {high}
    BY <2>2, StorageTypes DEF Tasks
  <2>4. Run(w, task)
    BY <1>3 DEF ReleaseOld
  <2> HIDE DEF task
  <2>5. GoesOn(w, task)
    BY <2>1, <2>2, <2>3, <2>4 DEF GoesOn, IsMove, LockedBy, Locked, At, Locking
  <2>6. SparesMoves(w)
    BY <2>1, <2>2, StorageTypes DEF SparesMoves, PathFree, Locked, At
  <2> QED
    BY <2>5, <2>6, TaskGoesOn
<1>4. CASE CommitMove(w)
  BY <1>4, TaskEnds DEF CommitMove, SparesMoves, files
<1> QED
  BY <1>1, <1>2, <1>3, <1>4 DEF Moving

\* The monitor locks nothing.
LEMMA MonitoringGoesOn ==
  ASSUME StorageInv, NEW w \in Workers,
         StartScheduled(w) \/ StartVerifyOnly(w) \/ Monitoring(w)
  PROVE  TasksHold'
<1>1. SparesMoves(w)
  BY DEF StartScheduled, StartVerifyOnly, StartMonitor, Monitoring, HashOriginal, HashCopies,
         QueueRestore, QueueProtect, CommitMonitor, MonitorIsStale, SparesMoves, files
<1>2. ASSUME NEW task \in Tasks, Run(w, task), task.at \in {"look", "copies", "decide", "commit"}
      PROVE  TasksHold'
  <2>1. GoesOn(w, task)
    BY <1>2 DEF GoesOn, IsMove, LockedBy, Locking
  <2> QED
    BY <1>1, <2>1, TaskGoesOn
<1>3. CASE StartScheduled(w) \/ StartVerifyOnly(w)
  <2>1. PICK repair \in BOOLEAN :
          Run(w, [NoTask EXCEPT !.at = "look", !.seen = asset, !.repair = repair])
    BY <1>3 DEF StartScheduled, StartVerifyOnly, StartMonitor
  <2> DEFINE task == [NoTask EXCEPT !.at = "look", !.seen = asset, !.repair = repair]
  <2>2. task \in Tasks /\ task.at = "look"
    BY NoTaskFields, StorageTypes DEF Tasks
  <2> QED
    BY <1>2, <2>1, <2>2
<1>4. CASE HashOriginal(w)
  <2> DEFINE ok == original = "good"
             listed == { d \in Drives : row[d] # "none" }
             task == [worker[w] EXCEPT !.at = "copies", !.ok = ok, !.todo = listed,
                                       !.was = Verified]
  <2>1. Run(w, task)
    BY <1>4 DEF HashOriginal
  <2>2. ok \in BOOLEAN /\ listed \subseteq Drives /\ Verified \subseteq Drives
    BY DEF Verified
  <2> HIDE DEF ok, listed
  <2>3. task \in Tasks /\ task.at = "copies"
    BY <2>2, StorageTypes DEF Tasks
  <2> QED
    BY <1>2, <2>1, <2>3
<1>5. CASE HashCopies(w)
  <2> DEFINE healthy == { d \in worker[w].todo : copy[d] = "good" }
             others == worker[w].todo \ healthy
             task == [worker[w] EXCEPT !.at = "decide", !.todo = {}, !.good = healthy,
                                       !.bad = others]
  <2>1. Run(w, task)
    BY <1>5 DEF HashCopies
  <2>2. healthy \subseteq Drives /\ others \subseteq Drives
    BY StorageTypes
  <2> HIDE DEF healthy, others
  <2>3. task \in Tasks /\ task.at = "decide"
    BY <2>2, StorageTypes DEF Tasks
  <2> QED
    BY <1>2, <2>1, <2>3
<1>6. CASE QueueProtect(w)
  <2> DEFINE task == [worker[w] EXCEPT !.at = "commit"]
  <2>1. Run(w, task)
    BY <1>6 DEF QueueProtect
  <2>2. task \in Tasks /\ task.at = "commit"
    BY StorageTypes DEF Tasks
  <2> QED
    BY <1>2, <2>1, <2>2
<1>7. CASE QueueRestore(w) \/ CommitMonitor(w) \/ MonitorIsStale(w)
  <2>1. Ends(w)
    BY <1>7 DEF QueueRestore, CommitMonitor, MonitorIsStale
  <2> QED
    BY <1>1, <2>1, TaskEnds
<1> QED
  BY <1>3, <1>4, <1>5, <1>6, <1>7 DEF Monitoring

----------------------------------------------------------------------------
\* Every step keeps the locks apart and the moves sound.
LEMMA TasksHoldOn ==
  ASSUME StorageInv, StorageNext
  PROVE  TasksHold'
<1>1. ASSUME NEW w \in Workers,
             \/ StartRestore(w) \/ Restoring(w) \/ RestoreFails(w)
             \/ StartProtect(w) \/ Protecting(w) \/ StartMove(w) \/ Moving(w)
             \/ StartScheduled(w) \/ StartVerifyOnly(w) \/ Monitoring(w)
      PROVE  TasksHold'
  BY <1>1, RestoringGoesOn, ProtectingGoesOn, MovingGoesOn, MonitoringGoesOn
<1>2. ASSUME NEW w \in Workers, ProtectFails(w) \/ Deadlock(w) \/ KillTask(w)
      PROVE  TasksHold'
  <2>1. Ends(w) /\ UNCHANGED copy
    BY <1>2 DEF ProtectFails, Deadlock, ProtectBreaks, KillTask, files
  <2> QED
    BY <2>1, TaskEnds DEF SparesMoves
<1>3. ASSUME \/ \E w \in Workers : CannotProtect(w)
             \/ AskRestore \/ AskProtect \/ EventAges \/ LoseTask
      PROVE  TasksHold'
  <2>1. UNCHANGED << worker, copy >>
    BY <1>3 DEF CannotProtect, AskRestore, AskProtect, EventAges, LoseTask, files
  <2> QED
    BY <2>1, TasksStay
<1>4. ASSUME Damage
      PROVE  TasksHold'
  <2>1. \A w \in Workers : At(w, "release") =>
          \A d \in worker[w].good : copy[d] = "good" => copy'[d] = "good"
    BY <1>4, StorageTypes DEF Damage
  <2>2. UNCHANGED worker
    BY <1>4 DEF Damage
  <2> QED
    BY <2>1, <2>2, TasksStay
<1> QED
  BY <1>1, <1>2, <1>3, <1>4 DEF StorageNext, Begin, Goes

\* What the system does to the files.
FilesMove ==
  faults' = faults =>
    /\ original = "good" => original' = "good"
    /\ (original = "good" \/ \E d \in Drives : copy[d] = "good") =>
         original' = "good" \/ \E d \in Drives : copy'[d] = "good"

\* Only a fault destroys: what writes keeps what is good, and what takes a copy
\* away has made another one.
LEMMA FilesMoveOn ==
  ASSUME StorageInv, StorageNext
  PROVE  original' \in Bytes /\ copy' \in [Drives -> Bytes] /\ FilesMove
<1> DEFINE Goal == original' \in Bytes /\ copy' \in [Drives -> Bytes] /\ FilesMove
<1>1. CASE UNCHANGED files
  BY <1>1, StorageTypes DEF files, FilesMove
<1>2. ASSUME NEW w \in Workers, TryCandidate(w)
      PROVE  Goal
  <2>1. (original' = "good" \/ UNCHANGED original) /\ UNCHANGED copy
    BY <1>2 DEF TryCandidate
  <2> QED
    BY <2>1, StorageTypes DEF FilesMove, Bytes
<1>3. ASSUME NEW w \in Workers, CopyTo(w)
      PROVE  Goal
  <2>1. PICK d \in worker[w].todo : copy' = [copy EXCEPT ![d] = Copied(original, copy[d])]
    BY <1>3 DEF CopyTo
  <2>2. UNCHANGED original /\ d \in Drives /\ original \in Bytes
    BY <1>3, StorageTypes DEF CopyTo
  <2> QED
    BY <2>1, <2>2, CopyIsKept DEF FilesMove
<1>4. ASSUME NEW w \in Workers, MoveCopy(w)
      PROVE  Goal
  <2>1. PICK high \in worker[w].todo, low \in worker[w].bad :
          copy' = [copy EXCEPT ![low] = Copied(copy[high], copy[low])]
    BY <1>4 DEF MoveCopy
  <2>2. UNCHANGED original /\ low \in Drives /\ copy[high] \in Bytes /\ original \in Bytes
    BY <1>4, StorageTypes DEF MoveCopy
  <2> QED
    BY <2>1, <2>2, CopyIsKept DEF FilesMove
<1>5. ASSUME NEW w \in Workers, ReleaseOld(w)
      PROVE  Goal
  <2>1. PICK high \in worker[w].todo : copy' = [copy EXCEPT ![high] = "gone"]
    BY <1>5 DEF ReleaseOld
  <2>2. PICK low \in Drives : low # high /\ copy[low] = "good" /\ high \in Drives
    <3>1. worker[w] \in Tasks /\ IsMove(worker[w]) /\ worker[w].at = "release"
          /\ \A d \in worker[w].good : copy[d] = "good"
      BY <1>5, StorageTypes DEF ReleaseOld, At, StorageInv, MovesAreSound
    <3> QED
      BY <2>1, <3>1 DEF IsMove
  <2>3. copy'[low] = "good" /\ copy' \in [Drives -> Bytes] /\ UNCHANGED original
    BY <1>5, <2>1, <2>2, StorageTypes DEF ReleaseOld, Bytes
  <2> QED
    BY <2>2, <2>3, StorageTypes DEF FilesMove
<1>6. ASSUME Damage
      PROVE  Goal
  <2>1. faults' # faults
    BY <1>6, StorageTypes DEF Damage, Fault
  <2>2. original' \in Bytes /\ copy' \in [Drives -> Bytes]
    BY <1>6, StorageTypes DEF Damage, Bytes
  <2> QED
    BY <2>1, <2>2 DEF FilesMove
<1>7. \/ UNCHANGED files \/ Damage
      \/ \E w \in Workers : TryCandidate(w) \/ CopyTo(w) \/ MoveCopy(w) \/ ReleaseOld(w)
  BY DEF StorageNext, Begin, Goes, Restoring, Protecting, Moving, Monitoring, StartRestore,
         CommitRestore, NoUsableReplica, RestoreIsStale, RestoreFails, StartProtect,
         CannotProtect, CommitProtect, ProtectBreaks, ProtectFails, StartMove, CommitMove,
         Deadlock, StartMonitor, StartScheduled, StartVerifyOnly, HashOriginal, HashCopies,
         QueueRestore, QueueProtect, CommitMonitor, MonitorIsStale, AskRestore, AskProtect,
         EventAges, KillTask, LoseTask
<1> QED
  BY <1>1, <1>2, <1>3, <1>4, <1>5, <1>6, <1>7

\* What tasks write keeps its type.
RowsTyped ==
  /\ row \in [Drives -> {"none", "verified", "failed"}]
  /\ asset \in AssetStatuses /\ event \in {"none", "fresh", "due"} /\ critical \in BOOLEAN
  /\ queue \subseteq {"restore", "protect"}
  /\ {faults, requests} \subseteq 0 .. MaxEvents

\* The rows, the queue and the counters.
LEMMA RowsMoveOn ==
  ASSUME StorageInv, StorageNext
  PROVE  RowsTyped'
<1>a. /\ RowsTyped /\ faults \in 0 .. MaxEvents /\ requests \in 0 .. MaxEvents
      /\ MaxEvents \in Nat
  BY StorageTypes DEF RowsTyped, StorageInv, StorageTypeOK
<1>b. \A w \in Workers : Marked(w) \in [Drives -> {"none", "verified", "failed"}]
  BY <1>a DEF Marked, RowsTyped
<1>c. Fault => faults' \in 0 .. MaxEvents
  BY <1>a DEF Fault
<1>d. Asked => requests' \in 0 .. MaxEvents
  BY <1>a DEF Asked
<1>e. \A kind \in {"restore", "protect"} : Retry(kind) => queue' \subseteq {"restore", "protect"}
  BY <1>a DEF Retry, RowsTyped
<1>f. /\ \A status \in {"none", "queued", "restored", "failed"} :
           [asset EXCEPT !.restore = status] \in AssetStatuses
      /\ \A status \in {"pending", "protected", "degraded", "failed"} :
           [asset EXCEPT !.protection = status] \in AssetStatuses
      /\ asset.restore \in {"none", "queued", "restored", "failed"}
      /\ asset.protection \in {"pending", "protected", "degraded", "failed"}
  BY <1>a DEF RowsTyped, AssetStatuses
<1>1. ASSUME NEW w \in Workers, StartRestore(w) \/ TryCandidate(w) \/ RestoreIsStale(w)
      PROVE  RowsTyped'
  BY <1>1, <1>a, <1>e DEF StartRestore, TryCandidate, RestoreIsStale, RowsTyped, rows
<1>2. ASSUME NEW w \in Workers, CommitRestore(w) \/ NoUsableReplica(w)
      PROVE  RowsTyped'
  <2>1. asset' \in AssetStatuses
    BY <1>2, <1>f DEF CommitRestore, NoUsableReplica, AssetStatuses
  <2> QED
    BY <1>2, <2>1, <1>a, <1>b DEF CommitRestore, NoUsableReplica, RowsTyped
<1>3. ASSUME NEW w \in Workers,
             \/ RestoreFails(w) \/ CannotProtect(w)
             \/ ProtectBreaks(w) /\ (Fault \/ UNCHANGED faults)
      PROVE  RowsTyped'
  <2>1. asset' \in AssetStatuses
    BY <1>3, <1>f DEF RestoreFails, CannotProtect, ProtectBreaks
  <2> QED
    BY <1>3, <2>1, <1>a, <1>c, <1>e DEF RestoreFails, CannotProtect, ProtectBreaks, RowsTyped
<1>4. ASSUME NEW w \in Workers,
             StartProtect(w) \/ CopyTo(w) \/ MoveCopy(w) \/ ReleaseOld(w)
               \/ HashOriginal(w) \/ HashCopies(w) \/ QueueProtect(w) \/ MonitorIsStale(w)
      PROVE  RowsTyped'
  BY <1>4, <1>a DEF StartProtect, CopyTo, MoveCopy, ReleaseOld, HashOriginal, HashCopies,
                    QueueProtect, MonitorIsStale, RowsTyped, rows
<1>5. ASSUME NEW w \in Workers, CommitProtect(w)
      PROVE  RowsTyped'
  <2>1. asset' \in AssetStatuses
    BY <1>5, <1>f DEF CommitProtect
  <2> QED
    BY <1>5, <2>1, <1>a, <1>b DEF CommitProtect, RowsTyped
<1>6. ASSUME NEW w \in Workers, StartMove(w) \/ StartScheduled(w) \/ StartVerifyOnly(w)
      PROVE  RowsTyped'
  BY <1>6, <1>a, <1>d DEF StartMove, StartScheduled, StartVerifyOnly, StartMonitor, RowsTyped,
                          rows
<1>7. ASSUME NEW w \in Workers, CommitMove(w)
      PROVE  RowsTyped'
  BY <1>7, <1>a DEF CommitMove, RowsTyped
<1>8. ASSUME NEW w \in Workers, Deadlock(w)
      PROVE  RowsTyped'
  BY <1>8, <1>3, <1>a DEF Deadlock, RowsTyped, rows
<1>9. ASSUME NEW w \in Workers, QueueRestore(w)
      PROVE  RowsTyped'
  <2>1. asset' \in AssetStatuses
    BY <1>9, <1>f DEF QueueRestore, Put
  <2>2. queue' \subseteq {"restore", "protect"} /\ (UNCHANGED faults \/ Fault)
    BY <1>9, <1>a DEF QueueRestore, RowsTyped
  <2> QED
    BY <1>9, <2>1, <2>2, <1>a, <1>b, <1>c DEF QueueRestore, RowsTyped
<1>10. ASSUME NEW w \in Workers, CommitMonitor(w)
       PROVE  RowsTyped'
  <2>1. asset' \in AssetStatuses
    BY <1>10, <1>a, <1>f DEF CommitMonitor, Put, RowsTyped, AssetStatuses
  <2>2. event' \in {"none", "fresh", "due"} /\ critical' \in BOOLEAN
    BY <1>10, <1>a DEF CommitMonitor, RowsTyped
  <2> QED
    BY <1>10, <2>1, <2>2, <1>a, <1>b DEF CommitMonitor, RowsTyped
<1>11. ASSUME NEW w \in Workers, KillTask(w)
       PROVE  RowsTyped'
  BY <1>11, <1>a, <1>c, <1>e DEF KillTask, RowsTyped, rows
<1>12. ASSUME AskRestore \/ AskProtect
       PROVE  RowsTyped'
  <2>1. asset' \in AssetStatuses
    BY <1>12, <1>f DEF AskRestore, AskProtect
  <2> QED
    BY <1>12, <2>1, <1>a, <1>d DEF AskRestore, AskProtect, RowsTyped
<1>13. ASSUME EventAges \/ Damage \/ LoseTask
       PROVE  RowsTyped'
  BY <1>13, <1>a, <1>c DEF EventAges, Damage, LoseTask, RowsTyped, rows
<1>14. ASSUME NEW w \in Workers, Begin(w) \/ StartMove(w) \/ StartScheduled(w)
                                 \/ StartVerifyOnly(w) \/ RestoreFails(w) \/ ProtectFails(w)
                                 \/ KillTask(w)
       PROVE  RowsTyped'
  BY <1>14, <1>1, <1>3, <1>4, <1>6, <1>11 DEF Begin, ProtectFails
<1>15. ASSUME NEW w \in Workers, Goes(w)
       PROVE  RowsTyped'
  BY <1>15, <1>1, <1>2, <1>4, <1>5, <1>7, <1>8, <1>9, <1>10
     DEF Goes, Restoring, Protecting, Moving, Monitoring
<1> QED
  BY <1>12, <1>13, <1>14, <1>15 DEF StorageNext

----------------------------------------------------------------------------
\* Every step of the storage tasks preserves the invariant.
LEMMA StorageStep == StorageInv /\ [StorageNext]_storage => StorageInv'
<1> SUFFICES ASSUME StorageInv, [StorageNext]_storage PROVE StorageInv'
  OBVIOUS
<1>1. CASE StorageNext
  <2>1. TasksHold' /\ RowsTyped'
    BY <1>1, TasksHoldOn, RowsMoveOn
  <2>2. original' \in Bytes /\ copy' \in [Drives -> Bytes]
    BY <1>1, FilesMoveOn
  <2> QED
    BY <2>1, <2>2 DEF StorageInv, StorageTypeOK, TasksHold, RowsTyped, Locking
<1>2. CASE UNCHANGED storage
  BY <1>2 DEF storage, files, rows, StorageInv, StorageTypeOK, MovesAreSound, IsMove, At, Locked
<1> QED
  BY <1>1, <1>2

\* The inductive invariant holds in every behaviour.
THEOREM StorageInvariance == StorageSpec => []StorageInv
BY StorageInitially, StorageStep, PTL DEF StorageSpec

\* Every variable keeps its type, and no two tasks hold the asset or one path.
THEOREM StorageIsTyped == StorageSpec => []StorageTypeOK
<1>1. StorageInv => StorageTypeOK
  BY DEF StorageInv
<1> QED
  BY <1>1, StorageInvariance, PTL

\* What restore, protect, balancing and the monitor do, however they overlap or
\* break off, never damages a good original nor takes away the last good file.
THEOREM MovesDestroyNothing == StorageSpec => OnlyFaultsDestroy
<1>1. StorageInv /\ [StorageNext]_storage => [FilesMove]_storage
  BY FilesMoveOn
<1>2. [][FilesMove]_storage => OnlyFaultsDestroy
  BY PTL DEF OnlyFaultsDestroy, FilesMove
<1> QED
  BY <1>1, <1>2, StorageInvariance, PTL DEF StorageSpec
=============================================================================
