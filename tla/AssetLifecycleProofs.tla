------------------------ MODULE AssetLifecycleProofs ------------------------
(***************************************************************************)
(* AssetLifecycle for any number of rows, contents, requests and purges.   *)
(*                                                                         *)
(* Nobody holds two locks on the files of one content at a time, and       *)
(* whatever a purge has in hand is due and stays so (LocksHold).  So the   *)
(* test for other rows that a purge makes before it unlinks is still true  *)
(* when it commits (UnlinkedStays), and the row whose bytes it takes is    *)
(* nobody else's.  A request that has read an asset as active cannot turn  *)
(* a tombstone back (RequestsAreYoung), as no request outlives retention.  *)
(***************************************************************************)
EXTENDS AssetLifecycle, TLAPS

Content(p) == row[purger[p].asset].content
AtFiles(p) == purger[p].step \in {"original", "thumbnail"}

\* What a purge has locked is one due row that no task is processing.
RowsAreHeld ==
  /\ \A p \in Purgers : purger[p].asset = Null <=> purger[p].step = "idle"
  /\ \A p \in Purgers : purger[p].asset # Null =>
       /\ IsDue(purger[p].asset)
       /\ purger[p].asset \notin publishing
  /\ \A p, q \in Purgers :
       purger[p].asset # Null /\ purger[p].asset = purger[q].asset => p = q
  /\ \A a \in publishing : row[a].state = "active"

\* What is published and not committed is there; an upload runs beside no task
\* and in an account in service.
PublishedIsThere ==
  /\ uploading # Null => publishing = {} /\ uploading \in originals /\ user = "enabled"
  /\ \A a \in publishing : row[a].content \in thumbnails

\* One holder of the locks of a path at a time.
PathsAreHeld ==
  /\ \A p, q \in Purgers : AtFiles(p) /\ AtFiles(q) /\ Content(p) = Content(q) => p = q
  /\ \A p \in Purgers : AtFiles(p) => uploading # Content(p)
  /\ \A p \in Purgers : purger[p].step = "thumbnail" =>
       \A a \in publishing : row[a].content # Content(p)

LocksHold == RowsAreHeld /\ PublishedIsThere /\ PathsAreHeld

\* No request is about a row that is due, in an account in service.
RequestsAreYoung ==
  /\ \A a \in Assets : row[a].state = "purging" => row[a].due
  /\ user = "enabled" =>
       \A t \in Trashers : trasher[t] # Null =>
         trasher[t] \in Stored /\ ~row[trasher[t]].due

\* The bytes a purge has passed are gone, or those of another row as well.
UnlinkedStays ==
  \A p \in Purgers :
    /\ AtFiles(p) => Content(p) \notin originals \/ Others(purger[p].asset) # {}
    /\ purger[p].step = "thumbnail" =>
         \/ Content(p) \notin thumbnails
         \/ \E b \in Others(purger[p].asset) : row[b].thumbnail

BytesAreKnown == kills = 0 => CatalogHasBytes

LifecycleInv ==
  LifecycleTypeOK /\ LocksHold /\ RequestsAreYoung /\ UnlinkedStays /\ BytesAreKnown /\ NothingLeaks

\* The revisions whose bytes an account in service relies on.
Shown(a) ==
  row[a].state \in {"active", "superseded"} \/ (row[a].state = "trashed" /\ ~Locked(a))
HasBytes(a) ==
  row[a].content \in originals /\ (row[a].thumbnail => row[a].content \in thumbnails)

\* What a transaction does that touches no file: it leaves the locked rows
\* alone, drops no row, and shows no content that was not shown before.
KeepsCatalog ==
  /\ UNCHANGED << originals, thumbnails, uploading, publishing, purger, crashes, kills >>
  /\ \A a \in Assets : Locked(a) => row'[a] = row[a]
  /\ \A a \in Stored : /\ row'[a].state # "absent"
                       /\ row'[a].content = row[a].content
                       /\ row'[a].thumbnail = row[a].thumbnail
  /\ user' = user \/ uploading = Null
  /\ user' = "enabled" =>
       /\ user = "enabled"
       /\ \A a \in Assets : Shown(a)' =>
            \E b \in Assets : /\ Shown(b)
                              /\ row'[a].content = row[b].content
                              /\ row'[a].thumbnail = row[b].thumbnail

\* The account starts empty.
LEMMA LifecycleInitially == LifecycleInit => LifecycleInv
<1> SUFFICES ASSUME LifecycleInit PROVE LifecycleInv
  OBVIOUS
<1> USE LifecycleAssumption DEF LifecycleInit, NoRow, Resting
<1>1. LifecycleTypeOK
  <2>1. NoRow \in Rows
    BY DEF Rows, States
  <2> QED
    BY <2>1 DEF LifecycleTypeOK, Stored, Steps
<1>2. LocksHold
  BY DEF LocksHold, RowsAreHeld, PublishedIsThere, PathsAreHeld, AtFiles
<1>3. RequestsAreYoung /\ UnlinkedStays
  BY DEF RequestsAreYoung, UnlinkedStays, AtFiles
<1>4. BytesAreKnown /\ NothingLeaks
  BY DEF BytesAreKnown, CatalogHasBytes, NothingLeaks, Stored
<1> QED
  BY <1>1, <1>2, <1>3, <1>4 DEF LifecycleInv

\* Transactions without files keep the locks and the bytes, whatever they do.
LEMMA CatalogStepIsSafe ==
  LifecycleInv /\ KeepsCatalog /\ LifecycleTypeOK' /\ RequestsAreYoung' => LifecycleInv'
<1> SUFFICES ASSUME LifecycleInv, KeepsCatalog, LifecycleTypeOK', RequestsAreYoung'
             PROVE  LifecycleInv'
  OBVIOUS
<1>1. \A p \in Purgers : purger[p].asset # Null =>
        purger[p].asset \in Stored /\ row'[purger[p].asset] = row[purger[p].asset]
  BY DEF LifecycleInv, LifecycleTypeOK, LocksHold, RowsAreHeld, IsDue, KeepsCatalog, Locked, Stored
<1>2. \A a \in publishing : a \in Stored /\ row'[a] = row[a]
  BY DEF LifecycleInv, LifecycleTypeOK, LocksHold, RowsAreHeld, KeepsCatalog, Locked, Stored
<1>3. \A p \in Purgers : AtFiles(p) => purger[p].asset # Null
  BY DEF LifecycleInv, LocksHold, RowsAreHeld, AtFiles
<1>4. LocksHold'
  <2>1. RowsAreHeld'
    BY <1>1, <1>2 DEF LifecycleInv, LocksHold, RowsAreHeld, KeepsCatalog, IsDue
  <2>2. PublishedIsThere'
    BY <1>2 DEF LifecycleInv, LocksHold, PublishedIsThere, KeepsCatalog
  <2>3. PathsAreHeld'
    BY <1>1, <1>2, <1>3 DEF LifecycleInv, LocksHold, PathsAreHeld, AtFiles, Content,
                            KeepsCatalog
  <2> QED
    BY <2>1, <2>2, <2>3 DEF LocksHold
<1>5. \A p \in Purgers : AtFiles(p) =>
        /\ Content(p)' = Content(p)
        /\ \A b \in Others(purger[p].asset) :
             b \in Others(purger[p].asset)' /\ row'[b].thumbnail = row[b].thumbnail
  BY <1>1, <1>3 DEF Others, Content, Stored, KeepsCatalog
<1>6. UnlinkedStays'
  <2> SUFFICES ASSUME NEW p \in Purgers, AtFiles(p)
               PROVE  /\ Content(p)' \notin originals \/ Others(purger[p].asset)' # {}
                      /\ purger[p].step = "thumbnail" =>
                           \/ Content(p)' \notin thumbnails
                           \/ \E b \in Others(purger[p].asset)' : row'[b].thumbnail
    BY DEF UnlinkedStays, KeepsCatalog, AtFiles
  <2>1. Content(p) \notin originals \/ Others(purger[p].asset) # {}
    BY DEF LifecycleInv, UnlinkedStays
  <2>2. purger[p].step = "thumbnail" =>
           Content(p) \notin thumbnails \/ \E b \in Others(purger[p].asset) : row[b].thumbnail
    BY DEF LifecycleInv, UnlinkedStays
  <2> QED
    BY <1>5, <2>1, <2>2
<1>7. BytesAreKnown'
  BY DEF LifecycleInv, BytesAreKnown, CatalogHasBytes, KeepsCatalog, Shown, Stored
<1>8. NothingLeaks'
  BY <1>2 DEF LifecycleInv, NothingLeaks, KeepsCatalog, Stored
<1> QED
  BY <1>4, <1>6, <1>7, <1>8 DEF LifecycleInv

\* What the steps of trash, restore, rollback and sync do to one row.
Rewrites ==
  /\ row' \in [Assets -> Rows]
  /\ \A a \in Assets :
       row'[a].state # "absent" => row'[a].item \in Items /\ row'[a].content \in Checksums
  /\ \A a \in Assets : row'[a].due => row'[a].state \in {"trashed", "purging"}
  /\ \A a \in Assets : row'[a].state = "purging" => row'[a].due

\* The part of the proof about requests and types that these steps share.
LEMMA RewriteIsTyped ==
  ASSUME LifecycleInv, KeepsCatalog, Rewrites, failures' = failures,
         user' \in {"enabled", "disabled"},
         trasher' \in [Trashers -> Assets \cup {Null}],
         user' = "enabled" => \A t \in Trashers : trasher'[t] # Null =>
                                trasher'[t] \in Stored /\ ~row'[trasher'[t]].due
  PROVE  LifecycleInv'
<1>1. LifecycleTypeOK'
  BY DEF LifecycleInv, LifecycleTypeOK, KeepsCatalog, Rewrites, Stored
<1>2. RequestsAreYoung'
  BY LifecycleAssumption DEF RequestsAreYoung, KeepsCatalog, Rewrites, Stored
<1> QED
  BY <1>1, <1>2, CatalogStepIsSafe

\* A row with another state and no deadline has the bytes it had.
LEMMA RewrittenRecord ==
  ASSUME NEW r \in Rows, NEW q, NEW s \in States,
         q = [r EXCEPT !.state = s, !.due = FALSE]
  PROVE  /\ q \in Rows /\ q.state = s /\ ~q.due
         /\ q.item = r.item /\ q.content = r.content /\ q.thumbnail = r.thumbnail
BY DEF Rows

\* The same, of one row of the catalog.
LEMMA RewrittenRow ==
  ASSUME LifecycleTypeOK, NEW a \in Assets, NEW s \in States,
         row' = [row EXCEPT ![a].state = s, ![a].due = FALSE]
  PROVE  /\ row' \in [Assets -> Rows]
         /\ row'[a].state = s /\ ~row'[a].due
         /\ row'[a].item = row[a].item /\ row'[a].content = row[a].content
         /\ row'[a].thumbnail = row[a].thumbnail
         /\ \A b \in Assets \ {a} : row'[b] = row[b]
<1>1. row[a] \in Rows
  BY DEF LifecycleTypeOK
<1>2. row'[a] = [row[a] EXCEPT !.state = s, !.due = FALSE]
  BY DEF LifecycleTypeOK
<1>3. /\ row'[a] \in Rows /\ row'[a].state = s /\ ~row'[a].due
      /\ row'[a].item = row[a].item /\ row'[a].content = row[a].content
      /\ row'[a].thumbnail = row[a].thumbnail
  BY <1>1, <1>2, RewrittenRecord
<1>4. \A b \in Assets \ {a} : row'[b] = row[b]
  BY DEF LifecycleTypeOK
<1>5. row' \in [Assets -> Rows]
  BY <1>3, <1>4 DEF LifecycleTypeOK
<1> QED
  BY <1>3, <1>4, <1>5

\* A request starts about an active row, which has no deadline.
LEMMA TrashReadIsSafe ==
  ASSUME LifecycleInv, NEW t \in Trashers, NEW a \in Assets, TrashRead(t, a)
  PROVE  LifecycleInv'
<1> USE DEF TrashRead, files, bounds
<1>1. KeepsCatalog
  BY DEF KeepsCatalog, Stored, Shown, Locked
<1>2. Rewrites
  BY DEF Rewrites, LifecycleInv, LifecycleTypeOK, Stored, RequestsAreYoung
<1>3. \A u \in Trashers : trasher'[u] # Null => trasher'[u] \in Stored /\ ~row'[trasher'[u]].due
  BY DEF LifecycleInv, LifecycleTypeOK, Stored, Active, RequestsAreYoung
<1> QED
  BY <1>1, <1>2, <1>3, RewriteIsTyped DEF LifecycleInv, LifecycleTypeOK

\* A row that no transaction holds, and whose bytes are relied on if any are,
\* turns active or into trash.
LEMMA TurnedRowIsSafe ==
  ASSUME LifecycleInv, NEW a \in Stored, ~Locked(a), NEW s \in {"active", "trashed"},
         user = "enabled" => Shown(a),
         row' = [row EXCEPT ![a].state = s, ![a].due = FALSE],
         UNCHANGED << user, originals, thumbnails, uploading, publishing, purger,
                      failures, crashes, kills >>,
         trasher' \in [Trashers -> Assets \cup {Null}],
         \A t \in Trashers : trasher'[t] \in {Null, trasher[t]}
  PROVE  LifecycleInv'
<1>1. LifecycleTypeOK /\ a \in Assets /\ s \in States
  BY DEF LifecycleInv, States, Stored
<1>2. /\ row' \in [Assets -> Rows] /\ \A b \in Assets \ {a} : row'[b] = row[b]
      /\ row'[a].state = s /\ ~row'[a].due /\ row'[a].item = row[a].item
      /\ row'[a].content = row[a].content /\ row'[a].thumbnail = row[a].thumbnail
  BY <1>1, RewrittenRow
<1>3. Rewrites
  BY <1>1, <1>2 DEF Rewrites, LifecycleInv, LifecycleTypeOK, Stored, RequestsAreYoung
<1>4. KeepsCatalog
  BY <1>1, <1>2 DEF KeepsCatalog, Stored, Shown, Locked
<1>5. user = "enabled" => \A t \in Trashers : trasher'[t] # Null =>
                            trasher'[t] \in Stored /\ ~row'[trasher'[t]].due
  BY <1>1, <1>2 DEF LifecycleInv, LifecycleTypeOK, RequestsAreYoung
<1> QED
  BY <1>1, <1>3, <1>4, <1>5, RewriteIsTyped DEF LifecycleTypeOK

\* A request that has read a row as active finds it in place, not due and, as
\* it waited for the lock, relied on.
LEMMA TrashIsSafe ==
  ASSUME LifecycleInv, NEW t \in Trashers, Trash(t)
  PROVE  LifecycleInv'
<1> DEFINE a == trasher[t]
<1>1. a \in Assets /\ ~Locked(a)
  BY DEF LifecycleInv, LifecycleTypeOK, Trash
<1>2. /\ trasher' \in [Trashers -> Assets \cup {Null}]
      /\ \A u \in Trashers : trasher'[u] \in {Null, trasher[u]}
  BY DEF LifecycleInv, LifecycleTypeOK, Trash
<1>3. UNCHANGED << user, originals, thumbnails, uploading, publishing, purger,
                   failures, crashes, kills >>
  BY DEF Trash, files, bounds
<1>4. CASE a \in Stored
  <2>1. user = "enabled" => Shown(a)
    BY <1>1, <1>4 DEF LifecycleInv, RequestsAreYoung, Shown, Stored, LifecycleTypeOK, Rows, States, Trash
  <2>2. row' = [row EXCEPT ![a].state = "trashed", ![a].due = FALSE]
    BY <1>4 DEF Trash, Trashed
  <2> QED
    BY <1>1, <1>2, <1>3, <1>4, <2>1, <2>2, TurnedRowIsSafe
<1>5. CASE a \notin Stored
  <2>1. row' = row
    BY <1>5 DEF Trash
  <2>2. Rewrites /\ KeepsCatalog
    BY <1>3, <2>1 DEF Rewrites, KeepsCatalog, LifecycleInv, LifecycleTypeOK, Stored, RequestsAreYoung,
                      Shown, Locked
  <2>3. user = "enabled" => \A u \in Trashers : trasher'[u] # Null =>
                              trasher'[u] \in Stored /\ ~row'[trasher'[u]].due
    BY <1>2, <2>1 DEF LifecycleInv, LifecycleTypeOK, RequestsAreYoung
  <2> QED
    BY <1>2, <1>3, <2>2, <2>3, RewriteIsTyped DEF LifecycleInv, LifecycleTypeOK
<1> QED
  BY <1>4, <1>5

\* A synchronized delete trashes an active row, whose bytes are relied on.
LEMMA SyncDeleteIsSafe ==
  ASSUME LifecycleInv, NEW a \in Assets, SyncDelete(a)
  PROVE  LifecycleInv'
<1>1. a \in Stored /\ Shown(a) /\ ~Locked(a)
  BY DEF SyncDelete, Active, Stored, Shown
<1>2. row' = [row EXCEPT ![a].state = "trashed", ![a].due = FALSE]
  BY DEF SyncDelete, Trashed
<1> QED
  BY <1>1, <1>2, TurnedRowIsSafe DEF SyncDelete, files, tasks, bounds, LifecycleInv, LifecycleTypeOK

\* Restore finds a trashed row that nobody holds: a purge that had begun with it
\* has taken the row or left a tombstone.
LEMMA RestoreIsSafe ==
  ASSUME LifecycleInv, NEW a \in Assets, Restore(a)
  PROVE  LifecycleInv'
<1>1. a \in Stored /\ Shown(a) /\ ~Locked(a)
  BY DEF Restore, Revisions, Stored, Shown
<1> QED
  BY <1>1, TurnedRowIsSafe DEF Restore, files, tasks, bounds, LifecycleInv, LifecycleTypeOK

\* The deadline of a row passes when no request is about it.
LEMMA RetentionEndsIsSafe ==
  ASSUME LifecycleInv, NEW a \in Assets, RetentionEnds(a)
  PROVE  LifecycleInv'
<1>1. row[a] \in Rows /\ row[a].state = "trashed" /\ \A b \in Assets \ {a} : row'[b] = row[b]
  BY DEF LifecycleInv, LifecycleTypeOK, RetentionEnds
<1>2. row'[a] = [row[a] EXCEPT !.due = TRUE]
  BY DEF LifecycleInv, LifecycleTypeOK, RetentionEnds
<1>3. /\ row'[a] \in Rows /\ row'[a].state = "trashed" /\ row'[a].due
      /\ row'[a].item = row[a].item /\ row'[a].content = row[a].content
      /\ row'[a].thumbnail = row[a].thumbnail
  BY <1>1, <1>2 DEF Rows
<1>4. row' \in [Assets -> Rows]
  BY <1>1, <1>3 DEF LifecycleInv, LifecycleTypeOK, RetentionEnds
<1>5. ~Locked(a)
  BY LifecycleAssumption DEF Locked, RetentionEnds, LifecycleInv, LocksHold, RowsAreHeld, IsDue
<1>6. Rewrites
  BY <1>1, <1>3, <1>4 DEF Rewrites, LifecycleInv, LifecycleTypeOK, Stored, RequestsAreYoung,
                          RetentionEnds
<1>7. KeepsCatalog
  BY <1>1, <1>3, <1>5 DEF KeepsCatalog, Stored, Shown, Locked, RetentionEnds, files, tasks,
                          bounds
<1>8. user = "enabled" => \A t \in Trashers : trasher'[t] # Null =>
                            trasher'[t] \in Stored /\ ~row'[trasher'[t]].due
  BY <1>1 DEF LifecycleInv, LifecycleTypeOK, RequestsAreYoung, RetentionEnds, tasks, Stored
<1> QED
  BY <1>6, <1>7, <1>8, RewriteIsTyped DEF LifecycleInv, LifecycleTypeOK, RetentionEnds, tasks, bounds

\* The current revision and the historical one change places.
LEMMA RollbackIsSafe ==
  ASSUME LifecycleInv, NEW a \in Assets, NEW b \in Assets, Rollback(a, b)
  PROVE  LifecycleInv'
<1>1. /\ row[a] \in Rows /\ row[a].state = "active" /\ ~row[a].due
      /\ row[b] \in Rows /\ row[b].state = "superseded" /\ ~row[b].due /\ a # b
  BY DEF LifecycleInv, LifecycleTypeOK, Rollback, Active
<1>2. ~Locked(a) /\ ~Locked(b)
  BY DEF Rollback, Revisions, Active, Stored
<1>3. /\ row'[a] = [row[a] EXCEPT !.state = "superseded"]
      /\ row'[b] = [row[b] EXCEPT !.state = "active"]
      /\ \A c \in Assets \ {a, b} : row'[c] = row[c]
  BY <1>1 DEF LifecycleInv, LifecycleTypeOK, Rollback
<1>4. /\ row'[a] \in Rows /\ row'[a].state = "superseded" /\ ~row'[a].due
      /\ row'[a].item = row[a].item /\ row'[a].content = row[a].content
      /\ row'[a].thumbnail = row[a].thumbnail
  BY <1>1, <1>3 DEF Rows, States
<1>5. /\ row'[b] \in Rows /\ row'[b].state = "active" /\ ~row'[b].due
      /\ row'[b].item = row[b].item /\ row'[b].content = row[b].content
      /\ row'[b].thumbnail = row[b].thumbnail
  BY <1>1, <1>3 DEF Rows, States
<1>6. row' \in [Assets -> Rows]
  BY <1>3, <1>4, <1>5 DEF LifecycleInv, LifecycleTypeOK, Rollback
<1>7. Rewrites
  BY <1>1, <1>3, <1>4, <1>5, <1>6 DEF Rewrites, LifecycleInv, LifecycleTypeOK, Stored, RequestsAreYoung
<1>8. KeepsCatalog
  <2>1. UNCHANGED << user, originals, thumbnails, uploading, publishing, purger, crashes, kills >>
    BY DEF Rollback, files, tasks, bounds
  <2>2. ASSUME NEW c \in Assets
        PROVE  /\ Locked(c) => row'[c] = row[c]
               /\ row'[c].content = row[c].content /\ row'[c].thumbnail = row[c].thumbnail
               /\ row[c].state # "absent" => row'[c].state # "absent"
               /\ Shown(c)' => Shown(c)
    <3>1. CASE c \in {a, b}
      BY <3>1, <1>1, <1>2, <1>4, <1>5 DEF Shown
    <3>2. CASE c \notin {a, b}
      BY <3>2, <2>1, <1>3 DEF Shown, Locked
    <3> QED
      BY <3>1, <3>2
  <2> QED
    BY <2>1, <2>2 DEF KeepsCatalog, Stored, Rollback
<1>9. user = "enabled" => \A t \in Trashers : trasher'[t] # Null =>
                            trasher'[t] \in Stored /\ ~row'[trasher'[t]].due
  BY <1>3, <1>4, <1>5 DEF LifecycleInv, LifecycleTypeOK, RequestsAreYoung, Rollback, tasks, Stored
<1> QED
  BY <1>7, <1>8, <1>9, RewriteIsTyped DEF LifecycleInv, LifecycleTypeOK, Rollback, tasks, bounds

\* Superseding changes the state of active rows of one item, and nothing else.
LEMMA SupersededRows ==
  ASSUME LifecycleInv, NEW i \in Items, NEW c \in Assets
  PROVE  /\ Superseded(i)[c] \in Rows
         /\ Superseded(i)[c].item = row[c].item
         /\ Superseded(i)[c].content = row[c].content
         /\ Superseded(i)[c].thumbnail = row[c].thumbnail
         /\ Superseded(i)[c].due = row[c].due
         /\ \/ Superseded(i)[c] = row[c]
            \/ /\ row[c].item = i /\ row[c].state = "active"
               /\ Superseded(i)[c].state = "superseded"
<1>1. row[c] \in Rows
  BY DEF LifecycleInv, LifecycleTypeOK
<1>2. CASE row[c].item = i /\ c \in Active
  <2>1. Superseded(i)[c] = [row[c] EXCEPT !.state = "superseded"]
    BY <1>2 DEF Superseded
  <2> QED
    BY <1>1, <1>2, <2>1 DEF Rows, States, Active
<1>3. CASE ~(row[c].item = i /\ c \in Active)
  BY <1>1, <1>3 DEF Superseded
<1> QED
  BY <1>2, <1>3

\* A promoted upload takes another item's name and keeps its bytes.
LEMMA SyncAttachIsSafe ==
  ASSUME LifecycleInv, NEW a \in Assets, NEW i \in Items, SyncAttach(a, i)
  PROVE  LifecycleInv'
<1>1. row[a] \in Rows /\ row[a].state = "active" /\ ~Locked(a) /\ Superseded(i)[a] = row[a]
  BY SupersededRows DEF LifecycleInv, LifecycleTypeOK, SyncAttach, Active
<1>2. /\ \A c \in Assets \ {a} : row'[c] = Superseded(i)[c]
      /\ row'[a] = [Superseded(i)[a] EXCEPT !.item = i]
  BY DEF SyncAttach, Superseded
<1>3. /\ row'[a] \in Rows /\ row'[a].state = "active" /\ row'[a].due = row[a].due
      /\ row'[a].item = i /\ row'[a].content = row[a].content
      /\ row'[a].thumbnail = row[a].thumbnail
  BY <1>1, <1>2 DEF Rows
<1>4. row' \in [Assets -> Rows]
  <2>1. \A c \in Assets : row'[c] \in Rows
    BY <1>2, <1>3, SupersededRows
  <2> QED
    BY <2>1 DEF SyncAttach, Superseded
<1>5. ASSUME NEW c \in Assets \ {a}
      PROVE  /\ row'[c].item = row[c].item /\ row'[c].content = row[c].content
             /\ row'[c].thumbnail = row[c].thumbnail /\ row'[c].due = row[c].due
             /\ \/ row'[c] = row[c]
                \/ row[c].state = "active" /\ row'[c].state = "superseded" /\ ~Locked(c)
  BY <1>2, SupersededRows DEF SyncAttach, Revisions, Active, Stored
<1>6. Rewrites
  BY <1>1, <1>3, <1>4, <1>5 DEF Rewrites, LifecycleInv, LifecycleTypeOK, Stored, RequestsAreYoung
<1>7. KeepsCatalog
  BY <1>1, <1>3, <1>5 DEF KeepsCatalog, Stored, Shown, Locked, SyncAttach, files, tasks, bounds
<1>8. user = "enabled" => \A t \in Trashers : trasher'[t] # Null =>
                            trasher'[t] \in Stored /\ ~row'[trasher'[t]].due
  BY <1>1, <1>3, <1>5 DEF LifecycleInv, LifecycleTypeOK, RequestsAreYoung, SyncAttach, tasks, Stored
<1> QED
  BY <1>6, <1>7, <1>8, RewriteIsTyped DEF LifecycleInv, LifecycleTypeOK, SyncAttach, tasks, bounds

\* The clone shows the bytes of a revision that is shown already.
LEMMA SyncCloneIsSafe ==
  ASSUME LifecycleInv, NEW a \in Assets, NEW b \in Assets, NEW i \in Items, SyncClone(a, b, i)
  PROVE  LifecycleInv'
<1>1. /\ row[a] \in Rows /\ row[a].state = "active" /\ ~row[a].due /\ ~Locked(a) /\ a # b
      /\ row[b].state = "absent" /\ Superseded(i)[a] = row[a]
  BY SupersededRows DEF LifecycleInv, LifecycleTypeOK, SyncClone, Active, Stored
<1>2. ~Locked(b)
  BY <1>1, LifecycleAssumption
     DEF Locked, LifecycleInv, LocksHold, RowsAreHeld, IsDue
<1>3. /\ \A c \in Assets \ {b} : row'[c] = Superseded(i)[c]
      /\ row'[b] = [row[a] EXCEPT !.item = i]
  BY <1>1 DEF SyncClone, Superseded
<1>4. /\ row'[b] \in Rows /\ row'[b].state = "active" /\ ~row'[b].due
      /\ row'[b].item = i /\ row'[b].content = row[a].content
      /\ row'[b].thumbnail = row[a].thumbnail
  BY <1>1, <1>3 DEF Rows
<1>5. row' \in [Assets -> Rows]
  <2>1. \A c \in Assets : row'[c] \in Rows
    BY <1>3, <1>4, SupersededRows
  <2> QED
    BY <2>1 DEF SyncClone, Superseded
<1>6. ASSUME NEW c \in Assets \ {b}
      PROVE  /\ row'[c].item = row[c].item /\ row'[c].content = row[c].content
             /\ row'[c].thumbnail = row[c].thumbnail /\ row'[c].due = row[c].due
             /\ \/ row'[c] = row[c]
                \/ row[c].state = "active" /\ row'[c].state = "superseded" /\ ~Locked(c)
  BY <1>3, SupersededRows DEF SyncClone, Revisions, Active, Stored
<1>7. Rewrites
  BY <1>1, <1>4, <1>5, <1>6 DEF Rewrites, LifecycleInv, LifecycleTypeOK, Stored, RequestsAreYoung
<1>8. KeepsCatalog
  <2>1. UNCHANGED << user, originals, thumbnails, uploading, publishing, purger, crashes, kills >>
    BY DEF SyncClone, files, tasks, bounds
  <2>2. user = "enabled"
    BY DEF SyncClone, Shared
  <2>3. ASSUME NEW c \in Assets, Shown(c)'
        PROVE  \E d \in Assets : /\ Shown(d) /\ row'[c].content = row[d].content
                                 /\ row'[c].thumbnail = row[d].thumbnail
    <3>1. CASE c = b
      BY <3>1, <1>1, <1>4 DEF Shown
    <3>2. CASE c # b
      BY <3>2, <2>1, <2>3, <1>6 DEF Shown, Locked
    <3> QED
      BY <3>1, <3>2
  <2> QED
    BY <1>1, <1>2, <1>6, <2>1, <2>2, <2>3 DEF KeepsCatalog, Stored
<1>9. user = "enabled" => \A t \in Trashers : trasher'[t] # Null =>
                            trasher'[t] \in Stored /\ ~row'[trasher'[t]].due
  BY <1>1, <1>4, <1>6 DEF LifecycleInv, LifecycleTypeOK, RequestsAreYoung, SyncClone, tasks, Stored
<1> QED
  BY <1>7, <1>8, <1>9, RewriteIsTyped DEF LifecycleInv, LifecycleTypeOK, SyncClone, tasks, bounds

\* The lockout finds no row locked and leaves nothing to rely on.
LEMMA LockoutIsSafe ==
  ASSUME LifecycleInv, Lockout
  PROVE  LifecycleInv'
<1>1. ASSUME NEW a \in Assets
      PROVE  /\ row'[a] \in Rows /\ row'[a].item = row[a].item
             /\ row'[a].content = row[a].content /\ row'[a].thumbnail = row[a].thumbnail
             /\ \/ row'[a] = row[a] /\ row[a].state = "absent"
                \/ row[a].state # "absent" /\ row'[a].state = "purging" /\ row'[a].due
  <2>1. row[a] \in Rows
    BY DEF LifecycleInv, LifecycleTypeOK
  <2>2. CASE a \in Stored
    <3>1. row'[a] = [row[a] EXCEPT !.state = "purging", !.due = TRUE]
      BY <2>2 DEF Lockout
    <3> QED
      BY <2>1, <2>2, <3>1 DEF Rows, States, Stored
  <2>3. CASE a \notin Stored
    BY <2>1, <2>3 DEF Lockout, Stored
  <2> QED
    BY <2>2, <2>3
<1>2. row' \in [Assets -> Rows]
  BY <1>1 DEF Lockout
<1>3. Rewrites
  BY <1>1, <1>2 DEF Rewrites, LifecycleInv, LifecycleTypeOK, Stored
<1>4. KeepsCatalog
  BY <1>1 DEF KeepsCatalog, Stored, Lockout, Shared, files, tasks, bounds
<1> QED
  BY <1>3, <1>4, RewriteIsTyped DEF LifecycleInv, LifecycleTypeOK, Lockout, tasks, bounds

\* The bytes of an upload are of no purge, which would hold the lock of the path.
LEMMA UploadPublishIsSafe ==
  ASSUME LifecycleInv, NEW c \in Checksums, UploadPublish(c)
  PROVE  LifecycleInv'
<1> USE DEF UploadPublish, bounds
<1>1. LifecycleTypeOK'
  BY DEF LifecycleInv, LifecycleTypeOK, Stored
<1>2. \A p \in Purgers : AtFiles(p) => Content(p) # c
  BY DEF OriginalLocked, AtFiles, Content
<1>3. LocksHold'
  BY <1>2 DEF LifecycleInv, LocksHold, RowsAreHeld, IsDue, PublishedIsThere, PathsAreHeld,
              AtFiles, Content, Shared
<1>4. RequestsAreYoung' /\ BytesAreKnown'
  BY DEF LifecycleInv, RequestsAreYoung, BytesAreKnown, CatalogHasBytes, Stored, Locked
<1>5. UnlinkedStays'
  BY <1>2 DEF LifecycleInv, UnlinkedStays, AtFiles, Content, Others, Stored
<1>6. NothingLeaks'
  BY LifecycleAssumption DEF LifecycleInv, LifecycleTypeOK, NothingLeaks, Stored, Shared
<1> QED
  BY <1>1, <1>3, <1>4, <1>5, <1>6 DEF LifecycleInv

\* The row takes the bytes over from the upload.
LEMMA UploadCommitIsSafe ==
  ASSUME LifecycleInv, NEW a \in Assets, NEW i \in Items, UploadCommit(a, i)
  PROVE  LifecycleInv'
<1>1. /\ row'[a] = [ state |-> "active", item |-> i, content |-> uploading,
                     thumbnail |-> FALSE, due |-> FALSE ]
      /\ \A b \in Assets \ {a} : row'[b] = row[b]
      /\ row' \in [Assets -> Rows] /\ a \notin Stored /\ uploading \in Checksums
  <2>1. uploading \in Checksums
    BY DEF UploadCommit, LifecycleInv, LifecycleTypeOK
  <2>2. [ state |-> "active", item |-> i, content |-> uploading,
          thumbnail |-> FALSE, due |-> FALSE ] \in Rows
    BY <2>1 DEF Rows, States
  <2> QED
    BY <2>1, <2>2 DEF UploadCommit, LifecycleInv, LifecycleTypeOK
<1>2. LifecycleTypeOK'
  BY <1>1 DEF LifecycleInv, LifecycleTypeOK, Stored, UploadCommit, files, bounds
<1>3. \A p \in Purgers : purger[p].asset # Null =>
        purger[p].asset \in Stored /\ purger[p].asset # a
  BY <1>1 DEF LifecycleInv, LocksHold, RowsAreHeld, IsDue, LifecycleTypeOK, Stored
<1>4. \A b \in publishing : b # a /\ b \in Stored
  BY <1>1 DEF LifecycleInv, LocksHold, RowsAreHeld, LifecycleTypeOK, Stored
<1>5. \A p \in Purgers : AtFiles(p) =>
        purger[p].asset # Null /\ Content(p) \in Checksums /\ Content(p)' = Content(p)
  BY <1>1, <1>3 DEF LifecycleInv, LocksHold, RowsAreHeld, AtFiles, Content, UploadCommit,
                    LifecycleTypeOK,
                    Stored
<1>6. LocksHold'
  <2>1. RowsAreHeld'
    BY <1>1, <1>3, <1>4 DEF LifecycleInv, LifecycleTypeOK, LocksHold, RowsAreHeld, IsDue,
                            UploadCommit, Stored
  <2>2. PublishedIsThere'
    BY DEF LifecycleInv, LocksHold, PublishedIsThere, UploadCommit
  <2>3. PathsAreHeld'
    <3>1. publishing' = {}
      BY DEF LifecycleInv, LocksHold, PublishedIsThere, UploadCommit
    <3>2. \A p, q \in Purgers :
            AtFiles(p)' /\ AtFiles(q)' /\ Content(p)' = Content(q)' => p = q
      BY <1>5 DEF LifecycleInv, LocksHold, PathsAreHeld, AtFiles, UploadCommit
    <3>3. \A p \in Purgers : AtFiles(p)' => uploading' # Content(p)'
      BY <1>5, LifecycleAssumption DEF AtFiles, UploadCommit
    <3> QED
      BY <3>1, <3>2, <3>3 DEF PathsAreHeld
  <2> QED
    BY <2>1, <2>2, <2>3 DEF LocksHold
<1>7. RequestsAreYoung'
  BY <1>1 DEF LifecycleInv, RequestsAreYoung, UploadCommit, LifecycleTypeOK, Stored
<1>8. UnlinkedStays'
  BY <1>1, <1>3, <1>5 DEF LifecycleInv, UnlinkedStays, AtFiles, Content, Others, Stored,
                          UploadCommit, files
<1>9. BytesAreKnown'
  BY <1>1 DEF LifecycleInv, LocksHold, PublishedIsThere, BytesAreKnown, CatalogHasBytes, Stored,
              Locked, UploadCommit, files, bounds
<1>10. NothingLeaks'
  BY <1>1, <1>4, LifecycleAssumption DEF LifecycleInv, NothingLeaks, Stored, UploadCommit,
                                        files, bounds, LifecycleTypeOK
<1> QED
  BY <1>2, <1>6, <1>7, <1>8, <1>9, <1>10 DEF LifecycleInv

\* A lost upload leaves bytes of no row, and counts as a crash.
LEMMA UploadCrashIsSafe ==
  ASSUME LifecycleInv, UploadCrash
  PROVE  LifecycleInv'
<1> USE DEF UploadCrash, Failure, files
<1>1. LifecycleTypeOK' /\ crashes' # 0
  BY DEF LifecycleInv, LifecycleTypeOK, Stored
<1>2. LocksHold'
  BY LifecycleAssumption
     DEF LifecycleInv, LifecycleTypeOK, LocksHold, RowsAreHeld, IsDue, PublishedIsThere, PathsAreHeld,
         AtFiles, Content, Stored
<1>3. RequestsAreYoung' /\ BytesAreKnown' /\ UnlinkedStays' /\ NothingLeaks'
  BY <1>1 DEF LifecycleInv, RequestsAreYoung, BytesAreKnown, CatalogHasBytes, UnlinkedStays,
              NothingLeaks, Stored, Locked, AtFiles, Content, Others
<1> QED
  BY <1>1, <1>2, <1>3 DEF LifecycleInv

\* No purge is at the thumbnail of a row that a task processes.
LEMMA ProcessPublishIsSafe ==
  ASSUME LifecycleInv, NEW a \in Assets, ProcessPublish(a)
  PROVE  LifecycleInv'
<1> USE DEF ProcessPublish, bounds
<1>1. LifecycleTypeOK' /\ a \in Stored
  BY DEF LifecycleInv, LifecycleTypeOK, Stored, Active
<1>2. \A p \in Purgers : /\ purger[p].step = "thumbnail" => Content(p) # row[a].content
                         /\ purger[p].asset # a
  BY DEF ThumbnailLocked, Content, Locked
<1>3. LocksHold'
  BY <1>2 DEF LifecycleInv, LocksHold, RowsAreHeld, IsDue, PublishedIsThere, PathsAreHeld,
              AtFiles, Content, Shared, Active
<1>4. RequestsAreYoung' /\ BytesAreKnown'
  BY DEF LifecycleInv, RequestsAreYoung, BytesAreKnown, CatalogHasBytes, Stored, Locked
<1>5. UnlinkedStays'
  BY <1>2 DEF LifecycleInv, UnlinkedStays, AtFiles, Content, Others, Stored
<1>6. NothingLeaks'
  BY DEF LifecycleInv, NothingLeaks, Stored, Shared
<1> QED
  BY <1>1, <1>3, <1>4, <1>5, <1>6 DEF LifecycleInv

\* The row takes the thumbnail over from the task.
LEMMA ProcessCommitIsSafe ==
  ASSUME LifecycleInv, NEW a \in Assets, ProcessCommit(a)
  PROVE  LifecycleInv'
<1>1. row[a] \in Rows /\ row[a].state = "active" /\ a \in publishing
  BY DEF LifecycleInv, LifecycleTypeOK, LocksHold, RowsAreHeld, ProcessCommit
<1>2. row'[a] = [row[a] EXCEPT !.thumbnail = TRUE] /\ \A b \in Assets \ {a} : row'[b] = row[b]
  BY DEF LifecycleInv, LifecycleTypeOK, ProcessCommit
<1>3. /\ row'[a] \in Rows /\ row'[a].state = "active" /\ row'[a].due = row[a].due
      /\ row'[a].item = row[a].item /\ row'[a].content = row[a].content /\ row'[a].thumbnail
  BY <1>1, <1>2 DEF Rows
<1>4. row' \in [Assets -> Rows]
  BY <1>2, <1>3 DEF LifecycleInv, LifecycleTypeOK, ProcessCommit
<1>5. \A b \in Assets : /\ row'[b].state = row[b].state /\ row'[b].content = row[b].content
                        /\ row'[b].due = row[b].due
                        /\ row'[b].thumbnail <=> row[b].thumbnail \/ b = a
  BY <1>1, <1>2, <1>3 DEF LifecycleInv, LifecycleTypeOK
<1>6. \A p \in Purgers : purger[p].asset # Null => purger[p].asset \in Assets
  BY DEF LifecycleInv, LifecycleTypeOK
<1>7. LifecycleTypeOK'
  BY <1>1, <1>2, <1>3, <1>4 DEF LifecycleInv, LifecycleTypeOK, Stored, ProcessCommit, files, bounds
<1>8. LocksHold'
  <2>1. RowsAreHeld'
    BY <1>5, <1>6 DEF LifecycleInv, LifecycleTypeOK, LocksHold, RowsAreHeld, IsDue, ProcessCommit
  <2>2. PublishedIsThere'
    BY <1>5 DEF LifecycleInv, LifecycleTypeOK, LocksHold, PublishedIsThere, ProcessCommit, files
  <2>3. PathsAreHeld'
    BY <1>5, <1>6 DEF LifecycleInv, LifecycleTypeOK, LocksHold, RowsAreHeld, PathsAreHeld, AtFiles,
                      Content, ProcessCommit
  <2> QED
    BY <2>1, <2>2, <2>3 DEF LocksHold
<1>9. RequestsAreYoung'
  BY <1>5 DEF LifecycleInv, LifecycleTypeOK, RequestsAreYoung, Stored, ProcessCommit
<1>10. UnlinkedStays'
  BY <1>5, <1>6 DEF LifecycleInv, LocksHold, RowsAreHeld, UnlinkedStays, AtFiles, Content,
                    Others, Stored, ProcessCommit, files
<1>11. BytesAreKnown'
  <2>1. row[a].content \in thumbnails
    BY <1>1 DEF LifecycleInv, LocksHold, PublishedIsThere
  <2> QED
    BY <1>1, <1>5, <2>1 DEF LifecycleInv, LocksHold, RowsAreHeld, BytesAreKnown,
       CatalogHasBytes, Stored, Locked, ProcessCommit, files, bounds
<1>12. NothingLeaks'
  BY <1>1, <1>5 DEF LifecycleInv, NothingLeaks, LifecycleTypeOK, Stored, ProcessCommit, files, bounds
<1> QED
  BY <1>7, <1>8, <1>9, <1>10, <1>11, <1>12 DEF LifecycleInv

\* A lost task leaves its thumbnail, and counts as a crash.
LEMMA ProcessCrashIsSafe ==
  ASSUME LifecycleInv, NEW a \in Assets, ProcessCrash(a)
  PROVE  LifecycleInv'
<1> USE DEF ProcessCrash, Failure, files
<1>1. LifecycleTypeOK' /\ crashes' # 0
  BY DEF LifecycleInv, LifecycleTypeOK, Stored
<1>2. LocksHold'
  BY DEF LifecycleInv, LocksHold, RowsAreHeld, IsDue, PublishedIsThere, PathsAreHeld,
         AtFiles, Content
<1>3. RequestsAreYoung' /\ UnlinkedStays' /\ NothingLeaks'
  BY <1>1 DEF LifecycleInv, RequestsAreYoung, UnlinkedStays, NothingLeaks, Stored, AtFiles,
              Content, Others
<1>4. BytesAreKnown'
  BY DEF LifecycleInv, LocksHold, RowsAreHeld, BytesAreKnown, CatalogHasBytes, Stored, Locked
<1> QED
  BY <1>1, <1>2, <1>3, <1>4 DEF LifecycleInv

\* A purge takes a due row that nobody holds, and no path yet.
LEMMA PurgeLockIsSafe ==
  ASSUME LifecycleInv, NEW p \in Purgers, NEW a \in Assets, PurgeLock(p, a)
  PROVE  LifecycleInv'
<1>1. /\ purger'[p] = [asset |-> a, step |-> "locked"]
      /\ \A q \in Purgers \ {p} : purger'[q] = purger[q]
      /\ purger[p].asset = Null /\ a # Null
      /\ IsDue(a) /\ a \notin publishing /\ \A q \in Purgers : purger[q].asset # a
  BY LifecycleAssumption DEF PurgeLock, Resting, LifecycleInv, LifecycleTypeOK, Locked
<1>2. LifecycleTypeOK'
  BY DEF LifecycleInv, LifecycleTypeOK, PurgeLock, Stored, Steps, files, bounds
<1>3. LocksHold'
  BY <1>1 DEF LifecycleInv, LocksHold, RowsAreHeld, IsDue, PublishedIsThere, PathsAreHeld,
              AtFiles, Content, PurgeLock, files
<1>4. RequestsAreYoung' /\ UnlinkedStays' /\ NothingLeaks'
  BY <1>1 DEF LifecycleInv, RequestsAreYoung, UnlinkedStays, NothingLeaks, Stored, AtFiles,
              Content, Others, PurgeLock, files, bounds
<1>5. BytesAreKnown'
  <2>1. \A b \in Assets : Locked(b) => Locked(b)'
    BY <1>1, LifecycleAssumption DEF Locked, PurgeLock
  <2> QED
    BY <2>1 DEF LifecycleInv, BytesAreKnown, CatalogHasBytes, Stored, PurgeLock, files, bounds
<1> QED
  BY <1>2, <1>3, <1>4, <1>5 DEF LifecycleInv

\* A purge goes from one file to the next.
PurgeMoves(p, step) ==
  /\ purger' = [purger EXCEPT ![p].step = step]
  /\ purger[p].asset # Null
  /\ UNCHANGED << user, row, uploading, publishing, trasher, failures, crashes, kills >>

\* It keeps its row, and the rows stay locked as they are.
LEMMA MovedPurge ==
  ASSUME LifecycleInv, NEW p \in Purgers, NEW s \in {"original", "thumbnail"}, PurgeMoves(p, s)
  PROVE  /\ purger' \in [Purgers -> [asset : Assets \cup {Null}, step : Steps]]
         /\ purger'[p].asset = purger[p].asset /\ purger'[p].step = s
         /\ \A q \in Purgers \ {p} : purger'[q] = purger[q]
         /\ RowsAreHeld' /\ RequestsAreYoung'
         /\ \A a \in Assets : Locked(a)' <=> Locked(a)
<1>1. purger[p] \in [asset : Assets \cup {Null}, step : Steps] /\ s \in Steps
  BY DEF LifecycleInv, LifecycleTypeOK, Steps
<1>2. purger'[p] = [purger[p] EXCEPT !.step = s]
  BY DEF LifecycleInv, LifecycleTypeOK, PurgeMoves
<1>3. /\ purger'[p] \in [asset : Assets \cup {Null}, step : Steps]
      /\ purger'[p].asset = purger[p].asset /\ purger'[p].step = s
  BY <1>1, <1>2
<1>4. \A q \in Purgers \ {p} : purger'[q] = purger[q]
  BY DEF LifecycleInv, LifecycleTypeOK, PurgeMoves
<1>5. purger' \in [Purgers -> [asset : Assets \cup {Null}, step : Steps]]
  BY <1>3, <1>4 DEF LifecycleInv, LifecycleTypeOK, PurgeMoves
<1>6. \A q \in Purgers : purger'[q].asset = purger[q].asset
  BY <1>3, <1>4
<1>7. RowsAreHeld'
  BY <1>3, <1>4, <1>6 DEF LifecycleInv, LocksHold, RowsAreHeld, IsDue, PurgeMoves
<1>8. RequestsAreYoung'
  BY DEF LifecycleInv, RequestsAreYoung, Stored, PurgeMoves
<1>9. \A a \in Assets : Locked(a)' <=> Locked(a)
  BY <1>6 DEF Locked, PurgeMoves
<1> QED
  BY <1>3, <1>4, <1>5, <1>7, <1>8, <1>9

\* The bytes a purge unlinks are of no other row and of no upload.
LEMMA PurgeOriginalIsSafe ==
  ASSUME LifecycleInv, NEW p \in Purgers, PurgeOriginal(p)
  PROVE  LifecycleInv'
<1> DEFINE a == purger[p].asset
           c == row[a].content
<1>1. /\ purger[p].step = "locked" /\ a # Null /\ a \in Stored /\ a \in Assets /\ IsDue(a)
      /\ c \in Checksums /\ Locked(a)
  BY DEF PurgeOriginal, LifecycleInv, LifecycleTypeOK, LocksHold, RowsAreHeld, IsDue, Stored, Locked
<1>2. PurgeMoves(p, "original") /\ thumbnails' = thumbnails
  BY <1>1 DEF PurgeMoves, PurgeOriginal, bounds
<1>3. \/ Others(a) = {} /\ originals' = originals \ {c}
      \/ Others(a) # {} /\ originals' = originals
  BY DEF PurgeOriginal
<1>4. uploading # c /\ \A q \in Purgers : AtFiles(q) => Content(q) # c
  BY DEF PurgeOriginal, OriginalLocked, AtFiles, Content
<1>5. /\ purger' \in [Purgers -> [asset : Assets \cup {Null}, step : Steps]]
      /\ purger'[p].asset = a /\ purger'[p].step = "original"
      /\ \A q \in Purgers \ {p} : purger'[q] = purger[q]
      /\ RowsAreHeld' /\ RequestsAreYoung'
      /\ \A b \in Assets : Locked(b)' <=> Locked(b)
  BY <1>2, MovedPurge
<1> HIDE DEF a, c
<1> USE DEF PurgeMoves
<1>6. LifecycleTypeOK'
  BY <1>2, <1>3, <1>5 DEF LifecycleInv, LifecycleTypeOK, Stored
<1>7. LocksHold'
  <2>1. PublishedIsThere'
    BY <1>2, <1>3, <1>4 DEF LifecycleInv, LocksHold, PublishedIsThere
  <2>2. PathsAreHeld'
    BY <1>2, <1>4, <1>5 DEF LifecycleInv, LocksHold, PathsAreHeld, AtFiles, Content, c
  <2> QED
    BY <1>5, <2>1, <2>2 DEF LocksHold
<1>8. UnlinkedStays'
  BY <1>2, <1>3, <1>4, <1>5 DEF LifecycleInv, UnlinkedStays, AtFiles, Content, Others, Stored, c
<1>9. BytesAreKnown'
  BY <1>1, <1>2, <1>3, <1>5 DEF LifecycleInv, BytesAreKnown, CatalogHasBytes, Stored, Others,
                                IsDue, c
<1>10. NothingLeaks'
  BY <1>2, <1>3 DEF LifecycleInv, NothingLeaks, Stored
<1> QED
  BY <1>5, <1>6, <1>7, <1>8, <1>9, <1>10 DEF LifecycleInv

\* The thumbnail a purge unlinks is of no other row and of no task.
LEMMA PurgeThumbnailIsSafe ==
  ASSUME LifecycleInv, NEW p \in Purgers, PurgeThumbnail(p)
  PROVE  LifecycleInv'
<1> DEFINE a == purger[p].asset
           c == row[a].content
<1>1. /\ purger[p].step = "original" /\ a # Null /\ a \in Stored /\ a \in Assets /\ IsDue(a)
      /\ c \in Checksums /\ Locked(a)
  BY DEF PurgeThumbnail, LifecycleInv, LifecycleTypeOK, LocksHold, RowsAreHeld, IsDue, Stored, Locked
<1>2. PurgeMoves(p, "thumbnail") /\ originals' = originals
  BY <1>1 DEF PurgeMoves, PurgeThumbnail, bounds
<1>3. \/ (\A b \in Others(a) : ~row[b].thumbnail) /\ thumbnails' = thumbnails \ {c}
      \/ (\E b \in Others(a) : row[b].thumbnail) /\ thumbnails' = thumbnails
  BY DEF PurgeThumbnail
<1>4. \A b \in publishing : row[b].content # c
  BY DEF PurgeThumbnail, ThumbnailLocked
<1>5. /\ purger' \in [Purgers -> [asset : Assets \cup {Null}, step : Steps]]
      /\ purger'[p].asset = a /\ purger'[p].step = "thumbnail"
      /\ \A q \in Purgers \ {p} : purger'[q] = purger[q]
      /\ RowsAreHeld' /\ RequestsAreYoung'
      /\ \A b \in Assets : Locked(b)' <=> Locked(b)
  BY <1>2, MovedPurge
<1>6. AtFiles(p) /\ Content(p) = c
  BY <1>1 DEF AtFiles, Content
<1> HIDE DEF a, c
<1> USE DEF PurgeMoves
<1>7. LifecycleTypeOK'
  BY <1>2, <1>3, <1>5 DEF LifecycleInv, LifecycleTypeOK, Stored
<1>8. LocksHold'
  <2>1. PublishedIsThere'
    BY <1>2, <1>3, <1>4 DEF LifecycleInv, LocksHold, PublishedIsThere
  <2>2. PathsAreHeld'
    BY <1>2, <1>4, <1>5, <1>6 DEF LifecycleInv, LocksHold, PathsAreHeld, AtFiles, Content, c
  <2> QED
    BY <1>5, <2>1, <2>2 DEF LocksHold
<1>9. UnlinkedStays'
  BY <1>2, <1>3, <1>5, <1>6
     DEF LifecycleInv, LocksHold, PathsAreHeld, UnlinkedStays, AtFiles, Content, Others,
         Stored, c
<1>10. BytesAreKnown'
  BY <1>1, <1>2, <1>3, <1>5 DEF LifecycleInv, BytesAreKnown, CatalogHasBytes, Stored, Others,
                                IsDue, c
<1>11. NothingLeaks'
  BY <1>2, <1>3, <1>4 DEF LifecycleInv, NothingLeaks, Stored, Others, a, c
<1> QED
  BY <1>5, <1>7, <1>8, <1>9, <1>10, <1>11 DEF LifecycleInv

\* A purge that ends releases its row and its paths; the others keep theirs.
LEMMA ReleasedPurge ==
  ASSUME LifecycleInv, NEW p \in Purgers, purger[p] # Resting,
         purger' = [purger EXCEPT ![p] = Resting]
  PROVE  /\ purger' \in [Purgers -> [asset : Assets \cup {Null}, step : Steps]]
         /\ purger[p].asset \in Stored /\ purger[p].asset # Null
         /\ row[purger[p].asset].due /\ purger[p].asset \notin publishing
         /\ purger'[p].asset = Null /\ purger'[p].step = "idle"
         /\ \A q \in Purgers \ {p} :
              purger'[q] = purger[q] /\ purger[q].asset # purger[p].asset
<1>1. purger[p] \in [asset : Assets \cup {Null}, step : Steps]
  BY DEF LifecycleInv, LifecycleTypeOK
<1>2. purger[p].asset # Null
  BY <1>1 DEF LifecycleInv, LocksHold, RowsAreHeld, Resting
<1>3. purger' \in [Purgers -> [asset : Assets \cup {Null}, step : Steps]]
  BY DEF LifecycleInv, LifecycleTypeOK, Resting, Steps
<1> QED
  BY <1>1, <1>2, <1>3 DEF LifecycleInv, LifecycleTypeOK, LocksHold, RowsAreHeld, Resting, IsDue, Stored

\* The row goes: its bytes went before it, or are another row's.
LEMMA PurgeCommitIsSafe ==
  ASSUME LifecycleInv, NEW p \in Purgers, PurgeCommit(p)
  PROVE  LifecycleInv'
<1> DEFINE a == purger[p].asset
           c == row[a].content
<1>1. /\ purger' \in [Purgers -> [asset : Assets \cup {Null}, step : Steps]]
      /\ a \in Stored /\ a # Null /\ row[a].due /\ a \notin publishing
      /\ purger'[p].asset = Null /\ purger'[p].step = "idle"
      /\ \A q \in Purgers \ {p} : purger'[q] = purger[q] /\ purger[q].asset # a
  <2>1. purger[p] # Resting /\ purger' = [purger EXCEPT ![p] = Resting]
    BY DEF PurgeCommit, Resting
  <2> QED
    BY <2>1, ReleasedPurge
<1>2. /\ AtFiles(p) /\ Content(p) = c /\ (row[a].thumbnail => purger[p].step = "thumbnail")
      /\ UNCHANGED << user, originals, thumbnails, uploading, publishing, trasher,
                      failures, crashes, kills >>
  BY DEF PurgeCommit, AtFiles, Content, files, bounds
<1>3. /\ a \in Assets /\ row'[a] = NoRow /\ NoRow \in Rows
      /\ \A b \in Assets \ {a} : row'[b] = row[b]
      /\ row' \in [Assets -> Rows]
  <2>1. NoRow \in Rows
    BY DEF NoRow, Rows, States
  <2> QED
    BY <1>1, <2>1 DEF PurgeCommit, LifecycleInv, LifecycleTypeOK, Stored
<1>4. /\ c \notin originals \/ Others(a) # {}
      /\ row[a].thumbnail => c \notin thumbnails \/ \E b \in Others(a) : row[b].thumbnail
  BY <1>2 DEF LifecycleInv, UnlinkedStays
<1>5. \A q \in Purgers \ {p} : AtFiles(q) => Content(q) # c
  BY <1>2 DEF LifecycleInv, LocksHold, PathsAreHeld
<1> HIDE DEF a, c
<1> USE DEF NoRow
<1>6. LifecycleTypeOK'
  BY <1>1, <1>2, <1>3 DEF LifecycleInv, LifecycleTypeOK, Stored
<1>7. \A b \in Stored : b \in Assets /\ (b # a => b \in Stored' /\ row'[b] = row[b])
  BY <1>3 DEF Stored
<1>8. \A q \in Purgers \ {p} : purger[q].asset # Null =>
        purger[q].asset \in Assets /\ purger[q].asset # a
        /\ row'[purger[q].asset] = row[purger[q].asset]
  BY <1>1, <1>3 DEF LifecycleInv, LifecycleTypeOK
<1>9. \A b \in publishing : row'[b] = row[b]
  BY <1>1, <1>3 DEF LifecycleInv, LifecycleTypeOK
<1>10. LocksHold'
  <2>1. RowsAreHeld'
    BY <1>1, <1>2, <1>8, <1>9 DEF LifecycleInv, LocksHold, RowsAreHeld, IsDue
  <2>2. PublishedIsThere'
    BY <1>2, <1>9 DEF LifecycleInv, LocksHold, PublishedIsThere
  <2>3. PathsAreHeld'
    BY <1>1, <1>2, <1>8, <1>9
       DEF LifecycleInv, LocksHold, RowsAreHeld, PathsAreHeld, AtFiles, Content
  <2> QED
    BY <2>1, <2>2, <2>3 DEF LocksHold
<1>11. RequestsAreYoung'
  BY <1>1, <1>2, <1>3 DEF LifecycleInv, LifecycleTypeOK, RequestsAreYoung, Stored
<1>12. UnlinkedStays'
  <2> SUFFICES ASSUME NEW q \in Purgers, AtFiles(q)'
               PROVE  /\ Content(q)' \notin originals \/ Others(purger[q].asset)' # {}
                      /\ purger'[q].step = "thumbnail" =>
                           \/ Content(q)' \notin thumbnails
                           \/ \E b \in Others(purger[q].asset)' : row'[b].thumbnail
    BY <1>2 DEF UnlinkedStays, AtFiles
  <2>1. q # p /\ AtFiles(q) /\ purger'[q] = purger[q]
    BY <1>1 DEF AtFiles
  <2>2. purger[q].asset # Null /\ Content(q)' = Content(q) /\ Content(q) # c
    BY <1>5, <1>8, <2>1 DEF LifecycleInv, LocksHold, RowsAreHeld, AtFiles, Content
  <2>3. \A b \in Others(purger[q].asset) : row[b].content = Content(q) /\ b # a
    BY <2>2 DEF Others, Content, c
  <2>4. Others(purger[q].asset) \subseteq Others(purger[q].asset)'
        /\ \A b \in Others(purger[q].asset) : row'[b] = row[b]
    BY <1>7, <2>1, <2>2, <2>3 DEF Others, Content
  <2> QED
    BY <2>1, <2>2, <2>4 DEF LifecycleInv, UnlinkedStays
<1>13. BytesAreKnown'
  <2>1. \A b \in Assets \ {a} : Locked(b)' <=> Locked(b)
    BY <1>1, <1>2, LifecycleAssumption DEF Locked, a
  <2> QED
    BY <1>2, <1>3, <2>1 DEF LifecycleInv, BytesAreKnown, CatalogHasBytes, Stored
<1>14. NothingLeaks'
  <2>1. ASSUME crashes = 0, NEW x \in originals, x # uploading
        PROVE  \E b \in Stored' : row'[b].content = x
    <3>1. PICK b \in Stored : row[b].content = x
      BY <2>1 DEF LifecycleInv, NothingLeaks
    <3>2. CASE x = c
      BY <1>4, <1>7, <3>2, <2>1 DEF Others, c
    <3>3. CASE x # c
      BY <1>7, <3>1, <3>3 DEF c
    <3> QED
      BY <3>2, <3>3
  <2>2. ASSUME crashes = 0, NEW x \in thumbnails
        PROVE  \E b \in { d \in Stored : row[d].thumbnail }' \cup publishing : row'[b].content = x
    <3>1. PICK b \in { d \in Stored : row[d].thumbnail } \cup publishing : row[b].content = x
      BY <2>2 DEF LifecycleInv, NothingLeaks
    <3>2. CASE b = a
      <4>1. PICK d \in Others(a) : row[d].thumbnail /\ row[d].content = c
        BY <1>1, <1>4, <2>2, <3>1, <3>2 DEF Others, c
      <4> QED
        BY <1>7, <3>1, <3>2, <4>1 DEF Others, c
    <3>3. CASE b # a
      BY <1>7, <1>9, <3>1, <3>3
    <3> QED
      BY <3>2, <3>3
  <2> QED
    BY <1>2, <2>1, <2>2 DEF NothingLeaks
<1> QED
  BY <1>6, <1>10, <1>11, <1>12, <1>13, <1>14 DEF LifecycleInv

\* An unlink fails: whatever is gone, the row is a tombstone now.
LEMMA PurgeFailsIsSafe ==
  ASSUME LifecycleInv, NEW p \in Purgers, PurgeFails(p)
  PROVE  LifecycleInv'
<1> DEFINE a == purger[p].asset
<1>1. /\ purger' \in [Purgers -> [asset : Assets \cup {Null}, step : Steps]]
      /\ a \in Stored /\ a # Null /\ row[a].due /\ a \notin publishing
      /\ purger'[p].asset = Null /\ purger'[p].step = "idle"
      /\ \A q \in Purgers \ {p} : purger'[q] = purger[q] /\ purger[q].asset # a
  <2>1. purger[p] # Resting /\ purger' = [purger EXCEPT ![p] = Resting]
    BY DEF PurgeFails
  <2> QED
    BY <2>1, ReleasedPurge
<1>2. /\ UNCHANGED << user, originals, thumbnails, uploading, publishing, trasher, crashes, kills >>
      /\ failures' \in Nat
  BY DEF PurgeFails, Failure, files, LifecycleInv, LifecycleTypeOK
<1>3. /\ a \in Assets /\ row[a] \in Rows /\ \A b \in Assets \ {a} : row'[b] = row[b]
      /\ row'[a] = [row[a] EXCEPT !.state = "purging"]
  BY <1>1 DEF PurgeFails, LifecycleInv, LifecycleTypeOK, Stored
<1> HIDE DEF a
<1>4. /\ row'[a] \in Rows /\ row'[a].state = "purging" /\ row'[a].due = row[a].due
      /\ row'[a].item = row[a].item /\ row'[a].content = row[a].content
      /\ row'[a].thumbnail = row[a].thumbnail
  BY <1>3 DEF Rows, States
<1>5. row' \in [Assets -> Rows]
  BY <1>3, <1>4 DEF PurgeFails, LifecycleInv, LifecycleTypeOK
<1>6. LifecycleTypeOK'
  BY <1>1, <1>2, <1>3, <1>4, <1>5 DEF LifecycleInv, LifecycleTypeOK, Stored
<1>7. Stored' = Stored /\ \A b \in Assets : /\ row'[b].content = row[b].content
                                            /\ row'[b].thumbnail = row[b].thumbnail
  <2>1. \A b \in Assets : /\ row'[b].state = "absent" <=> row[b].state = "absent"
                          /\ row'[b].content = row[b].content
                          /\ row'[b].thumbnail = row[b].thumbnail
    BY <1>1, <1>3, <1>4 DEF Stored
  <2> QED
    BY <2>1 DEF Stored
<1>8. \A q \in Purgers \ {p} : purger[q].asset # Null =>
        purger[q].asset \in Assets /\ row'[purger[q].asset] = row[purger[q].asset]
  BY <1>1, <1>3 DEF LifecycleInv, LifecycleTypeOK
<1>9. \A b \in publishing : b \in Assets /\ row'[b] = row[b]
  BY <1>1, <1>3 DEF LifecycleInv, LifecycleTypeOK
<1>10. LocksHold'
  <2>1. RowsAreHeld'
    BY <1>1, <1>2, <1>8, <1>9 DEF LifecycleInv, LocksHold, RowsAreHeld, IsDue
  <2>2. PublishedIsThere'
    BY <1>2, <1>9 DEF LifecycleInv, LocksHold, PublishedIsThere
  <2>3. PathsAreHeld'
    BY <1>1, <1>2, <1>8, <1>9
       DEF LifecycleInv, LocksHold, RowsAreHeld, PathsAreHeld, AtFiles, Content
  <2> QED
    BY <2>1, <2>2, <2>3 DEF LocksHold
<1>11. RequestsAreYoung'
  BY <1>1, <1>2, <1>3, <1>4, <1>7 DEF LifecycleInv, LifecycleTypeOK, RequestsAreYoung
<1>12. UnlinkedStays'
  <2> SUFFICES ASSUME NEW q \in Purgers, AtFiles(q)'
               PROVE  /\ Content(q)' \notin originals \/ Others(purger[q].asset)' # {}
                      /\ purger'[q].step = "thumbnail" =>
                           \/ Content(q)' \notin thumbnails
                           \/ \E b \in Others(purger[q].asset)' : row'[b].thumbnail
    BY <1>2 DEF UnlinkedStays, AtFiles
  <2>1. q # p /\ AtFiles(q) /\ purger'[q] = purger[q]
    BY <1>1 DEF AtFiles
  <2>2. purger[q].asset # Null /\ Content(q)' = Content(q)
    BY <1>8, <2>1 DEF LifecycleInv, LocksHold, RowsAreHeld, AtFiles, Content
  <2>3. /\ Others(purger[q].asset)' = Others(purger[q].asset)
        /\ \A b \in Others(purger[q].asset) : row'[b].thumbnail = row[b].thumbnail
    BY <1>7, <1>8, <2>1, <2>2 DEF Others, Stored
  <2> QED
    BY <2>1, <2>2, <2>3 DEF LifecycleInv, UnlinkedStays
<1>13. BytesAreKnown'
  <2>1. \A b \in Assets \ {a} : Locked(b)' <=> Locked(b)
    BY <1>1, <1>2, LifecycleAssumption DEF Locked, a
  <2> QED
    BY <1>2, <1>3, <1>4, <2>1 DEF LifecycleInv, BytesAreKnown, CatalogHasBytes, Stored
<1>14. NothingLeaks'
  BY <1>2, <1>7, <1>9 DEF LifecycleInv, NothingLeaks, Stored
<1> QED
  BY <1>6, <1>10, <1>11, <1>12, <1>13, <1>14 DEF LifecycleInv

\* A killed worker releases a row whose bytes may be gone: what is known of the
\* bytes is lost, all the rest is kept.
LEMMA PurgeKilledIsSafe ==
  ASSUME LifecycleInv, NEW p \in Purgers, PurgeKilled(p)
  PROVE  LifecycleInv'
<1>1. /\ purger' \in [Purgers -> [asset : Assets \cup {Null}, step : Steps]]
      /\ purger'[p].asset = Null /\ purger'[p].step = "idle"
      /\ \A q \in Purgers \ {p} : purger'[q] = purger[q]
  BY ReleasedPurge DEF PurgeKilled
<1> USE DEF PurgeKilled, files
<1>2. LifecycleTypeOK' /\ kills' # 0
  BY <1>1, LifecycleAssumption DEF LifecycleInv, LifecycleTypeOK, Stored
<1>3. LocksHold'
  BY <1>1 DEF LifecycleInv, LocksHold, RowsAreHeld, IsDue, PublishedIsThere, PathsAreHeld,
              AtFiles, Content
<1>4. UnlinkedStays'
  BY <1>1 DEF LifecycleInv, UnlinkedStays, AtFiles, Content, Others, Stored
<1>5. RequestsAreYoung' /\ NothingLeaks' /\ BytesAreKnown'
  BY <1>2 DEF LifecycleInv, RequestsAreYoung, NothingLeaks, BytesAreKnown, Stored
<1> QED
  BY <1>2, <1>3, <1>4, <1>5 DEF LifecycleInv

\* A step that changes nothing keeps the invariant.
LEMMA LifecycleStutters ==
  LifecycleInv /\ UNCHANGED catalog => LifecycleInv'
BY DEF LifecycleInv, LifecycleTypeOK, LocksHold, RowsAreHeld, PublishedIsThere, PathsAreHeld, AtFiles,
       Content, IsDue, RequestsAreYoung, UnlinkedStays, Others, BytesAreKnown, CatalogHasBytes,
       NothingLeaks, Stored, Locked, catalog

\* Every step of the catalog keeps the invariant.
LEMMA LifecycleSteps ==
  LifecycleInv /\ [LifecycleNext]_catalog => LifecycleInv'
BY LifecycleStutters, TrashIsSafe, TrashReadIsSafe, SyncDeleteIsSafe, RestoreIsSafe,
   RetentionEndsIsSafe, RollbackIsSafe, SyncAttachIsSafe, UploadCommitIsSafe, SyncCloneIsSafe,
   UploadPublishIsSafe, UploadCrashIsSafe, ProcessPublishIsSafe, ProcessCommitIsSafe,
   ProcessCrashIsSafe, PurgeLockIsSafe, PurgeOriginalIsSafe, PurgeThumbnailIsSafe,
   PurgeCommitIsSafe, PurgeFailsIsSafe, PurgeKilledIsSafe, LockoutIsSafe
   DEF LifecycleNext, PurgeStep

\* The locks, the young requests and the checks that stay true hold whatever the
\* numbers of rows, contents, requests and purges (safely_purge_asset and the
\* writers of the catalog).
THEOREM LifecycleInvariance == LifecycleSpec => []LifecycleInv
BY LifecycleInitially, LifecycleSteps, PTL DEF LifecycleSpec

\* Every variable keeps its type, and only what is on its way out has a deadline
\* (ck_assets_retention_state).
THEOREM LifecycleIsTyped == LifecycleSpec => []LifecycleTypeOK
BY LifecycleInvariance, PTL DEF LifecycleInv

\* As long as no purge worker is killed between an unlink and its commit, every
\* revision that an account in service can show, roll back to or restore has its
\* bytes (safely_unlink_catalog_path against uploads, clones, restores, rollbacks).
THEOREM BytesAreThere == LifecycleSpec => [](kills = 0 => CatalogHasBytes)
BY LifecycleInvariance, PTL DEF LifecycleInv, BytesAreKnown

\* As long as no upload or processing task crashes, no byte outlives the last row
\* that names it, killed purges included.
THEOREM NothingIsLeaked == LifecycleSpec => []NothingLeaks
BY LifecycleInvariance, PTL DEF LifecycleInv

\* What a step may unlink: the bytes of one row, due, that a purge has in hand.
LEMMA UnlinkedIsLast ==
  ASSUME LifecycleInv, LifecycleNext, NEW c \in Checksums
  PROVE  /\ c \in originals \ originals' =>
              \E a \in Stored :
                /\ { b \in Stored : row[b].content = c } = {a}
                /\ row[a].state \in {"trashed", "purging"} /\ row[a].due
         /\ c \in thumbnails \ thumbnails' =>
              \A a \in Stored : row[a].content = c /\ row[a].thumbnail =>
                row[a].state \in {"trashed", "purging"} /\ row[a].due
<1>1. \A p \in Purgers : purger[p].step # "idle" =>
        purger[p].asset \in Stored /\ IsDue(purger[p].asset)
  BY DEF LifecycleInv, LifecycleTypeOK, LocksHold, RowsAreHeld, IsDue, Stored
<1>2. ASSUME NEW p \in Purgers, PurgeOriginal(p), c \in originals \ originals'
      PROVE  \E a \in Stored :
               /\ { b \in Stored : row[b].content = c } = {a}
               /\ row[a].state \in {"trashed", "purging"} /\ row[a].due
  BY <1>1, <1>2 DEF PurgeOriginal, Others, IsDue
<1>3. ASSUME NEW p \in Purgers, PurgeThumbnail(p), c \in thumbnails \ thumbnails'
      PROVE  \A a \in Stored : row[a].content = c /\ row[a].thumbnail =>
               row[a].state \in {"trashed", "purging"} /\ row[a].due
  BY <1>1, <1>3 DEF PurgeThumbnail, Others, IsDue
<1>4. /\ (\E p \in Purgers : PurgeOriginal(p)) \/ originals \subseteq originals'
      /\ (\E p \in Purgers : PurgeThumbnail(p)) \/ thumbnails \subseteq thumbnails'
  BY DEF LifecycleNext, Trash, TrashRead, SyncDelete, Restore, RetentionEnds, Rollback, SyncAttach,
         UploadCommit, SyncClone, UploadPublish, UploadCrash, ProcessPublish, ProcessCommit,
         ProcessCrash, PurgeStep, PurgeOriginal, PurgeThumbnail, PurgeCommit, PurgeFails,
         PurgeKilled, PurgeLock, Lockout, files, tasks
<1>5. ~(\E p \in Purgers : PurgeOriginal(p)) => c \notin originals \ originals'
  BY <1>4
<1>6. ~(\E p \in Purgers : PurgeThumbnail(p)) => c \notin thumbnails \ thumbnails'
  BY <1>4
<1> QED
  BY <1>2, <1>3, <1>5, <1>6

\* Bytes go only with the last row that names them, once its deadline has passed,
\* killed purges included (safely_unlink_catalog_path, purge_due_assets).
THEOREM LastReference == LifecycleSpec => LastReferenceGoes
<1>1. LifecycleInv /\ [LifecycleNext]_catalog =>
        [\A c \in Checksums :
           /\ c \in originals \ originals' =>
                \E a \in Stored :
                  /\ { b \in Stored : row[b].content = c } = {a}
                  /\ row[a].state \in {"trashed", "purging"} /\ row[a].due
           /\ c \in thumbnails \ thumbnails' =>
                \A a \in Stored : row[a].content = c /\ row[a].thumbnail =>
                  row[a].state \in {"trashed", "purging"} /\ row[a].due]_catalog
  BY UnlinkedIsLast
<1> QED
  BY <1>1, LifecycleInvariance, PTL DEF LifecycleSpec, LastReferenceGoes

=============================================================================
