----------------------------- MODULE DesktopSync -----------------------------
(***************************************************************************)
(* The desktop client (tools/drivebound_sync.py) on several computers that *)
(* have joined one root.  A run loads the state file, pulls, scans the     *)
(* folder, pushes what changed and saves the state file; it may die        *)
(* between any two of these, and other computers run in between.           *)
(*                                                                         *)
(* A file is its content: a fingerprint differs when the content does.     *)
(* Uploads are ResumableUpload's matter; here they yield the asset.        *)
(***************************************************************************)
EXTENDS SyncJournal

CONSTANTS
  NoFile,    \* a path without a file
  MaxEdits,  \* bound: changes the users make
  MaxDeaths  \* bound: runs killed, or answers lost

ASSUME DesktopAssumption == MaxEdits \in Nat /\ MaxDeaths \in Nat /\ NoFile \notin Contents

VARIABLES
  folder,  \* the files of each computer
  disk,    \* its state file
  mem,     \* what the run under way has loaded and changed
  stage,   \* how far that run is
  edits,
  deaths

desktop == << folder, disk, mem, stage, edits, deaths >>
syncVars == << root, desktop >>

NoEntry == [ revision |-> 0 ]
Entries == [ path : Paths, content : Contents, revision : Revisions ]
States == [ cursor : Revisions, entries : [Logicals -> Entries \cup {NoEntry}], seq : 0..MaxOps ]
NewState == [ cursor |-> 0, entries |-> [l \in Logicals |-> NoEntry], seq |-> 0 ]

DesktopInit ==
  /\ SyncInit
  /\ folder = [c \in Desktops |-> [p \in Paths |-> NoFile]]
  /\ disk = [c \in Desktops |-> NewState] /\ mem = disk
  /\ stage = [c \in Desktops |-> "off"]
  /\ edits = 0 /\ deaths = 0

Known(state) == { l \in Logicals : state.entries[l] # NoEntry }

\* unchanged_from_state.
Unchanged(files, entry) == files[entry.path] = entry.content

-----------------------------------------------------------------------------
(* pull_remote, one operation: acc holds the state, the files and whether  *)
(* the run still goes on.                                                  *)

Forget(state, l) == [state EXCEPT !.entries[l] = NoEntry]

\* Mutant: a remote delete does not look at the local file.
PullDeletesAnything(c, acc, op) ==
  LET entry == acc.state.entries[op.logical] IN
  IF ~acc.ok \/ op.status # "applied" \/ op.client = c \/ entry = NoEntry THEN acc
  ELSE [acc EXCEPT !.state = Forget(@, op.logical), !.files[entry.path] = NoFile]

PullDelete(c, acc, op) ==
  LET entry == acc.state.entries[op.logical] IN
  IF entry = NoEntry \/ ~Unchanged(acc.files, entry) THEN acc
  ELSE [acc EXCEPT !.state = Forget(@, op.logical), !.files[entry.path] = NoFile]

\* The original of a revision that is no longer active answers 404
\* (readable_asset), which ends the run.
PullFile(c, acc, op) ==
  LET entry == acc.state.entries[op.logical] IN
  IF op.asset = 0 \/ (entry # NoEntry /\ ~Unchanged(acc.files, entry)) THEN acc
  ELSE IF ~Active(root, op.asset) THEN [acc EXCEPT !.ok = FALSE]
  ELSE LET content == root.assets[op.asset].content
       IN [acc EXCEPT !.files[op.path] = content,
                      !.state.entries[op.logical] =
                         [ path |-> op.path, content |-> content, revision |-> op.cursor ]]

PullOne(c, acc, op) ==
  IF ~acc.ok \/ op.status # "applied" \/ op.client = c THEN acc
  ELSE IF op.kind = "delete" THEN PullDelete(c, acc, op) ELSE PullFile(c, acc, op)

\* The state and the files after the first n operations of an answer.
Pulled(c, n) ==
  FoldLeft(LAMBDA acc, op : PullOne(c, acc, op),
           [ state |-> disk[c], files |-> folder[c], ok |-> TRUE ],
           SubSeq(Since(root, disk[c].cursor), 1, n))
Offered(c) == Len(Since(root, disk[c].cursor))

\* The client then takes the cursor of the root for its own.
Pull(c) ==
  /\ stage[c] = "off"
  /\ LET done == Pulled(c, Offered(c)) IN
     /\ done.ok
     /\ folder' = [folder EXCEPT ![c] = done.files]
     /\ mem' = [mem EXCEPT ![c] = [done.state EXCEPT !.cursor = root.cursor]]
  /\ stage' = [stage EXCEPT ![c] = "pulled"]
  /\ UNCHANGED << root, disk, edits, deaths >>

\* A download fails: the files before it are replaced, the state file is not.
PullFails(c) ==
  /\ stage[c] = "off"
  /\ LET done == Pulled(c, Offered(c)) IN
     /\ ~done.ok
     /\ folder' = [folder EXCEPT ![c] = done.files]
  /\ UNCHANGED << root, disk, mem, stage, edits, deaths >>

\* The run is killed, or loses the server, in the middle of a pull.
DieInPull(c) ==
  /\ stage[c] = "off" /\ deaths < MaxDeaths
  /\ \E n \in 1..Offered(c) :
       /\ Pulled(c, n).ok
       /\ folder' = [folder EXCEPT ![c] = Pulled(c, n).files]
  /\ deaths' = deaths + 1
  /\ UNCHANGED << root, disk, mem, stage, edits >>

-----------------------------------------------------------------------------
(* local_changes.                                                          *)

Present(c) == { p \in Paths : folder[c][p] # NoFile }
\* The entry by_path finds for a path; of several, any.
Direct(c) == { own \in [Present(c) -> Logicals \cup {0}] :
                 \A p \in Present(c) :
                   LET here == { l \in Known(mem[c]) : mem[c].entries[l].path = p }
                   IN own[p] \in (IF here = {} THEN {0} ELSE here) }
\* A logical id that nobody uses; 0 when the bound is reached.
FreshId(db, used) ==
  LET free == { l \in Logicals \ used : \A i \in DOMAIN db.ops : db.ops[i].logical # l }
  IN IF free = {} THEN 0 ELSE CHOOSE l \in free : TRUE

\* make_operation: the n-th operation of a push.
Proposal(c, n, kind, l, base, p, a) ==
  [ client |-> c, seq |-> mem[c].seq + n, kind |-> kind, logical |-> l,
    base |-> base, path |-> p, asset |-> a ]

\* One path of the scan: acc holds the entries not met yet, the database with
\* the uploads, and the operations with the contents they are about.
ScanOne(c, own, acc, p) ==
  LET x       == folder[c][p]
      l       == own[p]
      entries == mem[c].entries
      moved   == { m \in acc.unmatched : entries[m].content = x }
      n       == Len(acc.batch) + 1
  IN IF l # 0 /\ Unchanged(folder[c], entries[l])
     THEN [acc EXCEPT !.unmatched = @ \ {l}]
     ELSE IF moved # {}
     THEN LET m == CHOOSE m \in moved : TRUE
          IN [acc EXCEPT !.unmatched = @ \ {m}, !.used = @ \cup {m},
                         !.batch = Append(@, Proposal(c, n, "move", m, entries[m].revision, p, 0)),
                         !.about = Append(@, x)]
     ELSE LET db == Upload(acc.db, x)
              m  == IF l # 0 THEN l ELSE FreshId(db, acc.used)
               base == IF l # 0 THEN entries[l].revision ELSE 0
         IN [acc EXCEPT !.unmatched = @ \ {m}, !.used = @ \cup {m}, !.db = db,
                         !.batch = Append(@, Proposal(c, n, "upsert", m, base, p,
                                                      CHOOSE a \in Uploaded(db, x) : TRUE)),
                         !.about = Append(@, x)]

\* Every entry whose path was not met is a delete.
Deletes(c, unmatched, n) ==
  [ i \in 1..Cardinality(unmatched) |->
      LET l == SetToSeq(unmatched)[i]
      IN Proposal(c, n + i, "delete", l, mem[c].entries[l].revision, mem[c].entries[l].path, 0) ]

\* A scan of the files in some order of their paths.
Scanned(c, own, order) ==
  FoldLeft(LAMBDA acc, p : ScanOne(c, own, acc, p),
           [ unmatched |-> Known(mem[c]), db |-> root, batch |-> << >>,
             about |-> << >>, used |-> Known(mem[c]) ],
           order)

\* What a scan proposes, with the deletes at its end.
Proposes(c, own, order) ==
  LET done == Scanned(c, own, order)
  IN [ db |-> done.db, about |-> done.about,
       batch |-> done.batch \o Deletes(c, done.unmatched, Len(done.batch)) ]
Scans(c) == { Proposes(c, own, order) : own \in Direct(c), order \in SetToSeqs(Present(c)) }

\* apply_push_result, one operation of the batch.
AcknowledgeOne(state, in, content, answer) ==
  IF \A op \in answer : op.status # "applied" THEN state
  ELSE IF in.kind = "delete" THEN Forget(state, in.logical)
  ELSE [state EXCEPT !.entries[in.logical] =
          [ path |-> in.path, content |-> content,
            revision |-> (CHOOSE op \in answer : TRUE).cursor ]]

\* All operations of a batch, one after the other.
Entered(state, before, after, scan) ==
  FoldLeft(LAMBDA acc, i : AcknowledgeOne(acc, scan.batch[i],
                             IF i <= Len(scan.about) THEN scan.about[i] ELSE NoFile,
                             Answer(before, after, scan.batch[i])),
           state, [i \in DOMAIN scan.batch |-> i])

\* The client takes over the cursor of the root with the answer.
Acknowledged(state, before, after, scan) ==
  [Entered(state, before, after, scan) EXCEPT !.cursor = after.cursor,
                                              !.seq = scan.batch[Len(scan.batch)].seq]

\* The batch is committed with the answer.  An upload on the way has saved the
\* state file as it was after the pull (resume_or_create).
PushChanges(c) ==
  /\ stage[c] = "pulled"
  /\ \E scan \in Scans(c) :
       /\ scan.batch # << >>
       /\ Len(root.ops) + Len(scan.batch) <= MaxOps
       /\ \A i \in DOMAIN scan.batch : scan.batch[i].logical # 0
       /\ scan.batch[Len(scan.batch)].seq <= MaxOps
       /\ LET db == Push(scan.db, scan.batch) IN
          /\ root' = db
          /\ mem' = [mem EXCEPT ![c] = Acknowledged(@, scan.db, db, scan)]
       /\ disk' = [disk EXCEPT ![c] = IF scan.db # root THEN mem[c] ELSE @]
  /\ stage' = [stage EXCEPT ![c] = "pushed"]
  /\ UNCHANGED << folder, edits, deaths >>

\* save_state, after a push or when the scan found nothing to push.
Save(c) ==
  /\ \/ stage[c] = "pushed"
     \/ stage[c] = "pulled" /\ \E scan \in Scans(c) : scan.batch = << >>
  /\ disk' = [disk EXCEPT ![c] = mem[c]]
  /\ stage' = [stage EXCEPT ![c] = "off"]
  /\ UNCHANGED << root, folder, mem, edits, deaths >>

\* The run is killed, or the answer to its push is lost.
Die(c) ==
  /\ stage[c] # "off" /\ deaths < MaxDeaths
  /\ stage' = [stage EXCEPT ![c] = "off"]
  /\ mem' = [mem EXCEPT ![c] = disk[c]]
  /\ deaths' = deaths + 1
  /\ UNCHANGED << root, folder, disk, edits >>

-----------------------------------------------------------------------------
(* The people at the computers, and in the web library.                    *)

Edit(c) ==
  /\ edits < MaxEdits
  /\ \/ \E p \in Paths, x \in Contents \cup {NoFile} :
          folder[c][p] # x /\ folder' = [folder EXCEPT ![c][p] = x]
     \/ \E p \in Present(c), q \in Paths \ Present(c) :
          folder' = [folder EXCEPT ![c][q] = folder[c][p], ![c][p] = NoFile]
  /\ edits' = edits + 1
  /\ UNCHANGED << root, disk, mem, stage, deaths >>

Decide ==
  /\ \E i \in DOMAIN root.ops : root.cursor < 2 * MaxOps /\ (KeepLocal(i) \/ KeepRemote(i))
  /\ UNCHANGED desktop

Trash ==
  /\ edits < MaxEdits
  /\ \E a \in DOMAIN root.assets : WebTrash(a)
  /\ edits' = edits + 1
  /\ UNCHANGED << folder, disk, mem, stage, deaths >>

RunOn(c) == Pull(c) \/ PullFails(c) \/ PushChanges(c) \/ Save(c)

SyncNext ==
  \/ \E c \in Desktops : RunOn(c) \/ DieInPull(c) \/ Die(c) \/ Edit(c)
  \/ Decide
  \/ Trash

SyncSpec == DesktopInit /\ [][SyncNext]_syncVars

-----------------------------------------------------------------------------
(* Properties.                                                             *)

\* Every variable keeps its type.
SyncTypeOK ==
  /\ root.cursor \in Revisions /\ Len(root.ops) <= MaxOps
  /\ \A i \in DOMAIN root.ops : root.ops[i] \in Operations
  /\ \A l \in Logicals : root.items[l] \in Items \cup {NoItem}
  /\ \A a \in DOMAIN root.assets : root.assets[a] \in Assets
  /\ folder \in [Desktops -> [Paths -> Contents \cup {NoFile}]]
  /\ disk \in [Desktops -> States] /\ mem \in [Desktops -> States]
  /\ stage \in [Desktops -> {"off", "pulled", "pushed"}]
  /\ edits \in 0..MaxEdits /\ deaths \in 0..MaxDeaths

AppliedTo(l) == { i \in DOMAIN root.ops : root.ops[i].logical = l /\ root.ops[i].status = "applied" }

\* The journal, read in the order of its cursors, leads to the items: an item
\* shows what the last applied operation on it says, also after conflicts, kept
\* local versions and duplicated pushes (apply_operations, resolve_conflict).
JournalGivesItems ==
  \A l \in Logicals :
    LET item == root.items[l] IN
    /\ Exists(item) <=> AppliedTo(l) # {}
    /\ \A i \in AppliedTo(l) :
         (\A j \in AppliedTo(l) : root.ops[j].cursor <= root.ops[i].cursor) =>
           /\ item.revision = root.ops[i].cursor
           /\ IF root.ops[i].kind = "delete" THEN item.deleted \/ item.asset = 0
              ELSE ~item.deleted /\ item.asset = root.ops[i].asset /\ item.path = root.ops[i].path

\* An item shows a revision of its own history, the active one unless the owner
\* has trashed it, and a history never has two active revisions, although equal
\* uploads share an asset (the clone in _apply_item_operation, the unique index
\* uq_assets_active_logical).
HistoryIsSound ==
  /\ \A l \in Logicals :
       Cardinality({ a \in DOMAIN root.assets :
                       root.assets[a].logical = l /\ root.assets[a].state = "active" }) <= 1
  /\ \A l \in Logicals :
       LET item == root.items[l] IN
       Exists(item) /\ item.asset # 0 =>
         /\ root.assets[item.asset].logical = l
         /\ ~item.deleted => root.assets[item.asset].state # "superseded"

\* What a computer believes to be synchronized is what the journal says of that
\* revision, and the server has those bytes: in the state file and in a run,
\* after conflicts, killed runs and lost answers (apply_push_result, pull_remote).
EntriesFollowJournal ==
  \A c \in Desktops : \A state \in {disk[c], mem[c]} : \A l \in Known(state) :
    LET entry == state.entries[l] IN
    \E i \in AppliedTo(l) :
      /\ root.ops[i].cursor = entry.revision
      /\ root.ops[i].path = entry.path
      /\ root.ops[i].asset # 0 /\ root.assets[root.ops[i].asset].content = entry.content

\* A file that another computer puts at path p comes before the deletion d.
Replaced(c, p, d) ==
  \E i \in DOMAIN root.ops :
    /\ root.ops[i].status = "applied" /\ root.ops[i].kind # "delete"
    /\ root.ops[i].client # c /\ root.ops[i].path = p
    /\ root.ops[i].cursor > disk[c].cursor /\ root.ops[i].cursor < root.ops[d].cursor

\* A run removes a file only when another computer has deleted the item that was
\* synchronized at that path since the last run, and the server has the bytes
\* that are removed in the history of that item, unless the same run has first
\* replaced them (pull_remote; NothingIsOverwritten is about that case).
RemovalIsSafe ==
  [][\A c \in Desktops, p \in Paths :
       edits' = edits /\ folder[c][p] # NoFile /\ folder'[c][p] = NoFile =>
         \E l \in Known(disk[c]) : \E i \in AppliedTo(l) :
           /\ disk[c].entries[l].path = p
           /\ root.ops[i].kind = "delete" /\ root.ops[i].client # c
           /\ root.ops[i].cursor > disk[c].cursor
           /\ \/ Replaced(c, p, i)
              \/ \E a \in DOMAIN root.assets :
                   root.assets[a].logical = l /\ root.assets[a].content = folder[c][p]]_syncVars

\* A run replaces no content that the server does not have (pull_remote; the
\* client ends with "no local file was overwritten").
NothingIsOverwritten ==
  [][\A c \in Desktops, p \in Paths :
       edits' = edits /\ folder[c][p] # NoFile /\ folder'[c][p] # folder[c][p] =>
         \E a \in DOMAIN root.assets : root.assets[a].content = folder[c][p]]_syncVars

=============================================================================
