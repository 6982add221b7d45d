----------------------------- MODULE SyncJournal -----------------------------
(***************************************************************************)
(* The server side of folder synchronization (services/sync.py and         *)
(* api/v1/sync.py): one sync root, its journal of operations, the items    *)
(* they lead to and the asset revisions the items show.                    *)
(*                                                                         *)
(* A push locks the user and the root and commits its whole batch at once, *)
(* so it is one step; so are a pull, which reads committed rows, and the   *)
(* resolution of a conflict.  A revision ("r<cursor>-<operation id>") is   *)
(* its cursor; 0 stands for None, and for the logical id a standalone      *)
(* asset has to itself.                                                    *)
(***************************************************************************)
EXTENDS Integers, Sequences, FiniteSets, SequencesExt

CONSTANTS
  Desktops,    \* client ids of the computers that have joined the root
  Contents,    \* contents a file can have
  Paths,       \* relative paths in the folder
  MaxLogical,  \* bound: logical items created
  MaxOps,      \* bound: operations in the journal
  Limit        \* operations a pull returns at most

ASSUME SyncAssumption ==
  /\ MaxLogical \in Nat \ {0} /\ MaxOps \in Nat /\ Limit \in Nat \ {0}
  /\ Contents # {} /\ Paths # {} /\ IsFiniteSet(Paths)

\* The committed rows: the cursor of the root, its operations in the order they
\* were inserted, its items, and the assets in the order they were inserted.
VARIABLE root

Logicals == 1..MaxLogical
Revisions == 0..(2 * MaxOps)

Operations == [ cursor : Revisions, client : Desktops, seq : 1..MaxOps,
                kind : {"upsert", "move", "delete"}, logical : Logicals,
                base : Revisions, path : Paths, asset : Nat,
                status : {"applied", "conflict", "rejected"} ]
Items == [ asset : Nat, path : Paths, revision : Revisions, deleted : BOOLEAN ]
NoItem == [ revision |-> 0 ]
Assets == [ content : Contents, logical : 0..MaxLogical,
            state : {"active", "superseded", "trashed"} ]

SyncInit == root = [ cursor |-> 0, ops |-> << >>, items |-> [l \in Logicals |-> NoItem],
                     assets |-> << >> ]

Exists(item) == item # NoItem
Active(db, a) == a # 0 /\ db.assets[a].state = "active"

\* An upload of a content the library already shows answers with that asset.
Uploaded(db, c) == { a \in DOMAIN db.assets : db.assets[a].content = c /\ Active(db, a) }
Upload(db, c) ==
  IF Uploaded(db, c) # {} THEN db
  ELSE [db EXCEPT !.assets = Append(@, [ content |-> c, logical |-> 0, state |-> "active" ])]

-----------------------------------------------------------------------------
(* _apply_item_operation.  Applicable says that it raises no ValueError.   *)

Applicable(db, op) ==
  LET item == db.items[op.logical] IN
  CASE op.kind = "upsert" -> Active(db, op.asset)
    [] op.kind = "move"   -> Exists(item) /\ ~item.deleted /\ (item.asset # 0 => Active(db, item.asset))
    [] op.kind = "delete" -> Exists(item) /\ item.asset # 0 => Active(db, item.asset)

\* The revision shown so far is superseded by the one that is attached.
Superseding(db, l, a) ==
  [ i \in DOMAIN db.assets |->
      IF i # a /\ db.assets[i].logical = l /\ db.assets[i].state = "active"
      THEN [db.assets[i] EXCEPT !.state = "superseded"] ELSE db.assets[i] ]

\* Mutant: an asset that another item shows is taken from it.
TakenFromOthers(db, l, a) == FALSE

\* A revision that another item shows, or that has a history elsewhere, is
\* cloned; a standalone upload becomes the new revision itself.
NeedsClone(db, l, a) ==
  LET own == db.assets[a].logical IN
  /\ own # l
  /\ \/ \E m \in Logicals \ {l} : Exists(db.items[m]) /\ db.items[m].asset = a
     \/ own # 0 /\ \E i \in DOMAIN db.assets \ {a} : db.assets[i].logical = own

Attach(db, l, a) ==
  LET kept == Superseding(db, l, a)
  IN IF NeedsClone(db, l, a)
     THEN Append(kept, [db.assets[a] EXCEPT !.logical = l])
     ELSE [kept EXCEPT ![a].logical = l]

\* The rows after an applicable operation with the given revision, and the
\* asset its payload names.
Applied(db, op, revision) ==
  LET l == op.logical
      item == db.items[l]
  IN CASE op.kind = "upsert" ->
            LET assets == Attach(db, l, op.asset)
                shown  == IF NeedsClone(db, l, op.asset) THEN Len(assets) ELSE op.asset
            IN [ asset |-> shown, path |-> op.path,
                 db |-> [db EXCEPT !.assets = assets,
                                   !.items[l] = [ asset |-> shown, path |-> op.path,
                                                  revision |-> revision, deleted |-> FALSE ]] ]
       [] op.kind = "move" ->
            [ asset |-> item.asset, path |-> op.path,
              db |-> [db EXCEPT !.items[l] = [@ EXCEPT !.path = op.path, !.revision = revision]] ]
       [] op.kind = "delete" /\ ~Exists(item) ->
            [ asset |-> 0, path |-> op.path,
              db |-> [db EXCEPT !.items[l] = [ asset |-> 0, path |-> op.path,
                                               revision |-> revision, deleted |-> FALSE ]] ]
       [] OTHER ->
            [ asset |-> 0, path |-> item.path,
              db |-> [db EXCEPT !.items[l] = [@ EXCEPT !.deleted = TRUE, !.revision = revision],
                                !.assets = IF item.asset = 0 THEN @
                                           ELSE [@ EXCEPT ![item.asset].state = "trashed"]] ]

-----------------------------------------------------------------------------
(* apply_operations.                                                       *)

\* Mutant: an operation is applied whatever revision it is based on.
BlindlyAccepted(db, in) == Applicable(db, in)

\* Based on the revision the item has, and possible.
Accepted(db, in) ==
  LET item == db.items[in.logical] IN
  /\ Exists(item) => in.base = item.revision
  /\ Applicable(db, in)

\* A sequence number the client has used before is a duplicate.
Duplicates(db, in) == { i \in DOMAIN db.ops : db.ops[i].client = in.client /\ db.ops[i].seq = in.seq }

\* One operation of a batch.
ApplyOne(db, in) ==
  IF Duplicates(db, in) # {} THEN db
  ELSE LET at   == db.cursor + 1
           ok   == Accepted(db, in)
           done == IF ok THEN Applied(db, in, at)
                   ELSE [ asset |-> in.asset, path |-> in.path, db |-> db ]
           op   == [ cursor |-> at, client |-> in.client, seq |-> in.seq, kind |-> in.kind,
                     logical |-> in.logical, base |-> in.base, path |-> done.path,
                     asset |-> done.asset, status |-> IF ok THEN "applied" ELSE "conflict" ]
       IN [done.db EXCEPT !.cursor = at, !.ops = Append(@, op)]

\* What push_operations commits and answers: per operation of the batch, the
\* one just inserted, or nothing the client recognizes (a duplicate carries
\* the operation id of an earlier push).
Push(db, batch) == FoldLeft(ApplyOne, db, batch)
Answer(before, after, in) ==
  IF Duplicates(before, in) # {} THEN {} ELSE { after.ops[i] : i \in Duplicates(after, in) }

\* pull_operations: at most Limit operations in the order of their cursors, with
\* the cursor of the root.
Since(db, cursor) ==
  LET new == { i \in DOMAIN db.ops : db.ops[i].cursor > cursor }
      Place(i) == Cardinality({ j \in new : db.ops[j].cursor <= db.ops[i].cursor })
      size == IF Cardinality(new) < Limit THEN Cardinality(new) ELSE Limit
  IN [ n \in 1..size |-> db.ops[CHOOSE i \in new : Place(i) = n] ]

\* Mutant: the operation that was kept stays at its old place in the journal.
KeepLocalInPlace(i) ==
  /\ root.ops[i].status = "conflict" /\ Applicable(root, root.ops[i])
  /\ LET at   == root.cursor + 1
         done == Applied(root, root.ops[i], at)
     IN root' = [done.db EXCEPT !.cursor = at,
                                !.ops[i] = [@ EXCEPT !.asset = done.asset, !.path = done.path,
                                                     !.status = "applied"]]

\* resolve_conflict, keep_local: what was refused is applied now, whatever the
\* item shows, and takes a new place in the journal.
KeepLocal(i) ==
  /\ root.ops[i].status = "conflict" /\ Applicable(root, root.ops[i])
  /\ LET at   == root.cursor + 1
         done == Applied(root, root.ops[i], at)
     IN root' = [done.db EXCEPT !.cursor = at,
                                !.ops[i] = [@ EXCEPT !.cursor = at, !.asset = done.asset,
                                                     !.path = done.path, !.status = "applied"]]

KeepRemote(i) ==
  /\ root.ops[i].status = "conflict"
  /\ root' = [root EXCEPT !.ops[i].status = "rejected"]

\* The owner trashes a photo in the web library (lifecycle.trash_asset).
WebTrash(a) ==
  /\ Active(root, a)
  /\ root' = [root EXCEPT !.assets[a].state = "trashed"]

=============================================================================
