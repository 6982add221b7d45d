------------------------- MODULE DesktopSyncProofs -------------------------
(***************************************************************************)
(* DesktopSync for any number of computers, files, paths and operations.   *)
(*                                                                         *)
(* The invariant has a part for the rows of the server (JournalInv) and a  *)
(* part for the computers (ClientsTyped, Follows).                         *)
(*                                                                         *)
(* That the journal leads to the items rests on the order of the cursors:  *)
(* an operation is applied with the next cursor of its root, also when a   *)
(* decision applies one that has waited, so an item always shows the       *)
(* latest operation applied to it (ItemsFollow, PlacesDiffer).  That a     *)
(* history has one active revision needs to know whose revision an         *)
(* operation names (OpsOwn), because resolve_conflict applies revisions    *)
(* that were attached long before.                                         *)
(*                                                                         *)
(* A computer follows the journal: what it holds of an item is what an     *)
(* applied operation of that revision says.  It stays so because the       *)
(* server never undoes an applied operation (Grows), and a push, a pull    *)
(* and a scan each keep it one operation at a time.                        *)
(*                                                                         *)
(* The folds of the model are unfolded into runs of single steps (PushRun, *)
(* ScanRun, EnterRun, PullRun), and UpTo is the induction over them.       *)
(***************************************************************************)
EXTENDS DesktopSync, FiniteSetTheorems, WellFoundedInduction, TLAPS

-----------------------------------------------------------------------------
(* The invariant of the rows of the server.  It is stated of any rows db,   *)
(* because inside a push there are rows that no state shows.                *)

Journals == [ cursor : Revisions, ops : Seq(Operations),
              items : [Logicals -> Items \cup {NoItem}], assets : Seq(Assets) ]

\* The applied operations, all of them and those on one item.
Done(db) == { i \in 1..Len(db.ops) : db.ops[i].status = "applied" }
DoneTo(db, l) == { i \in Done(db) : db.ops[i].logical = l }

\* The cursor has gone on once for each operation, and once more for those that
\* were kept after a conflict.
Budget(db) == db.cursor <= Len(db.ops) + Cardinality(Done(db))

\* No cursor and no sequence number of a client is used twice.
PlacesDiffer(db) ==
  /\ \A i \in 1..Len(db.ops) : db.ops[i].cursor \in 1..db.cursor
  /\ \A i, j \in 1..Len(db.ops) : i # j =>
       /\ db.ops[i].cursor # db.ops[j].cursor
       /\ db.ops[i].client # db.ops[j].client \/ db.ops[i].seq # db.ops[j].seq

\* The assets that operations and items name are there.
AssetsThere(db) ==
  /\ \A i \in 1..Len(db.ops) : db.ops[i].asset <= Len(db.assets)
  /\ \A l \in Logicals : Exists(db.items[l]) => db.items[l].asset <= Len(db.assets)

\* The item shows what operation i has left, and none was applied to it later.
Shows(db, l, i) ==
  /\ db.items[l].revision = db.ops[i].cursor
  /\ \A j \in DoneTo(db, l) : db.ops[j].cursor <= db.ops[i].cursor
  /\ IF db.ops[i].kind = "delete" THEN db.items[l].deleted \/ db.items[l].asset = 0
     ELSE /\ ~ db.items[l].deleted
          /\ db.items[l].asset = db.ops[i].asset /\ db.items[l].path = db.ops[i].path
ItemsFollow(db) ==
  \A l \in Logicals :
    /\ Exists(db.items[l]) => \E i \in DoneTo(db, l) : Shows(db, l, i)
    /\ ~ Exists(db.items[l]) => DoneTo(db, l) = {}

\* A history has one active revision, and the item it belongs to shows one of
\* its revisions.
OneActive(db) ==
  \A a, b \in 1..Len(db.assets) :
    /\ db.assets[a].state = "active" /\ db.assets[b].state = "active"
    /\ db.assets[a].logical = db.assets[b].logical /\ db.assets[a].logical # 0
    => a = b
OwnHistory(db) ==
  /\ \A l \in Logicals :
       Exists(db.items[l]) /\ db.items[l].asset # 0 =>
         /\ db.assets[db.items[l].asset].logical = l
         /\ ~ db.items[l].deleted => db.assets[db.items[l].asset].state # "superseded"
  /\ \A a \in 1..Len(db.assets) :
       db.assets[a].logical # 0 =>
         Exists(db.items[db.assets[a].logical]) /\ db.items[db.assets[a].logical].asset # 0

\* What an applied operation names is a revision of its item; a delete names
\* none, and leaves none of those before it active.
OpsOwn(db) ==
  /\ \A i \in Done(db) :
       /\ db.ops[i].asset # 0 => db.assets[db.ops[i].asset].logical = db.ops[i].logical
       /\ db.ops[i].kind = "delete" => db.ops[i].asset = 0
  /\ \A i, j \in Done(db) :
       /\ db.ops[j].kind = "delete" /\ db.ops[j].logical = db.ops[i].logical
       /\ db.ops[i].cursor < db.ops[j].cursor /\ db.ops[i].asset # 0
       => db.assets[db.ops[i].asset].state # "active"

JournalInv(db) ==
  /\ db \in Journals /\ Budget(db) /\ PlacesDiffer(db) /\ AssetsThere(db)
  /\ ItemsFollow(db) /\ OneActive(db) /\ OwnHistory(db) /\ OpsOwn(db)

\* What steps of the server never undo: an applied operation stays as it is, an
\* operation keeps who sent it and a content and a history stay with the asset.
Grows(db, later) ==
  /\ Len(db.ops) <= Len(later.ops) /\ Len(db.assets) <= Len(later.assets)
  /\ db.cursor <= later.cursor
  /\ \A i \in 1..Len(db.ops) :
       /\ later.ops[i].client = db.ops[i].client /\ later.ops[i].seq = db.ops[i].seq
       /\ db.ops[i].status = "applied" => later.ops[i] = db.ops[i]
  /\ \A a \in 1..Len(db.assets) : later.assets[a].content = db.assets[a].content

-----------------------------------------------------------------------------
(* The invariant of the clients.                                           *)

\* The entry of l in a state file is what operation i of the journal says.
Recorded(db, entry, l, i) ==
  /\ db.ops[i].cursor = entry.revision /\ db.ops[i].path = entry.path
  /\ db.ops[i].asset # 0 /\ db.assets[db.ops[i].asset].content = entry.content
Follows(db, state) ==
  \A l \in Known(state) : \E i \in DoneTo(db, l) : Recorded(db, state.entries[l], l, i)

ClientsTyped ==
  /\ folder \in [Desktops -> [Paths -> Contents \cup {NoFile}]]
  /\ disk \in [Desktops -> States] /\ mem \in [Desktops -> States]
  /\ stage \in [Desktops -> {"off", "pulled", "pushed"}]
  /\ edits \in 0..MaxEdits /\ deaths \in 0..MaxDeaths

SyncInv ==
  /\ JournalInv(root) /\ Len(root.ops) <= MaxOps
  /\ ClientsTyped
  /\ \A c \in Desktops : Follows(root, disk[c]) /\ Follows(root, mem[c])

-----------------------------------------------------------------------------
(* Induction, and the folds of the model.                                  *)

\* A set of numbers has a least one.
LEMMA Least ==
  ASSUME NEW T, T \subseteq Nat, T # {}
  PROVE  \E n \in T : \A m \in T : n <= m
<1>1. IsWellFoundedOn(OpToRel(<, Nat), Nat)  BY NatLessThanWellFounded
<1> DEFINE R == OpToRel(<, Nat)
<1>2. \A x, y \in Nat : <<x, y>> \in R <=> x < y  BY DEF OpToRel
<1>3. IsWellFoundedOn(R, Nat)  BY <1>1
<1> HIDE DEF R
<1>4. PICK x \in T : \A y \in T : ~ (<<y, x>> \in R)  BY <1>3, WFMin
<1>5. ASSUME NEW y \in T  PROVE  x <= y
  <2>1. x \in Nat /\ y \in Nat  OBVIOUS
  <2>2. ~ (y < x)  BY <1>2, <1>4, <2>1
  <2> QED  BY <2>1, <2>2
<1> QED  BY <1>5

\* What holds at 0, and at every place up to n if it holds before, holds everywhere.
LEMMA UpTo ==
  ASSUME NEW n \in Nat, NEW G, 0 \in G, \A i \in 1..n : i - 1 \in G => i \in G
  PROVE  \A i \in 0..n : i \in G
<1> DEFINE T == { i \in 0..n : i \notin G }
<1>1. SUFFICES ASSUME T # {} PROVE FALSE  OBVIOUS
<1> HIDE DEF T
<1>0. T \subseteq Nat  BY DEF T
<1>2. PICK m \in T : \A k \in T : m <= k  BY <1>0, <1>1, Least
<1> USE DEF T
<1>3. m # 0 /\ m - 1 \in 0..n /\ m - 1 \notin T  BY <1>2
<1> QED  BY <1>2, <1>3

\* The largest element of a set of places that holds the last one.
LEMMA MaxOfInitial ==
  ASSUME NEW m \in Nat, NEW s \in SUBSET (1..m+1), m + 1 \in s
  PROVE  Max(s) = m + 1 /\ s \ {m + 1} \in SUBSET (1..m)
<1>1. m + 1 \in s /\ \A y \in s : m + 1 >= y  OBVIOUS
<1>2. \A x \in s : (\A y \in s : x >= y) => x = m + 1  OBVIOUS
<1>3. Max(s) = m + 1  BY <1>1, <1>2 DEF Max
<1> QED  BY <1>3

\* The fold of a push is well defined.
LEMMA PushRun ==
  ASSUME NEW db, NEW batch, NEW n \in Nat, DOMAIN batch = 1..n
  PROVE  \E run : /\ run[0] = db /\ run[n] = Push(db, batch)
                  /\ \A i \in 1..n : run[i] = ApplyOne(run[i - 1], batch[i])
<1> DEFINE Eq(it, m) == it = [s \in SUBSET (1..m) |-> IF s = {} THEN db
                              ELSE ApplyOne(it[s \ {Max(s)}], batch[Max(s)])]
           G == { m \in Nat : \E it : Eq(it, m) }
<1>1. 0 \in G
  <2> DEFINE it == [s \in SUBSET (1..0) |-> db]
  <2>1. \A s \in SUBSET (1..0) : s = {}  OBVIOUS
  <2>2. Eq(it, 0)  BY <2>1
  <2> QED  BY <2>2
<1>2. ASSUME NEW i \in 1..n, i - 1 \in G
      PROVE  i \in G
  <2> DEFINE m == i - 1
  <2>0. m \in Nat /\ m + 1 = i  OBVIOUS
  <2>1. PICK it : Eq(it, m)  BY <1>2
  <2> DEFINE jt == [s \in SUBSET (1..i) |-> IF i \in s THEN ApplyOne(it[s \ {i}], batch[i]) ELSE it[s]]
  <2>2. ASSUME NEW s \in SUBSET (1..i)
        PROVE  jt[s] = IF s = {} THEN db ELSE ApplyOne(jt[s \ {Max(s)}], batch[Max(s)])
    <3>1. CASE i \in s
      <4>1. Max(s) = i /\ s \ {i} \in SUBSET (1..m)  BY <2>0, <3>1, MaxOfInitial
      <4>2. jt[s \ {i}] = it[s \ {i}]  BY <4>1
      <4> QED  BY <3>1, <4>1, <4>2
    <3>2. CASE i \notin s
      <4>1. s \in SUBSET (1..m)  BY <3>2
      <4>2. it[s] = IF s = {} THEN db ELSE ApplyOne(it[s \ {Max(s)}], batch[Max(s)])  BY <2>1, <4>1
      <4>3. s \ {Max(s)} \in SUBSET (1..i) /\ i \notin s \ {Max(s)}  BY <3>2
      <4> QED  BY <3>2, <4>2, <4>3
    <3> QED  BY <3>1, <3>2
  <2>3. Eq(jt, i)  BY <2>2
  <2>4. i \in Nat  OBVIOUS
  <2> HIDE DEF Eq, jt
  <2> QED  BY <2>3, <2>4
<1> HIDE DEF Eq, G
<1>3. \A i \in 0..n : i \in G  BY ONLY <1>1, <1>2, UpTo, n \in Nat
<1>4. \E it : Eq(it, n)  BY <1>3 DEF G
<1> USE DEF Eq
<1> DEFINE It == CHOOSE it : it = [s \in SUBSET (DOMAIN batch) |-> IF s = {} THEN db
                              ELSE ApplyOne(it[s \ {Max(s)}], batch[Max(s)])]
<1>5. Push(db, batch) = It[DOMAIN batch]
  BY DEF Push, FoldLeft, MapThenFoldSet
<1>6. It = [s \in SUBSET (DOMAIN batch) |-> IF s = {} THEN db
                              ELSE ApplyOne(It[s \ {Max(s)}], batch[Max(s)])]
  BY <1>4
<1> HIDE DEF It
<1> DEFINE run == [i \in 0..n |-> It[1..i]]
<1>7. run[0] = db
  <2>1. 1..0 = {}  OBVIOUS
  <2> QED  BY <1>6, <2>1
<1>8. ASSUME NEW i \in 1..n
      PROVE  run[i] = ApplyOne(run[i - 1], batch[i])
  <2> DEFINE m == i - 1
  <2>1. m \in Nat /\ m + 1 = i /\ i \in 1..i /\ 1..i \in SUBSET (1..n)  OBVIOUS
  <2>2. Max(1..i) = i  BY <2>1, MaxOfInitial
  <2>3. (1..i) \ {i} = 1..m  OBVIOUS
  <2>4. 1..i # {}  BY <2>1
  <2>5. It[1..i] = ApplyOne(It[(1..i) \ {Max(1..i)}], batch[Max(1..i)])  BY <1>6, <2>1, <2>4
  <2>6. run[i] = It[1..i] /\ run[m] = It[1..m]  OBVIOUS
  <2> QED  BY <2>2, <2>3, <2>5, <2>6
<1>9. run[n] = Push(db, batch)  BY <1>5
<1> HIDE DEF run
<1> QED  BY <1>7, <1>8, <1>9

-----------------------------------------------------------------------------
(* What an applied operation does to the assets and to its item.           *)

\* The fields of the rows of a root.
LEMMA JournalsFields ==
  ASSUME NEW db \in Journals
  PROVE  /\ db.cursor \in Revisions /\ db.ops \in Seq(Operations)
         /\ db.items \in [Logicals -> Items \cup {NoItem}] /\ db.assets \in Seq(Assets)
BY DEF Journals

\* The journal and the assets are numbered from one.
LEMMA JournalSizes ==
  ASSUME NEW db \in Journals
  PROVE  /\ db.cursor \in Nat /\ Len(db.ops) \in Nat /\ Len(db.assets) \in Nat
         /\ DOMAIN db.ops = 1..Len(db.ops) /\ DOMAIN db.assets = 1..Len(db.assets)
<1>1. db.cursor \in Revisions /\ db.ops \in Seq(Operations) /\ db.assets \in Seq(Assets)
  BY JournalsFields
<1> QED  BY <1>1 DEF Revisions

\* The fields of an asset.
LEMMA AssetFields ==
  ASSUME NEW x \in Assets
  PROVE  /\ x.content \in Contents /\ x.logical \in 0..MaxLogical /\ x.logical \in Nat
         /\ x.state \in {"active", "superseded", "trashed"}
BY SyncAssumption DEF Assets

\* An asset in another state keeps its content and its history.
LEMMA AssetRestated ==
  ASSUME NEW x \in Assets, NEW s \in {"active", "superseded", "trashed"}
  PROVE  /\ [x EXCEPT !.state = s] \in Assets
         /\ [x EXCEPT !.state = s].state = s
         /\ [x EXCEPT !.state = s].content = x.content
         /\ [x EXCEPT !.state = s].logical = x.logical
BY DEF Assets

\* An asset in another history keeps its content and its state.
LEMMA AssetRelated ==
  ASSUME NEW x \in Assets, NEW l \in 0..MaxLogical
  PROVE  /\ [x EXCEPT !.logical = l] \in Assets
         /\ [x EXCEPT !.logical = l].logical = l
         /\ [x EXCEPT !.logical = l].content = x.content
         /\ [x EXCEPT !.logical = l].state = x.state
BY DEF Assets

\* The fields of an item.
LEMMA ItemFields ==
  ASSUME NEW x \in Items
  PROVE  /\ x.asset \in Nat /\ x.path \in Paths /\ x.revision \in Revisions
         /\ x.deleted \in BOOLEAN
BY DEF Items

\* The fields of an operation of the journal.
LEMMA OperationFields ==
  ASSUME NEW x \in Operations
  PROVE  /\ x.cursor \in Revisions /\ x.client \in Desktops /\ x.seq \in 1..MaxOps
         /\ x.kind \in {"upsert", "move", "delete"} /\ x.logical \in Logicals
         /\ x.base \in Revisions /\ x.path \in Paths /\ x.asset \in Nat
         /\ x.status \in {"applied", "conflict", "rejected"}
BY DEF Operations

\* Revisions, items and sequence numbers are numbers; 0 is no item.
LEMMA Numbers ==
  /\ Revisions \subseteq Nat /\ Logicals \subseteq Nat /\ Logicals \subseteq 0..MaxLogical
  /\ 0 \notin Logicals /\ 0 \in 0..MaxLogical /\ 0 \in Revisions /\ 1..MaxOps \subseteq Nat
BY SyncAssumption DEF Revisions, Logicals

\* The assets B after a step on item l, from the assets A.
AssetsStep(A, B, l) ==
  /\ B \in Seq(Assets) /\ Len(A) <= Len(B)
  /\ \A a \in 1..Len(A) :
       /\ B[a].content = A[a].content
       /\ A[a].logical # 0 => B[a].logical = A[a].logical
       /\ B[a].state = "active" => A[a].state = "active"
  /\ \A a \in 1..Len(B) : B[a].logical # l => a <= Len(A) /\ B[a] = A[a]
  /\ \A a, b \in 1..Len(B) :
       B[a].logical = l /\ B[b].logical = l /\ B[a].state = "active" /\ B[b].state = "active"
       => a = b

\* Assets that other items show, or that have a history, are cloned.
LEMMA CloneNeeded ==
  ASSUME NEW db \in Journals, OwnHistory(db), AssetsThere(db), NEW l \in Logicals,
         NEW a \in 1..Len(db.assets), ~ NeedsClone(db, l, a)
  PROVE  db.assets[a].logical \in {0, l}
<1> DEFINE own == db.assets[a].logical
<1>1. SUFFICES ASSUME own # 0, own # l PROVE FALSE  OBVIOUS
<1>2. db.assets \in Seq(Assets) /\ db.assets[a] \in Assets  BY JournalsFields
<1>3. own \in Logicals  BY <1>1, <1>2, AssetFields, SyncAssumption DEF Logicals
<1>4. Exists(db.items[own]) /\ db.items[own].asset # 0  BY <1>1 DEF OwnHistory
<1> DEFINE b == db.items[own].asset
<1>5. db.items[own] \in Items  BY <1>3, <1>4, JournalsFields DEF Exists
<1>6. b \in Nat /\ b # 0 /\ b <= Len(db.assets)  BY <1>3, <1>4, <1>5, ItemFields DEF AssetsThere
<1>7. b \in 1..Len(db.assets)  BY <1>2, <1>6
<1>8. db.assets[b].logical = own  BY <1>3, <1>4 DEF OwnHistory
<1>9. b # a  BY <1>1, <1>3, <1>4 DEF NeedsClone
<1>10. b \in DOMAIN db.assets \ {a}  BY <1>2, <1>7, <1>9
<1> QED  BY <1>1, <1>8, <1>10 DEF NeedsClone

\* _attach_revision_to_logical_file leaves no other revision of the history active,
\* and no other history changed.
LEMMA SupersededOthers ==
  ASSUME NEW db \in Journals, NEW l \in Logicals, NEW a \in 1..Len(db.assets)
  PROVE  LET A == db.assets
             K == Superseding(db, l, a)
         IN /\ K \in Seq(Assets) /\ Len(K) = Len(A) /\ K[a] = A[a]
            /\ \A i \in 1..Len(A) :
                 /\ K[i].content = A[i].content /\ K[i].logical = A[i].logical
                 /\ K[i].state = "active" => A[i].state = "active"
                 /\ i # a /\ A[i].logical = l => K[i].state # "active"
                 /\ A[i].logical # l => K[i] = A[i]
<1> DEFINE A == db.assets
           K == Superseding(db, l, a)
<1>1. A \in Seq(Assets)  BY JournalsFields
<1> HIDE DEF A
<1>2. DOMAIN A = 1..Len(A) /\ Len(A) \in Nat /\ \A i \in 1..Len(A) : A[i] \in Assets  BY <1>1
<1>3. K = [ i \in 1..Len(A) |-> IF i # a /\ A[i].logical = l /\ A[i].state = "active"
                                THEN [A[i] EXCEPT !.state = "superseded"] ELSE A[i] ]
  BY <1>2 DEF Superseding, A
<1> HIDE DEF K
<1>4. ASSUME NEW i \in 1..Len(A)
      PROVE  /\ K[i] \in Assets
             /\ K[i].content = A[i].content /\ K[i].logical = A[i].logical
             /\ K[i].state = "active" => A[i].state = "active"
             /\ i # a /\ A[i].logical = l => K[i].state # "active"
             /\ A[i].logical # l => K[i] = A[i]
  <2>1. A[i] \in Assets  BY <1>2
  <2>2. CASE i # a /\ A[i].logical = l /\ A[i].state = "active"
    <3>1. K[i] = [A[i] EXCEPT !.state = "superseded"]  BY <1>3, <2>2
    <3>2. "superseded" \in {"active", "superseded", "trashed"}  OBVIOUS
    <3> DEFINE x == [A[i] EXCEPT !.state = "superseded"]
    <3>3. /\ x \in Assets /\ x.state = "superseded"
          /\ x.content = A[i].content /\ x.logical = A[i].logical
      BY <2>1, <3>2, AssetRestated
    <3>4. K[i] = x  BY <3>1
    <3> HIDE DEF x
    <3> QED  BY <2>2, <3>3, <3>4
  <2>3. CASE ~ (i # a /\ A[i].logical = l /\ A[i].state = "active")
    <3>1. K[i] = A[i]  BY <1>3, <2>3
    <3> QED  BY <2>1, <2>3, <3>1
  <2> QED  BY <2>2, <2>3
<1>5. K \in Seq(Assets) /\ Len(K) = Len(A)  BY <1>2, <1>3, <1>4
<1>6. K[a] = A[a]  BY <1>3 DEF A
<1> QED  BY <1>4, <1>5, <1>6 DEF A, K

\* The revision a new one is attached as is the only active one of its history.
LEMMA Attached ==
  ASSUME NEW db \in Journals, OwnHistory(db), AssetsThere(db), NEW l \in Logicals,
         NEW a \in 1..Len(db.assets), db.assets[a].state = "active"
  PROVE  LET B     == Attach(db, l, a)
             shown == IF NeedsClone(db, l, a) THEN Len(B) ELSE a
         IN /\ AssetsStep(db.assets, B, l)
            /\ shown \in 1..Len(B) /\ B[shown].logical = l /\ B[shown].state = "active"
            /\ B[shown].content = db.assets[a].content
<1> DEFINE A == db.assets
           K == Superseding(db, l, a)
           B == Attach(db, l, a)
<1>1. A \in Seq(Assets)  BY JournalsFields
<1>2. /\ K \in Seq(Assets) /\ Len(K) = Len(A) /\ K[a] = A[a]
      /\ \A i \in 1..Len(A) :
           /\ K[i].content = A[i].content /\ K[i].logical = A[i].logical
           /\ K[i].state = "active" => A[i].state = "active"
           /\ i # a /\ A[i].logical = l => K[i].state # "active"
           /\ A[i].logical # l => K[i] = A[i]
  BY SupersededOthers
<1>3. A[a] \in Assets /\ a \in 1..Len(A) /\ A[a].state = "active" /\ Len(A) \in Nat  BY <1>1
<1>4. l \in 0..MaxLogical /\ l # 0  BY Numbers
<1>5. CASE NeedsClone(db, l, a)
  <2> DEFINE x == [A[a] EXCEPT !.logical = l]
  <2>1. x \in Assets /\ x.logical = l /\ x.content = A[a].content /\ x.state = "active"
    BY <1>3, <1>4, AssetRelated
  <2>2. B = Append(K, x)  BY <1>5 DEF Attach
  <2>3. A[a].logical # l  BY <1>5 DEF NeedsClone
  <2> HIDE DEF A, K, B, x
  <2>4. /\ B \in Seq(Assets) /\ Len(B) = Len(A) + 1 /\ B[Len(B)] = x
        /\ \A i \in 1..Len(A) : B[i] = K[i]
    BY <1>1, <1>2, <2>1, <2>2
  <2>5. ASSUME NEW i \in 1..Len(B), B[i].logical = l, B[i].state = "active"
        PROVE  i = Len(B)
    <3>1. SUFFICES ASSUME i \in 1..Len(A) PROVE FALSE  BY <1>3, <2>4
    <3>2. B[i] = K[i]  BY <2>4, <3>1
    <3> QED  BY <1>2, <2>3, <2>5, <3>1, <3>2
  <2>6. ASSUME NEW i \in 1..Len(B), B[i].logical # l
        PROVE  i <= Len(A) /\ B[i] = A[i]
    <3>1. i \in 1..Len(A)  BY <1>3, <2>1, <2>4, <2>6
    <3> QED  BY <1>2, <2>4, <2>6, <3>1
  <2>7. AssetsStep(A, B, l)  BY <1>2, <1>3, <2>4, <2>5, <2>6 DEF AssetsStep
  <2>8. Len(B) \in 1..Len(B)  BY <1>3, <2>4
  <2> QED  BY <1>5, <2>1, <2>4, <2>7, <2>8 DEF A, B
<1>6. CASE ~ NeedsClone(db, l, a)
  <2> DEFINE x == [K[a] EXCEPT !.logical = l]
  <2>1. x \in Assets /\ x.logical = l /\ x.content = A[a].content /\ x.state = "active"
    BY <1>2, <1>3, <1>4, AssetRelated
  <2>2. B = [K EXCEPT ![a] = x]  BY <1>6 DEF Attach
  <2>3. A[a].logical \in {0, l}  BY <1>6, CloneNeeded
  <2> HIDE DEF A, K, B, x
  <2>4. /\ B \in Seq(Assets) /\ Len(B) = Len(A) /\ B[a] = x
        /\ \A i \in 1..Len(A) : i # a => B[i] = K[i]
    BY <1>1, <1>2, <1>3, <2>1, <2>2
  <2>5. ASSUME NEW i \in 1..Len(B), B[i].logical = l, B[i].state = "active"
        PROVE  i = a
    <3>1. SUFFICES ASSUME i # a PROVE FALSE  OBVIOUS
    <3>2. B[i] = K[i]  BY <2>4, <3>1
    <3> QED  BY <1>2, <2>4, <2>5, <3>1, <3>2
  <2>6. ASSUME NEW i \in 1..Len(B), B[i].logical # l
        PROVE  i <= Len(A) /\ B[i] = A[i]
    <3>1. i # a /\ i \in 1..Len(A)  BY <2>1, <2>4, <2>6
    <3>2. B[i] = K[i]  BY <2>4, <3>1
    <3> QED  BY <1>2, <1>3, <2>6, <3>1, <3>2
  <2>7. ASSUME NEW i \in 1..Len(A)
        PROVE  /\ B[i].content = A[i].content
               /\ A[i].logical # 0 => B[i].logical = A[i].logical
               /\ B[i].state = "active" => A[i].state = "active"
    BY <1>2, <1>3, <2>1, <2>3, <2>4
  <2>8. AssetsStep(A, B, l)  BY <1>3, <2>4, <2>5, <2>6, <2>7 DEF AssetsStep
  <2> QED  BY <1>3, <1>6, <2>1, <2>4, <2>8 DEF A, B
<1> QED  BY <1>5, <1>6

\* The item of l and what the operation names, after an operation of that kind.
ItemStep(B, item, l, revision, kind, asset, path) ==
  /\ item \in Items /\ item.revision = revision /\ item.asset <= Len(B)
  /\ asset \in Nat /\ asset <= Len(B) /\ path \in Paths
  /\ item.asset # 0 =>
       /\ B[item.asset].logical = l
       /\ ~ item.deleted => B[item.asset].state # "superseded"
  /\ (\E a \in 1..Len(B) : B[a].logical = l) => item.asset # 0
  /\ asset # 0 => B[asset].logical = l
  /\ kind # "delete" => ~ item.deleted /\ item.asset = asset /\ item.path = path
  /\ kind = "delete" =>
       /\ asset = 0 /\ (item.deleted \/ item.asset = 0)
       /\ \A a \in 1..Len(B) : B[a].logical = l => B[a].state # "active"

RowsStep(db, x, l, item, assets) ==
  /\ x \in Journals /\ x.cursor = db.cursor /\ x.ops = db.ops /\ x.assets = assets
  /\ x.items[l] = item /\ \A m \in Logicals \ {l} : x.items[m] = db.items[m]

\* The three ways apply_one writes the rows of an item come to the same.
LEMMA RowsChanged ==
  ASSUME NEW db \in Journals, NEW l \in Logicals, NEW item \in Items,
         NEW assets \in Seq(Assets), NEW x,
         \/ x = [db EXCEPT !.assets = assets, !.items[l] = item]
         \/ x = [db EXCEPT !.items[l] = item, !.assets = assets]
         \/ assets = db.assets /\ x = [db EXCEPT !.items[l] = item]
  PROVE  RowsStep(db, x, l, item, assets)
<1>1. db.items \in [Logicals -> Items \cup {NoItem}]  BY JournalsFields
<1>2. x = [ cursor |-> db.cursor, ops |-> db.ops, assets |-> assets,
            items |-> [db.items EXCEPT ![l] = item] ]
  BY <1>1 DEF Journals
<1>3. x \in Journals /\ x.cursor = db.cursor /\ x.ops = db.ops /\ x.assets = assets
  BY <1>1, <1>2 DEF Journals
<1>4. x.items[l] = item /\ \A m \in Logicals \ {l} : x.items[m] = db.items[m]
  BY <1>1, <1>2
<1> QED  BY <1>3, <1>4 DEF RowsStep

\* The assets with revision a in the trash, and what that leaves.
Trashing(db, a) == [db.assets EXCEPT ![a].state = "trashed"]
TrashedStep(A, B, l, a) ==
  /\ AssetsStep(A, B, l) /\ Len(B) = Len(A)
  /\ \A i \in 1..Len(B) : B[i].logical = A[i].logical
  /\ \A i \in 1..Len(B) : B[i].logical = l => B[i].state # "active"
  /\ B[a].state = "trashed"

\* Trashing the active revision of a history leaves none.
LEMMA Trashed ==
  ASSUME NEW db \in Journals, OneActive(db), NEW l \in Logicals,
         NEW a \in 1..Len(db.assets), db.assets[a].state = "active", db.assets[a].logical = l
  PROVE  TrashedStep(db.assets, Trashing(db, a), l, a)
<1> DEFINE A == db.assets
           x == [A[a] EXCEPT !.state = "trashed"]
           B == [A EXCEPT ![a] = x]
<1>1. A \in Seq(Assets)  BY JournalsFields
<1>2. A[a] \in Assets /\ Len(A) \in Nat /\ DOMAIN A = 1..Len(A)  BY <1>1
<1>3. "trashed" \in {"active", "superseded", "trashed"}  OBVIOUS
<1>4. /\ x \in Assets /\ x.state = "trashed"
      /\ x.content = A[a].content /\ x.logical = A[a].logical
  BY <1>2, <1>3, AssetRestated
<1>5. \A i, j \in 1..Len(A) :
        A[i].state = "active" /\ A[j].state = "active"
        /\ A[i].logical = A[j].logical /\ A[i].logical # 0 => i = j
  BY DEF OneActive
<1>6. a \in 1..Len(A) /\ A[a].state = "active" /\ A[a].logical = l  OBVIOUS
<1>7. l # 0  BY Numbers
<1>8. B = Trashing(db, a)  BY DEF Trashing
<1> HIDE DEF A, x
<1>9. B \in Seq(Assets) /\ Len(B) = Len(A) /\ B[a] = x /\ \A i \in 1..Len(A) : i # a => B[i] = A[i]
  BY <1>1, <1>2, <1>4, <1>6
<1> HIDE DEF B
<1>10. \A i \in 1..Len(B) : B[i].logical = A[i].logical /\ B[i].content = A[i].content
  BY <1>4, <1>9
<1>11. \A i \in 1..Len(B) : B[i].logical = l => B[i].state # "active"
  BY <1>4, <1>5, <1>6, <1>7, <1>9
<1>12. \A i \in 1..Len(B) : B[i].logical # l => i <= Len(A) /\ B[i] = A[i]
  BY <1>2, <1>4, <1>6, <1>9
<1>13. \A i \in 1..Len(A) : B[i].state = "active" => A[i].state = "active"
  BY <1>4, <1>9
<1>14. AssetsStep(A, B, l)
  BY <1>2, <1>9, <1>10, <1>11, <1>12, <1>13 DEF AssetsStep
<1>15. TrashedStep(A, B, l, a)  BY <1>4, <1>9, <1>10, <1>11, <1>14 DEF TrashedStep
<1> QED  BY <1>8, <1>15 DEF A

\* An operation that has no new revision leaves the assets sound as they are.
LEMMA AssetsStand ==
  ASSUME NEW db \in Journals, OneActive(db), NEW l \in Logicals
  PROVE  AssetsStep(db.assets, db.assets, l)
<1>1. db.assets \in Seq(Assets)  BY JournalsFields
<1>2. l # 0  BY Numbers
<1> QED  BY <1>1, <1>2 DEF AssetsStep, OneActive

AppliedStep(db, op, revision, done) ==
  /\ done.db \in Journals /\ done.db.cursor = db.cursor /\ done.db.ops = db.ops
  /\ \A m \in Logicals \ {op.logical} : done.db.items[m] = db.items[m]
  /\ AssetsStep(db.assets, done.db.assets, op.logical)
  /\ ItemStep(done.db.assets, done.db.items[op.logical], op.logical, revision, op.kind,
              done.asset, done.path)
  /\ op.kind = "upsert" =>
       /\ done.asset # 0 /\ done.path = op.path
       /\ done.db.assets[done.asset].content = db.assets[op.asset].content
  /\ op.kind = "move" =>
       /\ done.path = op.path /\ Exists(db.items[op.logical])
       /\ done.asset = db.items[op.logical].asset

\* An operation that _apply_operation finds applicable leaves the assets, the
\* items and the histories in order.
LEMMA Applying ==
  ASSUME NEW db \in Journals, OneActive(db), OwnHistory(db), AssetsThere(db),
         NEW op, op.logical \in Logicals, op.kind \in {"upsert", "move", "delete"},
         op.path \in Paths, op.asset \in Nat, op.asset <= Len(db.assets),
         Applicable(db, op), NEW revision \in Revisions
  PROVE  AppliedStep(db, op, revision, Applied(db, op, revision))
<1> DEFINE l == op.logical
           item == db.items[l]
           A == db.assets
           done == Applied(db, op, revision)
<1>1. A \in Seq(Assets) /\ Len(A) \in Nat /\ db.items \in [Logicals -> Items \cup {NoItem}]
  BY JournalsFields
<1>2. l \in Logicals /\ item \in Items \cup {NoItem} /\ l # 0  BY <1>1, Numbers
<1>3. ASSUME Exists(item)
      PROVE  /\ item \in Items /\ item.asset \in Nat /\ item.asset <= Len(A)
             /\ item.path \in Paths
             /\ item.asset # 0 => /\ item.asset \in 1..Len(A) /\ A[item.asset].logical = l
                                  /\ ~ item.deleted => A[item.asset].state # "superseded"
  <2>1. item \in Items  BY <1>2, <1>3 DEF Exists
  <2>2. item.asset \in Nat /\ item.path \in Paths  BY <2>1, ItemFields
  <2>3. item.asset <= Len(A)  BY <1>3 DEF AssetsThere
  <2> QED  BY <1>1, <1>3, <2>1, <2>2, <2>3 DEF OwnHistory
<1>4. \A a \in 1..Len(A) : A[a].logical = l => Exists(item) /\ item.asset # 0
  BY <1>2 DEF OwnHistory
<1>5. CASE op.kind = "upsert"
  <2> DEFINE a == op.asset
             B == Attach(db, l, a)
             shown == IF NeedsClone(db, l, a) THEN Len(B) ELSE a
             i2 == [ asset |-> shown, path |-> op.path, revision |-> revision, deleted |-> FALSE ]
             x == [db EXCEPT !.assets = B, !.items[l] = i2]
  <2>1. a \in 1..Len(A) /\ A[a].state = "active"
    BY <1>1, <1>5 DEF Applicable, Active
  <2>2. /\ AssetsStep(A, B, l)
        /\ shown \in 1..Len(B) /\ B[shown].logical = l /\ B[shown].state = "active"
        /\ B[shown].content = A[a].content
    BY <2>1, Attached
  <2>3. done = [ asset |-> shown, path |-> op.path, db |-> x ]
    BY <1>5 DEF Applied
  <2> HIDE DEF B, shown
  <2>4. B \in Seq(Assets)  BY <2>2 DEF AssetsStep
  <2>5. Len(B) \in Nat /\ shown \in Nat /\ shown # 0 /\ shown <= Len(B)  BY <2>2, <2>4
  <2>6. /\ i2 \in Items /\ i2.asset = shown /\ i2.path = op.path /\ i2.revision = revision
        /\ ~ i2.deleted
    BY <2>5 DEF Items
  <2> HIDE DEF i2
  <2>7. RowsStep(db, x, l, i2, B)
    BY <1>2, <2>4, <2>6, RowsChanged
  <2> HIDE DEF x
  <2>8. done.asset = shown /\ done.path = op.path /\ done.db = x  BY <2>3
  <2> HIDE DEF done
  <2>9. ItemStep(B, i2, l, revision, op.kind, shown, op.path)
    BY <1>5, <2>2, <2>5, <2>6 DEF ItemStep
  <2>10. AppliedStep(db, op, revision, done)
    BY <1>5, <2>2, <2>5, <2>7, <2>8, <2>9 DEF AppliedStep, RowsStep
  <2> QED  BY <2>10 DEF done
<1>6. CASE op.kind = "move"
  <2> DEFINE i2 == [item EXCEPT !.path = op.path, !.revision = revision]
             x == [db EXCEPT !.items[l] = i2]
  <2>1. Exists(item) /\ ~ item.deleted  BY <1>6 DEF Applicable
  <2>2. /\ item \in Items /\ item.asset \in Nat /\ item.asset <= Len(A)
        /\ item.path \in Paths
        /\ item.asset # 0 => /\ item.asset \in 1..Len(A) /\ A[item.asset].logical = l
                             /\ ~ item.deleted => A[item.asset].state # "superseded"
    BY <1>3, <2>1
  <2>3. done = [ asset |-> item.asset, path |-> op.path, db |-> x ]
    BY <1>6 DEF Applied
  <2>4. /\ i2 \in Items /\ i2.asset = item.asset /\ i2.path = op.path /\ i2.revision = revision
        /\ i2.deleted = item.deleted
    BY <2>2 DEF Items
  <2> HIDE DEF i2
  <2>5. RowsStep(db, x, l, i2, A)
    BY <1>1, <1>2, <2>4, RowsChanged
  <2> HIDE DEF x
  <2>6. done.asset = item.asset /\ done.path = op.path /\ done.db = x  BY <2>3
  <2> HIDE DEF done
  <2>7. AssetsStep(A, A, l)  BY AssetsStand
  <2>8. ItemStep(A, i2, l, revision, op.kind, item.asset, op.path)
    BY <1>4, <1>6, <2>1, <2>2, <2>4 DEF ItemStep
  <2>9. AppliedStep(db, op, revision, done)
    BY <1>6, <2>1, <2>5, <2>6, <2>7, <2>8 DEF AppliedStep, RowsStep
  <2> QED  BY <2>9 DEF done
<1>7. CASE op.kind = "delete" /\ ~ Exists(item)
  <2> DEFINE i2 == [ asset |-> 0, path |-> op.path, revision |-> revision, deleted |-> FALSE ]
             x == [db EXCEPT !.items[l] = i2]
  <2>1. done = [ asset |-> 0, path |-> op.path, db |-> x ]
    BY <1>7 DEF Applied
  <2>2. /\ i2 \in Items /\ i2.asset = 0 /\ i2.path = op.path /\ i2.revision = revision
        /\ ~ i2.deleted
    BY DEF Items
  <2> HIDE DEF i2
  <2>3. RowsStep(db, x, l, i2, A)
    BY <1>1, <1>2, <2>2, RowsChanged
  <2> HIDE DEF x
  <2>4. done.asset = 0 /\ done.path = op.path /\ done.db = x  BY <2>1
  <2> HIDE DEF done
  <2>5. AssetsStep(A, A, l)  BY AssetsStand
  <2>6. ItemStep(A, i2, l, revision, op.kind, 0, op.path)
    BY <1>1, <1>4, <1>7, <2>2 DEF ItemStep
  <2>7. AppliedStep(db, op, revision, done)
    BY <1>7, <2>3, <2>4, <2>5, <2>6 DEF AppliedStep, RowsStep
  <2> QED  BY <2>7 DEF done
<1>8. CASE op.kind = "delete" /\ Exists(item)
  <2> DEFINE B == IF item.asset = 0 THEN A ELSE [A EXCEPT ![item.asset].state = "trashed"]
             i2 == [item EXCEPT !.deleted = TRUE, !.revision = revision]
             x == [db EXCEPT !.items[l] = i2, !.assets = B]
  <2>1. done = [ asset |-> 0, path |-> item.path, db |-> x ]
    BY <1>8 DEF Applied
  <2>2. /\ item \in Items /\ item.asset \in Nat /\ item.asset <= Len(A)
        /\ item.path \in Paths
        /\ item.asset # 0 => item.asset \in 1..Len(A) /\ A[item.asset].logical = l
    BY <1>3, <1>8
  <2>3. item.asset # 0 => A[item.asset].state = "active"
    BY <1>8 DEF Applicable, Active
  <2>4. /\ AssetsStep(A, B, l) /\ Len(B) = Len(A)
        /\ \A i \in 1..Len(B) : B[i].logical = A[i].logical
        /\ \A i \in 1..Len(B) : B[i].logical = l => B[i].state # "active"
        /\ item.asset # 0 => B[item.asset].state = "trashed"
    <3>1. CASE item.asset = 0
      <4>1. B = A  BY <3>1
      <4> HIDE DEF B
      <4>2. AssetsStep(A, A, l)  BY <1>2, AssetsStand
      <4>3. \A i \in 1..Len(A) : A[i].logical # l  BY <1>4, <3>1
      <4> QED  BY <3>1, <4>1, <4>2, <4>3
    <3>2. CASE item.asset # 0
      <4>1. B = Trashing(db, item.asset)  BY <3>2 DEF Trashing
      <4> HIDE DEF B
      <4>2. item.asset \in 1..Len(A) /\ A[item.asset].logical = l  BY <2>2, <3>2
      <4>3. A[item.asset].state = "active"  BY <2>3, <3>2
      <4>4. TrashedStep(A, B, l, item.asset)  BY <4>1, <4>2, <4>3, Trashed
      <4> QED  BY <4>4 DEF TrashedStep
    <3> QED  BY <3>1, <3>2
  <2> HIDE DEF B
  <2>5. B \in Seq(Assets)  BY <2>4 DEF AssetsStep
  <2>6. /\ i2 \in Items /\ i2.asset = item.asset /\ i2.path = item.path /\ i2.revision = revision
        /\ i2.deleted
    BY <2>2 DEF Items
  <2> HIDE DEF i2
  <2>7. RowsStep(db, x, l, i2, B)
    BY <1>2, <2>5, <2>6, RowsChanged
  <2> HIDE DEF x
  <2>8. done.asset = 0 /\ done.path = item.path /\ done.db = x  BY <2>1
  <2> HIDE DEF done
  <2>9. ItemStep(B, i2, l, revision, op.kind, 0, item.path)
    BY <1>1, <1>4, <1>8, <2>2, <2>4, <2>6 DEF ItemStep
  <2>10. AppliedStep(db, op, revision, done)
    BY <1>8, <2>4, <2>7, <2>8, <2>9 DEF AppliedStep, RowsStep
  <2> QED  BY <2>10 DEF done
<1> QED  BY <1>5, <1>6, <1>7, <1>8

-----------------------------------------------------------------------------
(* What a step of the server does to the journal.                          *)

\* There are finitely many applied operations, at most as many as operations.
LEMMA DoneFinite ==
  ASSUME NEW db \in Journals
  PROVE  /\ IsFiniteSet(Done(db)) /\ Cardinality(Done(db)) \in Nat
         /\ Cardinality(Done(db)) <= Len(db.ops)
         /\ Done(db) \subseteq 1..Len(db.ops)
<1>1. Len(db.ops) \in Nat  BY JournalsFields
<1>2. IsFiniteSet(1..Len(db.ops)) /\ Cardinality(1..Len(db.ops)) = Len(db.ops)
  BY <1>1, FS_Interval
<1>3. Done(db) \in SUBSET (1..Len(db.ops))  BY DEF Done
<1>4. IsFiniteSet(Done(db)) /\ Cardinality(Done(db)) <= Cardinality(1..Len(db.ops))
  BY <1>2, <1>3, FS_Subset
<1>5. Cardinality(Done(db)) \in Nat  BY <1>4, FS_CardinalityType
<1> QED  BY <1>2, <1>3, <1>4, <1>5

\* An operation of the journal, in the fields that the invariant names.
LEMMA OpsOf ==
  ASSUME NEW db \in Journals, NEW i \in 1..Len(db.ops)
  PROVE  /\ db.ops[i] \in Operations /\ db.ops[i].logical \in Logicals
         /\ db.ops[i].cursor \in Nat /\ db.ops[i].asset \in Nat
         /\ db.ops[i].client \in Desktops /\ db.ops[i].seq \in Nat
<1>1. db.ops[i] \in Operations  BY JournalsFields
<1>2. /\ db.ops[i].logical \in Logicals /\ db.ops[i].cursor \in Revisions
      /\ db.ops[i].asset \in Nat /\ db.ops[i].client \in Desktops /\ db.ops[i].seq \in 1..MaxOps
  BY <1>1, OperationFields
<1> QED  BY <1>1, <1>2, Numbers

\* Operation k of the rows next has just been applied, with the outcome done.
PutAt(db, next, k, op, done) ==
  /\ next \in Journals /\ next.cursor = db.cursor + 1
  /\ next.items = done.db.items /\ next.assets = done.db.assets
  /\ k \in 1..Len(next.ops)
  /\ k <= Len(db.ops) => /\ Len(next.ops) = Len(db.ops) /\ db.ops[k].status # "applied"
                         /\ next.ops[k].client = db.ops[k].client
                         /\ next.ops[k].seq = db.ops[k].seq
  /\ k > Len(db.ops) =>
       /\ Len(next.ops) = Len(db.ops) + 1
       /\ \A j \in 1..Len(db.ops) : \/ db.ops[j].client # next.ops[k].client
                                    \/ db.ops[j].seq # next.ops[k].seq
  /\ \A j \in 1..Len(db.ops) : j # k => next.ops[j] = db.ops[j]
  /\ next.ops[k].cursor = db.cursor + 1 /\ next.ops[k].status = "applied"
  /\ next.ops[k].logical = op.logical /\ next.ops[k].kind = op.kind
  /\ next.ops[k].asset = done.asset /\ next.ops[k].path = done.path

\* The journal before and after an operation was applied at its place k, the new
\* last one or one that a decision applies later.
LEMMA PutFacts ==
  ASSUME NEW db, NEW next, NEW k, NEW op, NEW done, JournalInv(db), PutAt(db, next, k, op, done)
  PROVE  /\ Len(db.ops) \in Nat /\ Len(next.ops) \in Nat /\ Len(db.ops) <= Len(next.ops)
         /\ \A j \in 1..Len(next.ops) : j # k => j \in 1..Len(db.ops) /\ next.ops[j] = db.ops[j]
         /\ \A j \in 1..Len(db.ops) : j \in 1..Len(next.ops)
         /\ k \notin Done(db) /\ Done(next) = Done(db) \cup {k}
<1>1. Len(db.ops) \in Nat /\ Len(next.ops) \in Nat  BY JournalsFields DEF JournalInv, PutAt
<1>2. /\ Len(db.ops) <= Len(next.ops) /\ k \in 1..Len(next.ops)
      /\ k > Len(db.ops) => Len(next.ops) = Len(db.ops) + 1
      /\ k <= Len(db.ops) => Len(next.ops) = Len(db.ops)
  BY <1>1 DEF PutAt
<1>3. \A j \in 1..Len(next.ops) : j # k => j \in 1..Len(db.ops)  BY <1>1, <1>2
<1>4. \A j \in 1..Len(next.ops) : j # k => next.ops[j] = db.ops[j]  BY <1>3 DEF PutAt
<1>5. k \notin Done(db)  BY <1>1 DEF PutAt, Done
<1>6. next.ops[k].status = "applied"  BY DEF PutAt
<1>7. \A j \in 1..Len(db.ops) : j \in 1..Len(next.ops)  BY <1>1, <1>2
<1>8. Done(next) = Done(db) \cup {k}  BY <1>2, <1>3, <1>4, <1>5, <1>6, <1>7 DEF Done
<1> QED  BY <1>1, <1>2, <1>3, <1>4, <1>5, <1>7, <1>8

\* Applying an operation with the next cursor keeps the invariant of the journal,
\* for a push (apply_operations) and for a decision (resolve_conflict).
LEMMA PutKeepsJournal ==
  ASSUME NEW db, NEW next, NEW k, NEW op, NEW done, JournalInv(db), op.logical \in Logicals,
         AppliedStep(db, op, db.cursor + 1, done), PutAt(db, next, k, op, done)
  PROVE  JournalInv(next) /\ Grows(db, next)
<1> DEFINE l == op.logical
           A == db.assets
           B == next.assets
           at == db.cursor + 1
<1>1. /\ Len(db.ops) \in Nat /\ Len(next.ops) \in Nat /\ Len(db.ops) <= Len(next.ops)
      /\ \A j \in 1..Len(next.ops) : j # k => j \in 1..Len(db.ops) /\ next.ops[j] = db.ops[j]
      /\ \A j \in 1..Len(db.ops) : j \in 1..Len(next.ops)
      /\ k \notin Done(db) /\ Done(next) = Done(db) \cup {k}
  BY PutFacts
<1>2. db \in Journals /\ next \in Journals /\ next.cursor = at /\ db.cursor \in Nat /\ at \in Nat
  BY JournalsFields, Numbers DEF JournalInv, PutAt
<1>3. A \in Seq(Assets) /\ B \in Seq(Assets) /\ Len(A) \in Nat /\ Len(B) \in Nat
  BY <1>2, JournalsFields
<1>4. \A j \in 1..Len(db.ops) :
        /\ db.ops[j].cursor \in 1..db.cursor /\ db.ops[j].cursor \in Nat
        /\ db.ops[j].asset \in Nat /\ db.ops[j].asset <= Len(A) /\ db.ops[j].logical \in Logicals
  BY <1>2, OpsOf DEF JournalInv, PlacesDiffer, AssetsThere
<1>5. AssetsStep(A, B, l)  BY DEF AppliedStep, PutAt
<1>6. \A m \in Logicals \ {l} : next.items[m] = db.items[m]  BY DEF AppliedStep, PutAt
<1>7. ItemStep(B, next.items[l], l, at, op.kind, done.asset, done.path)
  BY DEF AppliedStep, PutAt
<1>8. /\ k \in 1..Len(next.ops) /\ next.ops[k].cursor = at /\ next.ops[k].status = "applied"
      /\ next.ops[k].logical = l /\ next.ops[k].kind = op.kind
      /\ next.ops[k].asset = done.asset /\ next.ops[k].path = done.path
  BY DEF PutAt
<1>9. l # 0 /\ l \in Nat /\ l \in Logicals  BY Numbers
<1>10. \A a \in 1..Len(A) : a \in 1..Len(B) /\ Len(A) <= Len(B)  BY <1>3, <1>5 DEF AssetsStep
<1> HIDE DEF A, B, at
<1>11. Budget(next)
  <2>1. db.cursor <= Len(db.ops) + Cardinality(Done(db))  BY DEF JournalInv, Budget
  <2>2. Cardinality(Done(db)) \in Nat /\ IsFiniteSet(Done(db))  BY <1>2, DoneFinite
  <2>3. Cardinality(Done(next)) = Cardinality(Done(db)) + 1  BY <1>1, <2>2, FS_AddElement
  <2> QED  BY <1>1, <1>2, <2>1, <2>2, <2>3 DEF Budget, at
<1>12. PlacesDiffer(next)
  <2>1. ASSUME NEW j \in 1..Len(next.ops)
        PROVE  /\ next.ops[j].cursor \in 1..next.cursor
               /\ j # k => next.ops[j].cursor # at
    <3>1. CASE j = k  BY <1>2, <1>8, <3>1 DEF at
    <3>2. CASE j # k
      <4>1. next.ops[j].cursor \in 1..db.cursor  BY <1>1, <1>4, <3>2
      <4> QED  BY <1>2, <3>2, <4>1 DEF at
    <3> QED  BY <3>1, <3>2
  <2>2. \A i, j \in 1..Len(db.ops) : i # j =>
          /\ db.ops[i].cursor # db.ops[j].cursor
          /\ db.ops[i].client # db.ops[j].client \/ db.ops[i].seq # db.ops[j].seq
    BY DEF JournalInv, PlacesDiffer
  <2>3. ASSUME NEW j \in 1..Len(next.ops), j # k
        PROVE  next.ops[j].client # next.ops[k].client \/ next.ops[j].seq # next.ops[k].seq
    <3>1. j \in 1..Len(db.ops) /\ next.ops[j] = db.ops[j]  BY <1>1, <2>3
    <3>2. CASE k <= Len(db.ops)
      <4>1. k \in 1..Len(db.ops)  BY <1>1, <1>8, <3>2
      <4>2. next.ops[k].client = db.ops[k].client /\ next.ops[k].seq = db.ops[k].seq
        BY <3>2 DEF PutAt
      <4> QED  BY <2>2, <2>3, <3>1, <4>1, <4>2
    <3>3. CASE k > Len(db.ops)
      BY <3>1, <3>3 DEF PutAt
    <3> QED  BY <1>1, <1>8, <3>2, <3>3
  <2>4. ASSUME NEW i \in 1..Len(next.ops), NEW j \in 1..Len(next.ops), i # j
        PROVE  /\ next.ops[i].cursor # next.ops[j].cursor
               /\ next.ops[i].client # next.ops[j].client \/ next.ops[i].seq # next.ops[j].seq
    <3>1. CASE i = k  BY <1>8, <2>1, <2>3, <2>4, <3>1
    <3>2. CASE j = k  BY <1>8, <2>1, <2>3, <2>4, <3>2
    <3>3. CASE i # k /\ j # k  BY <1>1, <2>2, <2>4, <3>3
    <3> QED  BY <3>1, <3>2, <3>3
  <2> QED  BY <2>1, <2>4 DEF PlacesDiffer
<1>13. AssetsThere(next)
  <2>1. ASSUME NEW j \in 1..Len(next.ops)  PROVE  next.ops[j].asset <= Len(B)
    <3>1. CASE j = k  BY <1>7, <1>8, <3>1 DEF ItemStep
    <3>2. CASE j # k  BY <1>1, <1>3, <1>4, <1>5, <3>2 DEF AssetsStep
    <3> QED  BY <3>1, <3>2
  <2>2. ASSUME NEW m \in Logicals, Exists(next.items[m])
        PROVE  next.items[m].asset <= Len(B)
    <3>1. CASE m = l  BY <1>7, <3>1 DEF ItemStep
    <3>2. CASE m # l
      <4>1. next.items[m] = db.items[m] /\ db.items[m].asset <= Len(A)
        BY <1>6, <2>2, <3>2 DEF JournalInv, AssetsThere, A
      <4>2. db.items[m] \in Items  BY <1>2, <2>2, <4>1, JournalsFields DEF Exists
      <4> QED  BY <1>3, <1>5, <4>1, <4>2, ItemFields DEF AssetsStep
    <3> QED  BY <3>1, <3>2
  <2> QED  BY <2>1, <2>2 DEF AssetsThere, B
<1>14. ItemsFollow(next)
  <2>1. k \in DoneTo(next, l)  BY <1>1, <1>8 DEF DoneTo
  <2>2. next.items[l] \in Items /\ next.items[l].revision = at  BY <1>7 DEF ItemStep
  <2>3. Exists(next.items[l])  BY <1>2, <2>2 DEF Exists, NoItem, at
  <2>4. \A j \in 1..Len(next.ops) : next.ops[j].cursor <= at
    BY <1>2, <1>12 DEF PlacesDiffer
  <2>5. Shows(next, l, k)
    BY <1>1, <1>7, <1>8, <2>2, <2>4 DEF Shows, DoneTo, Done, ItemStep
  <2>6. ASSUME NEW m \in Logicals, m # l
        PROVE  /\ Exists(next.items[m]) => \E i \in DoneTo(next, m) : Shows(next, m, i)
               /\ ~ Exists(next.items[m]) => DoneTo(next, m) = {}
    <3>1. next.items[m] = db.items[m]  BY <1>6, <2>6
    <3>2. DoneTo(next, m) = DoneTo(db, m)
      BY <1>1, <1>8, <2>6 DEF DoneTo, Done
    <3>3. \A i \in DoneTo(db, m) : next.ops[i] = db.ops[i]
      BY <1>1 DEF DoneTo, Done
    <3>4. \A i \in DoneTo(db, m) : Shows(db, m, i) => Shows(next, m, i)
      BY <3>1, <3>2, <3>3 DEF Shows
    <3> QED  BY <3>1, <3>2, <3>4 DEF JournalInv, ItemsFollow
  <2> QED  BY <2>1, <2>3, <2>5, <2>6 DEF ItemsFollow
<1>15. OneActive(next)
  <2>1. \A a, b \in 1..Len(A) :
          A[a].state = "active" /\ A[b].state = "active"
          /\ A[a].logical = A[b].logical /\ A[a].logical # 0 => a = b
    BY DEF JournalInv, OneActive, A
  <2>2. ASSUME NEW a \in 1..Len(B), NEW b \in 1..Len(B), B[a].state = "active",
               B[b].state = "active", B[a].logical = B[b].logical, B[a].logical # 0
        PROVE  a = b
    <3>1. CASE B[a].logical = l  BY <1>5, <2>2, <3>1 DEF AssetsStep
    <3>2. CASE B[a].logical # l
      <4>1. a <= Len(A) /\ B[a] = A[a] /\ b <= Len(A) /\ B[b] = A[b]
        BY <1>5, <2>2, <3>2 DEF AssetsStep
      <4>2. a \in 1..Len(A) /\ b \in 1..Len(A)  BY <1>3, <4>1
      <4> QED  BY <2>1, <2>2, <4>1, <4>2
    <3> QED  BY <3>1, <3>2
  <2> QED  BY <2>2 DEF OneActive, B
<1>16. OwnHistory(next)
  <2>1. ASSUME NEW m \in Logicals, Exists(next.items[m]), next.items[m].asset # 0
        PROVE  /\ B[next.items[m].asset].logical = m
               /\ ~ next.items[m].deleted => B[next.items[m].asset].state # "superseded"
    <3>1. CASE m = l  BY <1>7, <2>1, <3>1 DEF ItemStep
    <3>2. CASE m # l
      <4>1. next.items[m] = db.items[m]  BY <1>6, <3>2
      <4>2. db.items[m] \in Items  BY <1>2, <2>1, <4>1, JournalsFields DEF Exists
      <4> DEFINE a == db.items[m].asset
      <4>3. a \in Nat /\ a <= Len(A)
        BY <2>1, <4>1, <4>2, ItemFields DEF JournalInv, AssetsThere, A
      <4>4. a \in 1..Len(A) /\ a \in 1..Len(B)  BY <1>3, <1>10, <2>1, <4>1, <4>3
      <4>5. A[a].logical = m /\ (~ db.items[m].deleted => A[a].state # "superseded")
        BY <2>1, <4>1 DEF JournalInv, OwnHistory, A
      <4>6. m # 0  BY Numbers
      <4>7. B[a].logical = m  BY <1>5, <4>4, <4>5, <4>6 DEF AssetsStep
      <4>8. B[a] = A[a]  BY <1>5, <3>2, <4>4, <4>7 DEF AssetsStep
      <4> QED  BY <4>1, <4>5, <4>8
    <3> QED  BY <3>1, <3>2
  <2>2. ASSUME NEW a \in 1..Len(B), B[a].logical # 0
        PROVE  Exists(next.items[B[a].logical]) /\ next.items[B[a].logical].asset # 0
    <3>1. CASE B[a].logical = l
      <4>1. next.items[l].asset # 0 /\ next.items[l].revision = at
        BY <1>7, <3>1 DEF ItemStep
      <4> QED  BY <1>2, <3>1, <4>1 DEF Exists, NoItem, at
    <3>2. CASE B[a].logical # l
      <4>1. a \in 1..Len(A) /\ B[a] = A[a]  BY <1>3, <1>5, <3>2 DEF AssetsStep
      <4>2. A[a].logical \in Logicals
        BY <1>3, <2>2, <4>1, AssetFields, SyncAssumption DEF Logicals
      <4>3. Exists(db.items[A[a].logical]) /\ db.items[A[a].logical].asset # 0
        BY <2>2, <4>1 DEF JournalInv, OwnHistory, A
      <4> QED  BY <1>6, <3>2, <4>1, <4>2, <4>3
    <3> QED  BY <3>1, <3>2
  <2> QED  BY <2>1, <2>2 DEF OwnHistory, B
<1>17. OpsOwn(next)
  <2>1. \A i \in Done(db) : i \in 1..Len(db.ops) /\ i # k /\ next.ops[i] = db.ops[i]
    BY <1>1 DEF Done
  <2>2. ASSUME NEW i \in Done(db), db.ops[i].asset # 0
        PROVE  /\ db.ops[i].asset \in 1..Len(A) /\ db.ops[i].asset \in 1..Len(B)
               /\ B[db.ops[i].asset].logical = db.ops[i].logical
               /\ B[db.ops[i].asset].state = "active" => A[db.ops[i].asset].state = "active"
    <3> DEFINE a == db.ops[i].asset
    <3>1. a \in 1..Len(A) /\ a \in 1..Len(B)  BY <1>3, <1>4, <1>10, <2>1, <2>2
    <3>2. A[a].logical = db.ops[i].logical  BY <2>2 DEF JournalInv, OpsOwn, A
    <3>3. A[a].logical # 0  BY <1>4, <2>1, <3>2, Numbers
    <3> QED  BY <1>5, <3>1, <3>2, <3>3 DEF AssetsStep
  <2>3. ASSUME NEW i \in Done(next)
        PROVE  /\ next.ops[i].asset # 0 => B[next.ops[i].asset].logical = next.ops[i].logical
               /\ next.ops[i].kind = "delete" => next.ops[i].asset = 0
    <3>1. CASE i = k  BY <1>7, <1>8, <3>1 DEF ItemStep
    <3>2. CASE i # k
      <4>1. i \in Done(db) /\ next.ops[i] = db.ops[i]  BY <1>1, <2>1, <2>3, <3>2
      <4>2. db.ops[i].kind = "delete" => db.ops[i].asset = 0
        BY <4>1 DEF JournalInv, OpsOwn
      <4> QED  BY <2>2, <4>1, <4>2
    <3> QED  BY <3>1, <3>2
  <2>4. ASSUME NEW i \in Done(next), NEW j \in Done(next), next.ops[j].kind = "delete",
               next.ops[j].logical = next.ops[i].logical,
               next.ops[i].cursor < next.ops[j].cursor, next.ops[i].asset # 0
        PROVE  B[next.ops[i].asset].state # "active"
    <3>1. i # k
      <4>1. SUFFICES ASSUME i = k PROVE FALSE  OBVIOUS
      <4>2. j # k  BY <1>2, <1>8, <2>4, <4>1
      <4>3. j \in Done(db) /\ next.ops[j] = db.ops[j] /\ j \in 1..Len(db.ops)
        BY <1>1, <2>1, <2>4, <4>2
      <4>4. db.ops[j].cursor \in 1..db.cursor  BY <1>4, <4>3
      <4> QED  BY <1>2, <1>8, <2>4, <4>1, <4>3, <4>4 DEF at
    <3>2. i \in Done(db) /\ next.ops[i] = db.ops[i] /\ i \in 1..Len(db.ops)
      BY <1>1, <2>1, <2>4, <3>1
    <3>3. CASE j = k
      <4>1. \A a \in 1..Len(B) : B[a].logical = l => B[a].state # "active"
        BY <1>7, <1>8, <2>4, <3>3 DEF ItemStep
      <4>2. /\ db.ops[i].asset \in 1..Len(B)
            /\ B[db.ops[i].asset].logical = db.ops[i].logical
        BY <2>2, <2>4, <3>2
      <4> QED  BY <1>8, <2>4, <3>2, <3>3, <4>1, <4>2
    <3>4. CASE j # k
      <4>1. j \in Done(db) /\ next.ops[j] = db.ops[j]  BY <1>1, <2>1, <2>4, <3>4
      <4>2. A[db.ops[i].asset].state # "active"
        BY <2>4, <3>2, <4>1 DEF JournalInv, OpsOwn, A
      <4> QED  BY <2>2, <2>4, <3>2, <4>2
    <3> QED  BY <3>3, <3>4
  <2> QED  BY <2>3, <2>4 DEF OpsOwn, B
<1>18. Grows(db, next)
  <2>1. Len(A) <= Len(B) /\ \A a \in 1..Len(A) : B[a].content = A[a].content
    BY <1>5 DEF AssetsStep
  <2>2. ASSUME NEW i \in 1..Len(db.ops)
        PROVE  /\ next.ops[i].client = db.ops[i].client /\ next.ops[i].seq = db.ops[i].seq
               /\ db.ops[i].status = "applied" => next.ops[i] = db.ops[i]
    <3>1. CASE i = k  BY <1>1, <3>1 DEF PutAt
    <3>2. CASE i # k  BY <1>1, <3>2
    <3> QED  BY <3>1, <3>2
  <2> QED  BY <1>1, <1>2, <2>1, <2>2 DEF Grows, A, B, at
<1> QED
  BY <1>2, <1>11, <1>12, <1>13, <1>14, <1>15, <1>16, <1>17, <1>18 DEF JournalInv

\* A step that applies nothing.
LEMMA QuietStep ==
  ASSUME NEW db, NEW next, JournalInv(db), next \in Journals,
         next.items = db.items, next.assets = db.assets, db.cursor <= next.cursor,
         Len(db.ops) <= Len(next.ops),
         \A i \in 1..Len(db.ops) : /\ next.ops[i].client = db.ops[i].client
                                   /\ next.ops[i].seq = db.ops[i].seq
                                   /\ db.ops[i].status = "applied" => next.ops[i] = db.ops[i],
         Done(next) = Done(db), Budget(next), PlacesDiffer(next),
         \A i \in 1..Len(next.ops) : next.ops[i].asset <= Len(db.assets)
  PROVE  JournalInv(next) /\ Grows(db, next)
<1>1. AssetsThere(next)  BY DEF JournalInv, AssetsThere
<1>2. \A i \in Done(db) : next.ops[i] = db.ops[i]  BY DEF Done
<1>3. ItemsFollow(next)
  <2>1. \A l \in Logicals : DoneTo(next, l) = DoneTo(db, l)  BY <1>2 DEF DoneTo
  <2>2. \A l \in Logicals : \A i \in DoneTo(db, l) : next.ops[i] = db.ops[i]
    BY <1>2 DEF DoneTo
  <2>3. \A l \in Logicals : \A i \in DoneTo(db, l) : Shows(db, l, i) => Shows(next, l, i)
    BY <2>1, <2>2 DEF Shows
  <2> QED  BY <2>1, <2>3 DEF JournalInv, ItemsFollow
<1>4. OneActive(next)  BY DEF JournalInv, OneActive
<1>5. OwnHistory(next)  BY DEF JournalInv, OwnHistory
<1>6. OpsOwn(next)
  <2>1. OpsOwn(db)  BY DEF JournalInv
  <2>2. ASSUME NEW i \in Done(next)
        PROVE  /\ next.ops[i].asset # 0 =>
                    next.assets[next.ops[i].asset].logical = next.ops[i].logical
               /\ next.ops[i].kind = "delete" => next.ops[i].asset = 0
    BY <1>2, <2>1 DEF OpsOwn
  <2>3. ASSUME NEW i \in Done(next), NEW j \in Done(next), next.ops[j].kind = "delete",
               next.ops[j].logical = next.ops[i].logical,
               next.ops[i].cursor < next.ops[j].cursor, next.ops[i].asset # 0
        PROVE  next.assets[next.ops[i].asset].state # "active"
    BY <1>2, <2>1, <2>3 DEF OpsOwn
  <2> QED  BY <2>2, <2>3 DEF OpsOwn
<1>7. Grows(db, next)
  <2>1. Len(db.assets) \in Nat  BY JournalsFields DEF JournalInv
  <2> QED  BY <2>1 DEF Grows
<1> QED  BY <1>1, <1>3, <1>4, <1>5, <1>6, <1>7 DEF JournalInv

\* A step that uploads or trashes.
LEMMA AssetsDrift ==
  ASSUME NEW db, NEW next, JournalInv(db), next \in Journals,
         next.cursor = db.cursor, next.ops = db.ops, next.items = db.items,
         Len(db.assets) <= Len(next.assets),
         \A a \in 1..Len(db.assets) :
           /\ next.assets[a].content = db.assets[a].content
           /\ next.assets[a].logical = db.assets[a].logical
           /\ next.assets[a].state = "active" => db.assets[a].state = "active"
           /\ next.assets[a].state = "superseded" => db.assets[a].state = "superseded",
         \A a \in 1..Len(next.assets) : a > Len(db.assets) => next.assets[a].logical = 0
  PROVE  JournalInv(next) /\ Grows(db, next)
<1> DEFINE A == db.assets
           B == next.assets
<1>0. db \in Journals  BY DEF JournalInv
<1>1. /\ db \in Journals /\ A \in Seq(Assets) /\ B \in Seq(Assets)
      /\ Len(A) \in Nat /\ Len(B) \in Nat /\ Len(db.ops) \in Nat /\ db.cursor \in Nat
  BY <1>0, JournalsFields, JournalSizes
<1>2. \A a \in 1..Len(B) : B[a].logical # 0 => a \in 1..Len(A)  BY <1>1
<1>3. \A a \in 1..Len(A) : a \in 1..Len(B)  BY <1>1
<1>4. \A i \in 1..Len(db.ops) : /\ db.ops[i].asset \in Nat /\ db.ops[i].asset <= Len(A)
                                /\ db.ops[i].logical \in Logicals
  BY <1>1, OpsOf DEF JournalInv, AssetsThere
<1>5. \A l \in Logicals : Exists(db.items[l]) =>
        db.items[l].asset \in Nat /\ db.items[l].asset <= Len(A)
  <2> SUFFICES ASSUME NEW l \in Logicals, Exists(db.items[l])
               PROVE  db.items[l].asset \in Nat /\ db.items[l].asset <= Len(A)
    OBVIOUS
  <2>1. db.items[l] \in Items  BY <1>1, JournalsFields DEF Exists
  <2> QED  BY <2>1, ItemFields DEF JournalInv, AssetsThere
<1>6. Budget(next) /\ PlacesDiffer(next) /\ ItemsFollow(next)
  <2>1. Done(next) = Done(db) /\ \A l \in Logicals : DoneTo(next, l) = DoneTo(db, l)
    BY DEF Done, DoneTo
  <2>2. \A l \in Logicals, i \in 1..Len(db.ops) : Shows(db, l, i) => Shows(next, l, i)
    BY <2>1 DEF Shows
  <2>3. \A l \in Logicals : DoneTo(db, l) \subseteq 1..Len(db.ops)  BY DEF Done, DoneTo
  <2>4. ItemsFollow(next)  BY <2>1, <2>2, <2>3 DEF JournalInv, ItemsFollow
  <2>5. Budget(next) /\ PlacesDiffer(next)  BY <2>1 DEF JournalInv, Budget, PlacesDiffer
  <2> QED  BY <2>4, <2>5
<1>7. AssetsThere(next)  BY <1>1, <1>4, <1>5 DEF AssetsThere
<1>8. OneActive(next)
  <2>1. OneActive(db)  BY DEF JournalInv
  <2> QED  BY <1>2, <2>1 DEF OneActive
<1>9. OwnHistory(next)
  <2>1. OwnHistory(db)  BY DEF JournalInv
  <2>2. ASSUME NEW l \in Logicals, Exists(next.items[l]), next.items[l].asset # 0
        PROVE  /\ B[next.items[l].asset].logical = l
               /\ ~ next.items[l].deleted => B[next.items[l].asset].state # "superseded"
    <3>1. next.items[l].asset \in 1..Len(A)  BY <1>1, <1>5, <2>2
    <3> QED  BY <2>1, <2>2, <3>1 DEF OwnHistory
  <2>3. \A a \in 1..Len(B) : B[a].logical # 0 =>
          Exists(next.items[B[a].logical]) /\ next.items[B[a].logical].asset # 0
    BY <1>2, <2>1 DEF OwnHistory
  <2> QED  BY <2>2, <2>3 DEF OwnHistory
<1>10. OpsOwn(next)
  <2>1. OpsOwn(db) /\ Done(next) = Done(db) /\ Done(db) \subseteq 1..Len(db.ops)
    BY DEF JournalInv, Done
  <2>2. \A i \in Done(db) : db.ops[i].asset # 0 => db.ops[i].asset \in 1..Len(A)
    BY <1>1, <1>4, <2>1
  <2>3. ASSUME NEW i \in Done(next)
        PROVE  /\ next.ops[i].asset # 0 =>
                    next.assets[next.ops[i].asset].logical = next.ops[i].logical
               /\ next.ops[i].kind = "delete" => next.ops[i].asset = 0
    BY <2>1, <2>2 DEF OpsOwn
  <2>4. ASSUME NEW i \in Done(next), NEW j \in Done(next), next.ops[j].kind = "delete",
               next.ops[j].logical = next.ops[i].logical,
               next.ops[i].cursor < next.ops[j].cursor, next.ops[i].asset # 0
        PROVE  next.assets[next.ops[i].asset].state # "active"
    <3>1. A[db.ops[i].asset].state # "active"  BY <2>1, <2>4 DEF OpsOwn
    <3>2. db.ops[i].asset \in 1..Len(A)  BY <2>1, <2>2, <2>4
    <3> QED  BY <3>1, <3>2
  <2> QED  BY <2>3, <2>4 DEF OpsOwn
<1>11. Grows(db, next)  BY <1>1 DEF Grows
<1> QED  BY <1>6, <1>7, <1>8, <1>9, <1>10, <1>11 DEF JournalInv

\* An operation as a client proposes it, with an asset that is there.
Proposed(db, in) ==
  /\ in.client \in Desktops /\ in.seq \in 1..MaxOps
  /\ in.kind \in {"upsert", "move", "delete"} /\ in.logical \in Logicals
  /\ in.base \in Revisions /\ in.path \in Paths
  /\ in.asset \in Nat /\ in.asset <= Len(db.assets)

\* What the journal has of an operation that was not a duplicate.
Inserted(db, next, in) ==
  LET k == Len(db.ops) + 1
  IN /\ Len(next.ops) = k
     /\ \A j \in 1..Len(db.ops) : next.ops[j] = db.ops[j]
     /\ next.ops[k].client = in.client /\ next.ops[k].seq = in.seq
     /\ next.ops[k].kind = in.kind /\ next.ops[k].logical = in.logical
     /\ next.ops[k].status = "applied" =>
          /\ in.kind = "upsert" =>
               /\ next.ops[k].asset # 0 /\ next.ops[k].path = in.path
               /\ next.assets[next.ops[k].asset].content = db.assets[in.asset].content
          /\ in.kind = "move" =>
               /\ Exists(db.items[in.logical]) /\ db.items[in.logical].revision = in.base
               /\ next.ops[k].path = in.path
               /\ next.ops[k].asset = db.items[in.logical].asset

\* There is room for the cursor of one more operation.
LEMMA NextCursor ==
  ASSUME NEW db, JournalInv(db), Len(db.ops) < MaxOps
  PROVE  db.cursor + 1 \in Revisions /\ db.cursor \in Nat /\ Len(db.ops) \in Nat
<1>0. db \in Journals  BY DEF JournalInv
<1>1. db \in Journals /\ db.cursor \in Revisions /\ Len(db.ops) \in Nat /\ db.cursor \in Nat
  BY <1>0, JournalsFields, JournalSizes
<1>2. Cardinality(Done(db)) \in Nat /\ Cardinality(Done(db)) <= Len(db.ops)
  BY <1>1, DoneFinite
<1>3. db.cursor <= Len(db.ops) + Cardinality(Done(db))  BY DEF JournalInv, Budget
<1>4. MaxOps \in Nat  BY SyncAssumption
<1> QED  BY <1>1, <1>2, <1>3, <1>4 DEF Revisions

\* One operation of a push.
LEMMA ApplyOneKeeps ==
  ASSUME NEW db, NEW in, JournalInv(db), Proposed(db, in), Len(db.ops) < MaxOps
  PROVE  LET next == ApplyOne(db, in)
         IN /\ JournalInv(next) /\ Grows(db, next)
            /\ Duplicates(db, in) # {} => next = db
            /\ Duplicates(db, in) = {} => Inserted(db, next, in)
<1>1. CASE Duplicates(db, in) # {}
  <2>1. ApplyOne(db, in) = db  BY <1>1 DEF ApplyOne
  <2>2. Grows(db, db)
    <3>1. Len(db.ops) \in Nat /\ Len(db.assets) \in Nat /\ db.cursor \in Nat
      BY JournalSizes DEF JournalInv
    <3> QED  BY <3>1 DEF Grows
  <2> QED  BY <1>1, <2>1, <2>2
<1>2. CASE Duplicates(db, in) = {}
  <2> DEFINE at == db.cursor + 1
             ok == Accepted(db, in)
             done == IF ok THEN Applied(db, in, at)
                     ELSE [ asset |-> in.asset, path |-> in.path, db |-> db ]
             op == [ cursor |-> at, client |-> in.client, seq |-> in.seq, kind |-> in.kind,
                     logical |-> in.logical, base |-> in.base, path |-> done.path,
                     asset |-> done.asset, status |-> IF ok THEN "applied" ELSE "conflict" ]
             next == [done.db EXCEPT !.cursor = at, !.ops = Append(@, op)]
             k == Len(db.ops) + 1
  <2>1. ApplyOne(db, in) = next  BY <1>2 DEF ApplyOne
  <2>2. at \in Revisions /\ db.cursor \in Nat /\ Len(db.ops) \in Nat /\ db \in Journals
    BY NextCursor DEF JournalInv
  <2>3. ok => AppliedStep(db, in, at, done)
    <3>1. SUFFICES ASSUME ok PROVE AppliedStep(db, in, at, Applied(db, in, at))  OBVIOUS
    <3>2. Applicable(db, in)  BY <3>1 DEF Accepted
    <3>3. OneActive(db) /\ OwnHistory(db) /\ AssetsThere(db)  BY DEF JournalInv
    <3> QED  BY <2>2, <3>2, <3>3, Applying DEF Proposed
  <2>4. ~ ok => done.asset = in.asset /\ done.path = in.path /\ done.db = db  OBVIOUS
  <2>5. \A j \in 1..Len(db.ops) : db.ops[j].client # in.client \/ db.ops[j].seq # in.seq
    <3>1. DOMAIN db.ops = 1..Len(db.ops)  BY <2>2, JournalsFields
    <3> QED  BY <1>2, <3>1 DEF Duplicates
  <2> HIDE DEF ok, done
  <2>6. done.db \in Journals /\ done.db.ops = db.ops /\ done.db.cursor = db.cursor
    BY <2>2, <2>3, <2>4 DEF AppliedStep
  <2>7. done.asset \in Nat /\ done.path \in Paths /\ done.asset <= Len(done.db.assets)
    BY <2>3, <2>4 DEF AppliedStep, ItemStep, Proposed
  <2>8. /\ op \in Operations /\ op.cursor = at /\ op.client = in.client /\ op.seq = in.seq
        /\ op.kind = in.kind /\ op.logical = in.logical /\ op.path = done.path
        /\ op.asset = done.asset
        /\ ok => op.status = "applied"
        /\ ~ ok => op.status = "conflict"
    BY <2>2, <2>7 DEF Operations, Proposed
  <2> HIDE DEF op
  <2>9. /\ next \in Journals /\ next.cursor = at
        /\ next.items = done.db.items /\ next.assets = done.db.assets
        /\ Len(next.ops) = k /\ next.ops[k] = op
        /\ \A j \in 1..Len(db.ops) : next.ops[j] = db.ops[j]
    <3> DEFINE d == done.db
    <3>1. d \in Journals /\ d.ops = db.ops  BY <2>6
    <3>2. next = [d EXCEPT !.cursor = at, !.ops = Append(@, op)]  OBVIOUS
    <3>0. op \in Operations /\ at \in Revisions  BY <2>2, <2>8
    <3> HIDE DEF d, next, at
    <3>3. /\ next \in Journals /\ next.cursor = at /\ next.items = d.items
          /\ next.assets = d.assets
          /\ Len(next.ops) = Len(d.ops) + 1 /\ next.ops[Len(d.ops) + 1] = op
          /\ \A j \in 1..Len(d.ops) : next.ops[j] = d.ops[j]
      <4>1. d.ops \in Seq(Operations) /\ Len(d.ops) \in Nat  BY <3>1, JournalsFields, JournalSizes
      <4> DEFINE ops == Append(d.ops, op)
      <4>2. /\ ops \in Seq(Operations) /\ Len(ops) = Len(d.ops) + 1 /\ ops[Len(d.ops) + 1] = op
            /\ \A j \in 1..Len(d.ops) : ops[j] = d.ops[j]
        BY <3>0, <4>1
      <4>3. next = [d EXCEPT !.cursor = at, !.ops = ops]  BY <3>1, <3>2 DEF Journals
      <4> HIDE DEF ops
      <4>4. /\ next \in Journals /\ next.cursor = at /\ next.items = d.items
            /\ next.assets = d.assets /\ next.ops = ops
        BY <3>0, <3>1, <4>2, <4>3 DEF Journals
      <4> QED  BY <4>2, <4>4
    <3> QED  BY <3>1, <3>3 DEF d
  <2> HIDE DEF next
  <2>10. CASE ok
    <3>1. k \in 1..Len(next.ops) /\ ~ (k <= Len(db.ops))  BY <2>2, <2>9
    <3>2. PutAt(db, next, k, in, done)
      BY <2>5, <2>8, <2>9, <2>10, <3>1 DEF PutAt
    <3>3. JournalInv(next) /\ Grows(db, next)
      BY <2>3, <2>10, <3>2, PutKeepsJournal DEF Proposed
    <3>4. Inserted(db, next, in)
      <4>1. Accepted(db, in)  BY <2>10 DEF ok
      <4>2. Exists(db.items[in.logical]) => db.items[in.logical].revision = in.base
        BY <4>1 DEF Accepted
      <4> QED  BY <2>3, <2>8, <2>9, <2>10, <4>2 DEF Inserted, AppliedStep
    <3> QED  BY <1>2, <2>1, <3>3, <3>4
  <2>11. CASE ~ ok
    <3>1. done.db = db  BY <2>4, <2>11
    <3>2. Len(db.ops) <= Len(next.ops)  BY <2>2, <2>9
    <3>3. \A j \in 1..Len(next.ops) : j # k => j \in 1..Len(db.ops)  BY <2>2, <2>9
    <3>4. \A j \in 1..Len(db.ops) : j \in 1..Len(next.ops)  BY <2>2, <2>9
    <3>5. Done(next) = Done(db)
      BY <2>8, <2>9, <2>11, <3>3, <3>4 DEF Done
    <3>6. Budget(next)
      <4>1. Cardinality(Done(db)) \in Nat  BY <2>2, DoneFinite
      <4> QED  BY <2>2, <2>9, <3>5, <4>1 DEF Budget, JournalInv
    <3>7. PlacesDiffer(next)
      <4>1. PlacesDiffer(db)  BY DEF JournalInv
      <4>2. ASSUME NEW i \in 1..Len(next.ops)
            PROVE  /\ next.ops[i].cursor \in 1..next.cursor
                   /\ i # k => next.ops[i].cursor # at
        <5>1. CASE i = k  BY <2>2, <2>8, <2>9, <5>1
        <5>2. CASE i # k
          <6>1. i \in 1..Len(db.ops)  BY <3>3, <5>2
          <6>2. db.ops[i].cursor \in 1..db.cursor  BY <4>1, <6>1 DEF PlacesDiffer
          <6>3. next.ops[i].cursor = db.ops[i].cursor  BY <2>9, <6>1
          <6> QED  BY <2>2, <2>9, <6>2, <6>3
        <5> QED  BY <5>1, <5>2
      <4>3. ASSUME NEW i \in 1..Len(next.ops), NEW j \in 1..Len(next.ops), i # j
            PROVE  /\ next.ops[i].cursor # next.ops[j].cursor
                   /\ \/ next.ops[i].client # next.ops[j].client
                      \/ next.ops[i].seq # next.ops[j].seq
        <5>1. CASE i = k
          <6>1. j \in 1..Len(db.ops) /\ j # k  BY <3>3, <4>3, <5>1
          <6> QED  BY <2>5, <2>8, <2>9, <4>2, <5>1, <6>1
        <5>2. CASE j = k
          <6>1. i \in 1..Len(db.ops) /\ i # k  BY <3>3, <4>3, <5>2
          <6> QED  BY <2>5, <2>8, <2>9, <4>2, <5>2, <6>1
        <5>3. CASE i # k /\ j # k
          <6>1. i \in 1..Len(db.ops) /\ j \in 1..Len(db.ops)  BY <3>3, <5>3
          <6> QED  BY <2>9, <4>1, <4>3, <6>1 DEF PlacesDiffer
        <5> QED  BY <5>1, <5>2, <5>3
      <4> QED  BY <4>2, <4>3 DEF PlacesDiffer
    <3>8. \A i \in 1..Len(next.ops) : next.ops[i].asset <= Len(db.assets)
      <4>1. \A i \in 1..Len(db.ops) : db.ops[i].asset <= Len(db.assets)
        BY DEF JournalInv, AssetsThere
      <4> QED  BY <2>7, <2>8, <2>9, <3>1, <3>3, <4>1
    <3>9. JournalInv(next) /\ Grows(db, next)
      <4>1. db.cursor <= next.cursor  BY <2>2, <2>9
      <4> QED  BY <2>9, <3>1, <3>2, <3>5, <3>6, <3>7, <3>8, <4>1, QuietStep
    <3>10. Inserted(db, next, in)  BY <2>8, <2>9, <2>11 DEF Inserted
    <3> QED  BY <1>2, <2>1, <3>9, <3>10
  <2> QED  BY <2>10, <2>11
<1> QED  BY <1>1, <1>2

\* The rows next, when the conflict of operation i is decided for the local version.
LocalKept(db, next, i, done) ==
  /\ db.ops[i].status = "conflict" /\ Applicable(db, db.ops[i]) /\ db.cursor < 2 * MaxOps
  /\ done = Applied(db, db.ops[i], db.cursor + 1)
  /\ next = [done.db EXCEPT !.cursor = db.cursor + 1,
                            !.ops[i] = [@ EXCEPT !.cursor = db.cursor + 1,
                                                 !.asset = done.asset,
                                                 !.path = done.path, !.status = "applied"]]

\* resolve_conflict in favour of the client applies the operation that was kept out.
LEMMA KeepLocalKeeps ==
  ASSUME NEW db, NEW next, NEW i \in 1..Len(db.ops), NEW done, JournalInv(db),
         LocalKept(db, next, i, done)
  PROVE  JournalInv(next) /\ Grows(db, next) /\ Len(next.ops) = Len(db.ops)
<1>0. /\ db.ops[i].status = "conflict" /\ Applicable(db, db.ops[i]) /\ db.cursor < 2 * MaxOps
      /\ done = Applied(db, db.ops[i], db.cursor + 1)
      /\ next = [done.db EXCEPT !.cursor = db.cursor + 1,
                                !.ops[i] = [@ EXCEPT !.cursor = db.cursor + 1,
                                                     !.asset = done.asset,
                                                     !.path = done.path, !.status = "applied"]]
  BY DEF LocalKept
<1> USE <1>0
<1> DEFINE at == db.cursor + 1
           in == db.ops[i]
           op == [in EXCEPT !.cursor = at, !.asset = done.asset, !.path = done.path,
                            !.status = "applied"]
           d == done.db
<1>1. db \in Journals  BY DEF JournalInv
<1>2. /\ db.cursor \in Nat /\ Len(db.ops) \in Nat /\ in \in Operations /\ MaxOps \in Nat
      /\ db.ops \in Seq(Operations)
  BY <1>1, OpsOf, JournalSizes, JournalsFields, SyncAssumption
<1>3. at \in Revisions  BY <1>2 DEF Revisions
<1>4. AppliedStep(db, in, at, done)
  <2>1. OneActive(db) /\ OwnHistory(db) /\ AssetsThere(db)  BY DEF JournalInv
  <2>2. /\ in.logical \in Logicals /\ in.kind \in {"upsert", "move", "delete"}
        /\ in.path \in Paths /\ in.asset \in Nat
    BY <1>2, OperationFields
  <2>3. in.asset <= Len(db.assets)  BY <2>1 DEF AssetsThere
  <2> HIDE DEF in, at
  <2>4. Applicable(db, in) /\ done = Applied(db, in, at)  BY DEF in, at
  <2> QED  BY <1>1, <1>3, <2>1, <2>2, <2>3, <2>4, Applying
<1>5. d \in Journals /\ d.ops = db.ops /\ done.asset \in Nat /\ done.path \in Paths
  BY <1>4 DEF AppliedStep, ItemStep
<1>6. /\ op \in Operations /\ op.cursor = at /\ op.status = "applied"
      /\ op.logical = in.logical /\ op.kind = in.kind /\ op.client = in.client
      /\ op.seq = in.seq /\ op.asset = done.asset /\ op.path = done.path
  BY <1>2, <1>3, <1>5 DEF Operations
<1> DEFINE ops == [d.ops EXCEPT ![i] = op]
<1>7. /\ ops \in Seq(Operations) /\ Len(ops) = Len(db.ops) /\ ops[i] = op
      /\ \A j \in 1..Len(db.ops) : j # i => ops[j] = db.ops[j]
  <2> HIDE DEF op
  <2> QED  BY <1>2, <1>5, <1>6
<1>8. next = [d EXCEPT !.cursor = at, !.ops = ops]  BY <1>5 DEF Journals
<1> HIDE DEF ops, op, d
<1>9. /\ next \in Journals /\ next.cursor = at /\ next.items = d.items
      /\ next.assets = d.assets /\ next.ops = ops
  BY <1>3, <1>5, <1>7, <1>8 DEF Journals
<1>10. PutAt(db, next, i, in, done)
  <2>1. i \in 1..Len(next.ops) /\ i <= Len(db.ops) /\ ~ (i > Len(db.ops))  BY <1>2, <1>7, <1>9
  <2>2. in.status # "applied"  OBVIOUS
  <2> QED  BY <1>6, <1>7, <1>9, <2>1, <2>2 DEF PutAt, d
<1>11. in.logical \in Logicals  BY <1>2, OperationFields
<1> HIDE DEF in, at
<1>12. JournalInv(next) /\ Grows(db, next)
  BY <1>4, <1>10, <1>11, PutKeepsJournal DEF at
<1> QED  BY <1>7, <1>9, <1>12

\* A conflict is decided for what the item shows.
LEMMA KeepRemoteKeeps ==
  ASSUME NEW db, NEW next, NEW i \in 1..Len(db.ops), JournalInv(db),
         db.ops[i].status = "conflict", next = [db EXCEPT !.ops[i].status = "rejected"]
  PROVE  JournalInv(next) /\ Grows(db, next) /\ Len(next.ops) = Len(db.ops)
<1> DEFINE op == [db.ops[i] EXCEPT !.status = "rejected"]
           ops == [db.ops EXCEPT ![i] = op]
<1>1. db \in Journals  BY DEF JournalInv
<1>2. /\ db.cursor \in Nat /\ Len(db.ops) \in Nat /\ db.ops[i] \in Operations
      /\ db.ops \in Seq(Operations)
  BY <1>1, OpsOf, JournalSizes, JournalsFields
<1>3. /\ op \in Operations /\ op.status = "rejected" /\ op.client = db.ops[i].client
      /\ op.seq = db.ops[i].seq /\ op.cursor = db.ops[i].cursor /\ op.asset = db.ops[i].asset
  BY <1>2 DEF Operations
<1>4. /\ ops \in Seq(Operations) /\ Len(ops) = Len(db.ops) /\ ops[i] = op
      /\ \A j \in 1..Len(db.ops) : j # i => ops[j] = db.ops[j]
  <2> HIDE DEF op
  <2> QED  BY <1>2, <1>3
<1>5. next = [db EXCEPT !.ops = ops]  BY <1>1 DEF Journals
<1> HIDE DEF ops, op
<1>6. /\ next \in Journals /\ next.cursor = db.cursor /\ next.items = db.items
      /\ next.assets = db.assets /\ next.ops = ops
  BY <1>1, <1>4, <1>5 DEF Journals
<1>7. \A j \in 1..Len(db.ops) :
        /\ next.ops[j].client = db.ops[j].client /\ next.ops[j].seq = db.ops[j].seq
        /\ next.ops[j].cursor = db.ops[j].cursor /\ next.ops[j].asset = db.ops[j].asset
        /\ db.ops[j].status = "applied" => next.ops[j] = db.ops[j]
        /\ next.ops[j].status = "applied" <=> db.ops[j].status = "applied"
  BY <1>3, <1>4, <1>6
<1>8. Done(next) = Done(db)  BY <1>4, <1>6, <1>7 DEF Done
<1>9. Budget(next)  BY <1>4, <1>6, <1>8 DEF JournalInv, Budget
<1>10. PlacesDiffer(next)
  <2>1. PlacesDiffer(db)  BY DEF JournalInv
  <2> QED  BY <1>4, <1>6, <1>7, <2>1 DEF PlacesDiffer
<1>11. \A j \in 1..Len(next.ops) : next.ops[j].asset <= Len(db.assets)
  BY <1>4, <1>6, <1>7 DEF JournalInv, AssetsThere
<1>12. JournalInv(next) /\ Grows(db, next)
  <2>1. db.cursor <= next.cursor /\ Len(db.ops) <= Len(next.ops)  BY <1>2, <1>4, <1>6
  <2> QED  BY <1>6, <1>7, <1>8, <1>9, <1>10, <1>11, <2>1, QuietStep
<1> QED  BY <1>4, <1>6, <1>12

\* The owner trashes an asset in the library.
LEMMA WebTrashKeeps ==
  ASSUME NEW db, NEW next, NEW a \in 1..Len(db.assets), JournalInv(db),
         next = [db EXCEPT !.assets[a].state = "trashed"]
  PROVE  JournalInv(next) /\ Grows(db, next) /\ Len(next.ops) = Len(db.ops)
<1> DEFINE A == db.assets
           x == [A[a] EXCEPT !.state = "trashed"]
           B == [A EXCEPT ![a] = x]
<1>1. db \in Journals  BY DEF JournalInv
<1>2. A \in Seq(Assets) /\ A[a] \in Assets /\ Len(A) \in Nat /\ a \in 1..Len(A)
  BY <1>1, JournalsFields, JournalSizes
<1>3. "trashed" \in {"active", "superseded", "trashed"}  OBVIOUS
<1>4. /\ x \in Assets /\ x.state = "trashed"
      /\ x.content = A[a].content /\ x.logical = A[a].logical
  BY <1>2, <1>3, AssetRestated
<1>5. next = [db EXCEPT !.assets = B]  BY <1>1 DEF Journals
<1> HIDE DEF x, A
<1>6. B \in Seq(Assets) /\ Len(B) = Len(A) /\ B[a] = x /\ \A j \in 1..Len(A) : j # a => B[j] = A[j]
  BY <1>2, <1>4
<1> HIDE DEF B
<1>7. /\ next \in Journals /\ next.cursor = db.cursor /\ next.items = db.items
      /\ next.ops = db.ops /\ next.assets = B
  BY <1>1, <1>5, <1>6 DEF Journals
<1>8. \A j \in 1..Len(A) :
        /\ B[j].content = A[j].content /\ B[j].logical = A[j].logical
        /\ B[j].state = "active" => A[j].state = "active"
        /\ B[j].state = "superseded" => A[j].state = "superseded"
  BY <1>4, <1>6
<1>9. Len(A) <= Len(B) /\ \A j \in 1..Len(B) : ~ (j > Len(A))  BY <1>2, <1>6
<1>10. JournalInv(next) /\ Grows(db, next)
  BY <1>7, <1>8, <1>9, AssetsDrift DEF A
<1> QED  BY <1>7, <1>10

\* An upload on the way of a scan.
LEMMA UploadKeeps ==
  ASSUME NEW db, NEW x \in Contents, JournalInv(db)
  PROVE  LET next == Upload(db, x)
         IN /\ JournalInv(next) /\ Grows(db, next)
            /\ next.ops = db.ops /\ next.items = db.items /\ next.cursor = db.cursor
            /\ \A a \in Uploaded(next, x) :
                 a \in 1..Len(next.assets) /\ next.assets[a].content = x
            /\ Uploaded(next, x) # {}
<1>1. db \in Journals  BY DEF JournalInv
<1>2. /\ db.assets \in Seq(Assets) /\ Len(db.assets) \in Nat /\ Len(db.ops) \in Nat
      /\ db.cursor \in Nat /\ DOMAIN db.assets = 1..Len(db.assets)
  BY <1>1, JournalsFields, JournalSizes
<1>3. CASE Uploaded(db, x) # {}
  <2>1. Upload(db, x) = db  BY <1>3 DEF Upload
  <2>2. Grows(db, db)  BY <1>2 DEF Grows
  <2>3. \A a \in Uploaded(db, x) : a \in 1..Len(db.assets) /\ db.assets[a].content = x
    BY <1>2 DEF Uploaded
  <2> QED  BY <1>3, <2>1, <2>2, <2>3
<1>4. CASE Uploaded(db, x) = {}
  <2> DEFINE A == db.assets
             new == [ content |-> x, logical |-> 0, state |-> "active" ]
             B == Append(A, new)
             next == [db EXCEPT !.assets = B]
  <2>1. Upload(db, x) = next  BY <1>1, <1>4 DEF Upload, Journals
  <2>2. new \in Assets /\ new.content = x /\ new.logical = 0 /\ new.state = "active"
    BY Numbers DEF Assets
  <2> HIDE DEF A, new
  <2>3. /\ B \in Seq(Assets) /\ Len(B) = Len(A) + 1 /\ B[Len(A) + 1] = new
        /\ \A j \in 1..Len(A) : B[j] = A[j]
    BY <1>2, <2>2 DEF A
  <2> HIDE DEF B
  <2>4. /\ next \in Journals /\ next.cursor = db.cursor /\ next.items = db.items
        /\ next.ops = db.ops /\ next.assets = B
    BY <1>1, <2>3 DEF Journals
  <2> HIDE DEF next
  <2>5. Len(A) \in Nat /\ Len(A) <= Len(B)  BY <1>2, <2>3 DEF A
  <2>6. \A j \in 1..Len(B) : j > Len(A) => B[j].logical = 0
    <3>1. \A j \in 1..Len(B) : j > Len(A) => j = Len(A) + 1  BY <2>3, <2>5
    <3> QED  BY <2>2, <2>3, <3>1
  <2>7. JournalInv(next) /\ Grows(db, next)
    BY <2>3, <2>4, <2>5, <2>6, AssetsDrift DEF A
  <2>8. DOMAIN B = 1..Len(B)  BY <2>3
  <2>9. \A a \in Uploaded(next, x) : a \in 1..Len(next.assets) /\ next.assets[a].content = x
    BY <2>4, <2>8 DEF Uploaded
  <2>10. Len(A) + 1 \in Uploaded(next, x)
    <3>1. Len(A) + 1 \in 1..Len(B) /\ Len(A) + 1 # 0  BY <2>3, <2>5
    <3> QED  BY <2>2, <2>3, <2>4, <2>8, <3>1 DEF Uploaded, Active
  <2> QED  BY <2>1, <2>4, <2>7, <2>9, <2>10
<1> QED  BY <1>3, <1>4

-----------------------------------------------------------------------------
(* What the server makes of a batch: one operation after the other.       *)

\* What the scan proposes: the bytes of an upload are those the operation is
\* about, and a move is based on a revision that shows them.
About(db, in, x) ==
  /\ Proposed(db, in)
  /\ in.kind = "upsert" => in.asset # 0 /\ db.assets[in.asset].content = x
  /\ in.kind = "move" =>
       \E i \in DoneTo(db, in.logical) :
         /\ db.ops[i].cursor = in.base /\ db.ops[i].asset # 0
         /\ db.assets[db.ops[i].asset].content = x

\* Operation j of the journal is what a push has made of the proposal in.
Pushed(db, j, in, x) ==
  /\ db.ops[j].client = in.client /\ db.ops[j].seq = in.seq /\ db.ops[j].logical = in.logical
  /\ db.ops[j].status = "applied" /\ in.kind # "delete" =>
       /\ db.ops[j].path = in.path /\ db.ops[j].asset # 0
       /\ db.assets[db.ops[j].asset].content = x

\* What two steps do not undo, they do not undo together.
LEMMA GrowsThrough ==
  ASSUME NEW db, NEW mid, NEW later, JournalInv(db), JournalInv(mid), JournalInv(later),
         Grows(db, mid), Grows(mid, later)
  PROVE  Grows(db, later)
<1>0. db \in Journals /\ mid \in Journals /\ later \in Journals  BY DEF JournalInv
<1>1. /\ Len(db.ops) \in Nat /\ Len(mid.ops) \in Nat /\ Len(later.ops) \in Nat
      /\ Len(db.assets) \in Nat /\ Len(mid.assets) \in Nat /\ Len(later.assets) \in Nat
      /\ db.cursor \in Nat /\ mid.cursor \in Nat /\ later.cursor \in Nat
  BY <1>0, JournalSizes
<1>2. \A i \in 1..Len(db.ops) : i \in 1..Len(mid.ops)  BY <1>1 DEF Grows
<1>3. \A a \in 1..Len(db.assets) : a \in 1..Len(mid.assets)  BY <1>1 DEF Grows
<1>4. /\ Len(db.ops) <= Len(later.ops) /\ Len(db.assets) <= Len(later.assets)
      /\ db.cursor <= later.cursor
  BY <1>1 DEF Grows
<1>5. \A i \in 1..Len(db.ops) :
        /\ later.ops[i].client = db.ops[i].client /\ later.ops[i].seq = db.ops[i].seq
        /\ db.ops[i].status = "applied" => later.ops[i] = db.ops[i]
  BY <1>2 DEF Grows
<1>6. \A a \in 1..Len(db.assets) : later.assets[a].content = db.assets[a].content
  BY <1>3 DEF Grows
<1> QED  BY <1>4, <1>5, <1>6 DEF Grows

\* Nothing is undone when nothing happens.
LEMMA GrowsFromItself ==
  ASSUME NEW db, JournalInv(db)
  PROVE  Grows(db, db)
<1>1. db \in Journals  BY DEF JournalInv
<1>2. Len(db.ops) \in Nat /\ Len(db.assets) \in Nat /\ db.cursor \in Nat  BY <1>1, JournalSizes
<1> QED  BY <1>2 DEF Grows

\* An applied operation stays, with the bytes of the asset it names.
LEMMA DoneStays ==
  ASSUME NEW db, NEW later, JournalInv(db), JournalInv(later), Grows(db, later),
         NEW l \in Logicals, NEW i \in DoneTo(db, l)
  PROVE  /\ i \in DoneTo(later, l) /\ later.ops[i] = db.ops[i]
         /\ db.ops[i].asset # 0 =>
              later.assets[db.ops[i].asset].content = db.assets[db.ops[i].asset].content
<1>0. db \in Journals /\ later \in Journals  BY DEF JournalInv
<1>1. /\ Len(db.ops) \in Nat /\ Len(later.ops) \in Nat
      /\ Len(db.assets) \in Nat /\ Len(later.assets) \in Nat
  BY <1>0, JournalSizes
<1>2. i \in 1..Len(db.ops) /\ db.ops[i].status = "applied" /\ db.ops[i].logical = l
  BY DEF DoneTo, Done
<1>3. later.ops[i] = db.ops[i]  BY <1>2 DEF Grows
<1>4. i \in 1..Len(later.ops)  BY <1>1, <1>2 DEF Grows
<1>5. db.ops[i].asset \in Nat /\ db.ops[i].asset <= Len(db.assets)
  BY <1>0, <1>2, OpsOf DEF JournalInv, AssetsThere
<1>6. db.ops[i].asset # 0 => db.ops[i].asset \in 1..Len(db.assets)  BY <1>1, <1>5
<1> QED  BY <1>2, <1>3, <1>4, <1>6 DEF DoneTo, Done, Grows

\* What a scan proposes stays sound when the journal goes on.
LEMMA AboutStays ==
  ASSUME NEW db, NEW later, JournalInv(db), JournalInv(later), Grows(db, later),
         NEW in, NEW x, About(db, in, x)
  PROVE  About(later, in, x)
<1>0. db \in Journals /\ later \in Journals  BY DEF JournalInv
<1>1. Len(db.assets) \in Nat /\ Len(later.assets) \in Nat  BY <1>0, JournalSizes
<1>2. in.asset \in Nat /\ in.asset <= Len(db.assets) /\ in.logical \in Logicals
  BY DEF About, Proposed
<1>3. Proposed(later, in)  BY <1>1, <1>2 DEF About, Proposed, Grows
<1>4. ASSUME in.kind = "upsert"
      PROVE  in.asset # 0 /\ later.assets[in.asset].content = x
  <2>1. in.asset # 0 /\ db.assets[in.asset].content = x  BY <1>4 DEF About
  <2>2. in.asset \in 1..Len(db.assets)  BY <1>1, <1>2, <2>1
  <2> QED  BY <2>1, <2>2 DEF Grows
<1>5. ASSUME in.kind = "move"
      PROVE  \E i \in DoneTo(later, in.logical) :
               /\ later.ops[i].cursor = in.base /\ later.ops[i].asset # 0
               /\ later.assets[later.ops[i].asset].content = x
  <2>1. PICK i \in DoneTo(db, in.logical) :
          /\ db.ops[i].cursor = in.base /\ db.ops[i].asset # 0
          /\ db.assets[db.ops[i].asset].content = x
    BY <1>5 DEF About
  <2>2. /\ i \in DoneTo(later, in.logical) /\ later.ops[i] = db.ops[i]
        /\ later.assets[db.ops[i].asset].content = db.assets[db.ops[i].asset].content
    BY <1>2, <2>1, DoneStays
  <2> QED  BY <2>1, <2>2
<1> QED  BY <1>3, <1>4, <1>5 DEF About

\* An item shows what the operation of its revision has left.
LEMMA RevisionShown ==
  ASSUME NEW db, JournalInv(db), NEW l \in Logicals, Exists(db.items[l]),
         NEW i \in DoneTo(db, l), db.ops[i].cursor = db.items[l].revision, db.ops[i].asset # 0
  PROVE  db.items[l].asset = db.ops[i].asset /\ db.items[l].path = db.ops[i].path
<1>1. PICK j \in DoneTo(db, l) : Shows(db, l, j)  BY DEF JournalInv, ItemsFollow
<1>2. db.ops[j].cursor = db.ops[i].cursor  BY <1>1 DEF Shows
<1>3. i \in 1..Len(db.ops) /\ j \in 1..Len(db.ops) /\ i \in Done(db)  BY DEF DoneTo, Done
<1>4. i = j  BY <1>2, <1>3 DEF JournalInv, PlacesDiffer
<1>5. db.ops[i].kind # "delete"  BY <1>3 DEF JournalInv, OpsOwn
<1> QED  BY <1>1, <1>4, <1>5 DEF Shows

\* What one operation of a push leaves in the journal.
LEMMA PushedOne ==
  ASSUME NEW db, NEW next, NEW in, NEW x, JournalInv(db), JournalInv(next), Grows(db, next),
         About(db, in, x), Inserted(db, next, in)
  PROVE  Pushed(next, Len(db.ops) + 1, in, x)
<1> DEFINE k == Len(db.ops) + 1
<1>0. db \in Journals  BY DEF JournalInv
<1>1. Len(db.assets) \in Nat  BY <1>0, JournalSizes
<1>2. /\ next.ops[k].client = in.client /\ next.ops[k].seq = in.seq
      /\ next.ops[k].kind = in.kind /\ next.ops[k].logical = in.logical
  BY DEF Inserted
<1>3. /\ in.logical \in Logicals /\ in.kind \in {"upsert", "move", "delete"}
      /\ in.asset \in Nat /\ in.asset <= Len(db.assets)
  BY DEF About, Proposed
<1>4. ASSUME next.ops[k].status = "applied", in.kind = "upsert"
      PROVE  /\ next.ops[k].path = in.path /\ next.ops[k].asset # 0
             /\ next.assets[next.ops[k].asset].content = x
  BY <1>4 DEF Inserted, About
<1>5. ASSUME next.ops[k].status = "applied", in.kind = "move"
      PROVE  /\ next.ops[k].path = in.path /\ next.ops[k].asset # 0
             /\ next.assets[next.ops[k].asset].content = x
  <2>1. /\ Exists(db.items[in.logical]) /\ db.items[in.logical].revision = in.base
        /\ next.ops[k].path = in.path /\ next.ops[k].asset = db.items[in.logical].asset
    BY <1>5 DEF Inserted
  <2>2. PICK i \in DoneTo(db, in.logical) :
          /\ db.ops[i].cursor = in.base /\ db.ops[i].asset # 0
          /\ db.assets[db.ops[i].asset].content = x
    BY <1>5 DEF About
  <2>3. db.items[in.logical].asset = db.ops[i].asset  BY <1>3, <2>1, <2>2, RevisionShown
  <2>4. next.assets[db.ops[i].asset].content = x  BY <1>3, <2>2, DoneStays
  <2> QED  BY <2>1, <2>2, <2>3, <2>4
<1> QED  BY <1>2, <1>3, <1>4, <1>5 DEF Pushed

\* The rows cur after the first i operations of a push on the rows db.
PushStep(db, cur, batch, about, i) ==
  /\ JournalInv(cur) /\ Grows(db, cur) /\ Len(cur.ops) <= Len(db.ops) + i
  /\ \A j \in 1..Len(db.ops) : cur.ops[j] = db.ops[j]
  /\ \A j \in 1..Len(cur.ops) :
       j > Len(db.ops) => \E k \in 1..i : Pushed(cur, j, batch[k], about[k])

\* A push, with every operation of it a proposal of the client.
LEMMA PushKeeps ==
  ASSUME NEW db, NEW batch, NEW about, NEW n \in Nat, DOMAIN batch = 1..n, JournalInv(db),
         Len(db.ops) + n <= MaxOps, \A i \in 1..n : About(db, batch[i], about[i])
  PROVE  PushStep(db, Push(db, batch), batch, about, n)
<1>1. PICK run : /\ run[0] = db /\ run[n] = Push(db, batch)
                 /\ \A i \in 1..n : run[i] = ApplyOne(run[i - 1], batch[i])
  BY PushRun
<1>0. db \in Journals  BY DEF JournalInv
<1>2. Len(db.ops) \in Nat /\ MaxOps \in Nat  BY <1>0, JournalSizes, SyncAssumption
<1> DEFINE G == { i \in 0..n : PushStep(db, run[i], batch, about, i) }
<1>3. 0 \in G
  <2>1. Grows(db, db)  BY GrowsFromItself
  <2>2. PushStep(db, db, batch, about, 0)  BY <1>2, <2>1 DEF PushStep
  <2> QED  BY <1>1, <2>2
<1>4. ASSUME NEW i \in 1..n, i - 1 \in G
      PROVE  i \in G
  <2> DEFINE cur == run[i - 1]
             in == batch[i]
             next == run[i]
  <2>1. PushStep(db, cur, batch, about, i - 1)  BY <1>4
  <2>2. next = ApplyOne(cur, in)  BY <1>1
  <2>3. About(db, in, about[i])  OBVIOUS
  <2> HIDE DEF cur, in, next
  <2>4. JournalInv(cur) /\ Grows(db, cur) /\ Len(cur.ops) <= Len(db.ops) + (i - 1)
    BY <2>1 DEF PushStep
  <2>5. cur \in Journals  BY <2>4 DEF JournalInv
  <2>6. Len(cur.ops) \in Nat  BY <2>5, JournalSizes
  <2>7. Len(cur.ops) < MaxOps  BY <1>2, <2>4, <2>6
  <2>8. About(cur, in, about[i])  BY <2>3, <2>4, AboutStays
  <2>9. /\ JournalInv(next) /\ Grows(cur, next)
        /\ Duplicates(cur, in) # {} => next = cur
        /\ Duplicates(cur, in) = {} => Inserted(cur, next, in)
    BY <2>2, <2>4, <2>7, <2>8, ApplyOneKeeps DEF About
  <2>10. Grows(db, next)  BY <2>4, <2>9, GrowsThrough
  <2>11. CASE next = cur
    <3>1. PushStep(db, next, batch, about, i)
      <4>1. \A k \in 1..(i - 1) : k \in 1..i  OBVIOUS
      <4>2. Len(next.ops) <= Len(db.ops) + i  BY <1>2, <2>4, <2>6, <2>11
      <4> QED  BY <2>1, <2>9, <2>10, <2>11, <4>1, <4>2 DEF PushStep
    <3> QED  BY <3>1 DEF next
  <2>12. CASE Inserted(cur, next, in)
    <3> DEFINE k == Len(cur.ops) + 1
    <3>1. Len(next.ops) = k /\ \A j \in 1..Len(cur.ops) : next.ops[j] = cur.ops[j]
      BY <2>12 DEF Inserted
    <3>2. Pushed(next, k, in, about[i])  BY <2>4, <2>8, <2>9, <2>12, PushedOne
    <3>3. Len(db.ops) <= Len(cur.ops)  BY <2>4 DEF Grows
    <3>4. \A j \in 1..Len(db.ops) : next.ops[j] = db.ops[j]
      <4>1. \A j \in 1..Len(db.ops) : j \in 1..Len(cur.ops)  BY <1>2, <2>6, <3>3
      <4> QED  BY <2>1, <3>1, <4>1 DEF PushStep
    <3>5. ASSUME NEW j \in 1..Len(next.ops), j > Len(db.ops)
          PROVE  \E m \in 1..i : Pushed(next, j, batch[m], about[m])
      <4>1. CASE j = k
        <5>1. i \in 1..i  OBVIOUS
        <5> QED  BY <3>2, <4>1, <5>1 DEF in
      <4>2. CASE j # k
        <5>1. j \in 1..Len(cur.ops)  BY <2>6, <3>1, <4>2
        <5>2. PICK m \in 1..(i - 1) : Pushed(cur, j, batch[m], about[m])
          BY <2>1, <3>5, <5>1 DEF PushStep
        <5>3. next.ops[j] = cur.ops[j]  BY <3>1, <5>1
        <5>4. ASSUME cur.ops[j].asset # 0
              PROVE  next.assets[cur.ops[j].asset].content = cur.assets[cur.ops[j].asset].content
          <6>1. cur.ops[j].asset \in Nat /\ cur.ops[j].asset <= Len(cur.assets)
            BY <2>4, <2>5, <5>1, OpsOf DEF JournalInv, AssetsThere
          <6>2. Len(cur.assets) \in Nat  BY <2>5, JournalSizes
          <6>3. cur.ops[j].asset \in 1..Len(cur.assets)  BY <5>4, <6>1, <6>2
          <6> QED  BY <2>9, <6>3 DEF Grows
        <5>5. Pushed(next, j, batch[m], about[m])  BY <5>2, <5>3, <5>4 DEF Pushed
        <5>6. m \in 1..i  OBVIOUS
        <5> QED  BY <5>5, <5>6
      <4> QED  BY <4>1, <4>2
    <3>6. Len(next.ops) <= Len(db.ops) + i  BY <1>2, <2>4, <2>6, <3>1
    <3>7. PushStep(db, next, batch, about, i)
      BY <2>9, <2>10, <3>4, <3>5, <3>6 DEF PushStep
    <3> QED  BY <3>7 DEF next
  <2> QED  BY <2>9, <2>11, <2>12
<1> HIDE DEF G
<1>5. \A i \in 0..n : i \in G  BY ONLY <1>3, <1>4, UpTo, n \in Nat
<1>6. n \in G  BY <1>5
<1> QED  BY <1>1, <1>6 DEF G

-----------------------------------------------------------------------------
(* What a run proposes: the scan of the folder (local_changes).           *)

\* A finite set can be listed, and its list is made of its elements.
LEMMA Listed ==
  ASSUME NEW S, IsFiniteSet(S)
  PROVE  /\ Cardinality(S) \in Nat
         /\ SetToSeq(S) \in [1..Cardinality(S) -> S] /\ IsInjective(SetToSeq(S))
<1>1. Cardinality(S) \in Nat /\ ExistsBijection(1..Cardinality(S), S)
  BY FS_CardinalityType
<1>2. PICK f \in Bijection(1..Cardinality(S), S) : TRUE  BY <1>1 DEF ExistsBijection
<1>3. f \in [1..Cardinality(S) -> S] /\ IsInjective(f)
  BY <1>2 DEF Bijection, Injection
<1> QED  BY <1>1, <1>3 DEF SetToSeq

\* The fold over the files in local_changes, unfolded: one file after the other.
LEMMA ScanRun ==
  ASSUME NEW c, NEW own, NEW order, NEW n \in Nat, DOMAIN order = 1..n
  PROVE  \E run : /\ run[0] = [ unmatched |-> Known(mem[c]), db |-> root, batch |-> << >>,
                                about |-> << >>, used |-> Known(mem[c]) ]
                  /\ run[n] = Scanned(c, own, order)
                  /\ \A i \in 1..n : run[i] = ScanOne(c, own, run[i - 1], order[i])
<1> DEFINE start == [ unmatched |-> Known(mem[c]), db |-> root, batch |-> << >>,
                      about |-> << >>, used |-> Known(mem[c]) ]
           Eq(it, m) == it = [s \in SUBSET (1..m) |-> IF s = {} THEN start
                              ELSE ScanOne(c, own, it[s \ {Max(s)}], order[Max(s)])]
           G == { m \in Nat : \E it : Eq(it, m) }
<1>0. Scanned(c, own, order) = FoldLeft(LAMBDA acc, p : ScanOne(c, own, acc, p), start, order)
  BY DEF Scanned
<1> HIDE DEF start
<1>1. 0 \in G
  <2> DEFINE it == [s \in SUBSET (1..0) |-> start]
  <2>1. \A s \in SUBSET (1..0) : s = {}  OBVIOUS
  <2>2. Eq(it, 0)  BY <2>1
  <2> QED  BY <2>2
<1>2. ASSUME NEW i \in 1..n, i - 1 \in G
      PROVE  i \in G
  <2> DEFINE m == i - 1
  <2>0. m \in Nat /\ m + 1 = i  OBVIOUS
  <2>1. PICK it : Eq(it, m)  BY <1>2
  <2> DEFINE jt == [s \in SUBSET (1..i) |->
                      IF i \in s THEN ScanOne(c, own, it[s \ {i}], order[i]) ELSE it[s]]
  <2>2. ASSUME NEW s \in SUBSET (1..i)
        PROVE  jt[s] = IF s = {} THEN start
                       ELSE ScanOne(c, own, jt[s \ {Max(s)}], order[Max(s)])
    <3>1. CASE i \in s
      <4>1. Max(s) = i /\ s \ {i} \in SUBSET (1..m)  BY <2>0, <3>1, MaxOfInitial
      <4>2. jt[s \ {i}] = it[s \ {i}]  BY <4>1
      <4> QED  BY <3>1, <4>1, <4>2
    <3>2. CASE i \notin s
      <4>1. s \in SUBSET (1..m)  BY <3>2
      <4>2. it[s] = IF s = {} THEN start
                    ELSE ScanOne(c, own, it[s \ {Max(s)}], order[Max(s)])
        BY <2>1, <4>1
      <4>3. s \ {Max(s)} \in SUBSET (1..i) /\ i \notin s \ {Max(s)}  BY <3>2
      <4> QED  BY <3>2, <4>2, <4>3
    <3> QED  BY <3>1, <3>2
  <2>3. Eq(jt, i)  BY <2>2
  <2>4. i \in Nat  OBVIOUS
  <2> HIDE DEF Eq, jt
  <2> QED  BY <2>3, <2>4
<1> HIDE DEF Eq, G
<1>3. \A i \in 0..n : i \in G  BY ONLY <1>1, <1>2, UpTo, n \in Nat
<1>4. \E it : Eq(it, n)  BY <1>3 DEF G
<1> USE DEF Eq
<1> DEFINE It == CHOOSE it : it = [s \in SUBSET (DOMAIN order) |-> IF s = {} THEN start
                              ELSE ScanOne(c, own, it[s \ {Max(s)}], order[Max(s)])]
<1>5. Scanned(c, own, order) = It[DOMAIN order]
  BY <1>0 DEF FoldLeft, MapThenFoldSet
<1>6. It = [s \in SUBSET (DOMAIN order) |-> IF s = {} THEN start
                              ELSE ScanOne(c, own, It[s \ {Max(s)}], order[Max(s)])]
  BY <1>4
<1> HIDE DEF It
<1> DEFINE run == [i \in 0..n |-> It[1..i]]
<1>7. run[0] = start
  <2>1. 1..0 = {}  OBVIOUS
  <2> QED  BY <1>6, <2>1
<1>8. ASSUME NEW i \in 1..n
      PROVE  run[i] = ScanOne(c, own, run[i - 1], order[i])
  <2> DEFINE m == i - 1
  <2>1. m \in Nat /\ m + 1 = i /\ i \in 1..i /\ 1..i \in SUBSET (1..n)  OBVIOUS
  <2>2. Max(1..i) = i  BY <2>1, MaxOfInitial
  <2>3. (1..i) \ {i} = 1..m  OBVIOUS
  <2>4. 1..i # {}  BY <2>1
  <2>5. It[1..i] = ScanOne(c, own, It[(1..i) \ {Max(1..i)}], order[Max(1..i)])
    BY <1>6, <2>1, <2>4
  <2>6. run[i] = It[1..i] /\ run[m] = It[1..m]  OBVIOUS
  <2> QED  BY <2>2, <2>3, <2>5, <2>6
<1>9. run[n] = Scanned(c, own, order)  BY <1>5
<1> HIDE DEF run
<1>10. run[0] = start /\ run[n] = Scanned(c, own, order)
       /\ \A i \in 1..n : run[i] = ScanOne(c, own, run[i - 1], order[i])
  BY <1>7, <1>8, <1>9
<1> QED  BY <1>10 DEF start

Proposals == [ client : Desktops, seq : Nat, kind : {"upsert", "move", "delete"},
               logical : Logicals \cup {0}, base : Revisions, path : Paths, asset : Nat ]
Accs == [ unmatched : SUBSET Logicals, db : Journals, batch : Seq(Proposals),
          about : Seq(Contents), used : SUBSET (Logicals \cup {0}) ]

\* The k-th operation of a push, when it is one that can be pushed.
Sound(c, db, in, k, x) ==
  /\ in.client = c /\ in.seq = mem[c].seq + k
  /\ in.logical # 0 /\ in.seq <= MaxOps => About(db, in, x)

\* What the scan has found so far.
ScanInv(c, acc) ==
  /\ acc \in Accs
  /\ JournalInv(acc.db) /\ Grows(root, acc.db) /\ acc.db.ops = root.ops
  /\ acc.unmatched \subseteq Known(mem[c])
  /\ Len(acc.about) = Len(acc.batch)
  /\ \A k \in 1..Len(acc.batch) : Sound(c, acc.db, acc.batch[k], k, acc.about[k])

\* The fields of a scan under way.
LEMMA AccFields ==
  ASSUME NEW acc \in Accs
  PROVE  /\ acc.unmatched \in SUBSET Logicals /\ acc.db \in Journals
         /\ acc.batch \in Seq(Proposals) /\ acc.about \in Seq(Contents)
         /\ acc.used \in SUBSET (Logicals \cup {0})
         /\ Len(acc.batch) \in Nat /\ Len(acc.about) \in Nat
<1>1. /\ acc.unmatched \in SUBSET Logicals /\ acc.db \in Journals
      /\ acc.batch \in Seq(Proposals) /\ acc.about \in Seq(Contents)
      /\ acc.used \in SUBSET (Logicals \cup {0})
  BY DEF Accs
<1> QED  BY <1>1

\* The fields of a state file.
LEMMA StateFields ==
  ASSUME NEW state \in States
  PROVE  /\ state.cursor \in Revisions /\ state.cursor \in Nat
         /\ state.entries \in [Logicals -> Entries \cup {NoEntry}]
         /\ state.seq \in 0..MaxOps /\ state.seq \in Nat
BY SyncAssumption DEF States, Revisions

\* The fields of an entry of a state file.
LEMMA EntryFields ==
  ASSUME NEW state \in States, NEW l \in Known(state)
  PROVE  /\ l \in Logicals /\ state.entries[l] \in Entries
         /\ state.entries[l].path \in Paths /\ state.entries[l].content \in Contents
         /\ state.entries[l].revision \in Revisions
<1>1. l \in Logicals /\ state.entries[l] # NoEntry  BY DEF Known
<1>2. state.entries[l] \in Entries  BY <1>1, StateFields
<1> QED  BY <1>1, <1>2 DEF Entries

\* One more operation in the batch.
LEMMA ScanMore ==
  ASSUME NEW c, NEW acc, ScanInv(c, acc), NEW m, NEW db, NEW in \in Proposals, NEW x \in Contents,
         JournalInv(db), Grows(acc.db, db), db.ops = root.ops, m \in Logicals \cup {0},
         JournalInv(root), Sound(c, db, in, Len(acc.batch) + 1, x),
         NEW next,
         next = [ unmatched |-> acc.unmatched \ {m}, db |-> db, batch |-> Append(acc.batch, in),
                  about |-> Append(acc.about, x), used |-> acc.used \cup {m} ]
  PROVE  ScanInv(c, next)
<1>0. acc \in Accs  BY DEF ScanInv
<1>1. /\ acc.unmatched \in SUBSET Logicals /\ acc.db \in Journals
      /\ acc.batch \in Seq(Proposals) /\ acc.about \in Seq(Contents)
      /\ acc.used \in SUBSET (Logicals \cup {0})
      /\ Len(acc.batch) \in Nat /\ Len(acc.about) \in Nat
  BY <1>0, AccFields
<1> DEFINE batch == Append(acc.batch, in)
           about == Append(acc.about, x)
           n == Len(acc.batch)
<1>2. /\ batch \in Seq(Proposals) /\ Len(batch) = n + 1 /\ batch[n + 1] = in
      /\ \A k \in 1..n : batch[k] = acc.batch[k]
  BY <1>1
<1>3. Len(acc.about) = n  BY DEF ScanInv
<1>4. /\ about \in Seq(Contents) /\ Len(about) = n + 1 /\ about[n + 1] = x
      /\ \A k \in 1..n : about[k] = acc.about[k]
  BY <1>1, <1>3
<1>5. next = [ unmatched |-> acc.unmatched \ {m}, db |-> db, batch |-> batch,
               about |-> about, used |-> acc.used \cup {m} ]
  OBVIOUS
<1> HIDE DEF batch, about
<1>6. db \in Journals  BY DEF JournalInv
<1>7. /\ next \in Accs /\ next.unmatched = acc.unmatched \ {m} /\ next.db = db
      /\ next.batch = batch /\ next.about = about
  BY ONLY <1>1, <1>2, <1>4, <1>5, <1>6, m \in Logicals \cup {0} DEF Accs
<1>8. Grows(root, db)  BY GrowsThrough DEF ScanInv
<1>9. ASSUME NEW k \in 1..(n + 1)
      PROVE  Sound(c, db, batch[k], k, about[k])
  <2>1. CASE k = n + 1  BY <1>2, <1>4, <2>1
  <2>2. CASE k # n + 1
    <3>1. k \in 1..n  BY <1>1, <2>2
    <3>2. Sound(c, acc.db, acc.batch[k], k, acc.about[k])  BY <3>1 DEF ScanInv
    <3>3. JournalInv(acc.db)  BY DEF ScanInv
    <3>4. Sound(c, db, acc.batch[k], k, acc.about[k])  BY <3>2, <3>3, AboutStays DEF Sound
    <3> QED  BY <1>2, <1>4, <3>1, <3>4
  <2> QED  BY <2>1, <2>2
<1>10. next.unmatched \subseteq Known(mem[c])  BY <1>7 DEF ScanInv
<1> QED  BY <1>2, <1>4, <1>7, <1>8, <1>9, <1>10 DEF ScanInv

\* What a client has, when the invariant holds.
LEMMA ClientFacts ==
  ASSUME SyncInv, NEW c \in Desktops
  PROVE  /\ folder[c] \in [Paths -> Contents \cup {NoFile}]
         /\ disk[c] \in States /\ mem[c] \in States
         /\ Follows(root, disk[c]) /\ Follows(root, mem[c])
         /\ JournalInv(root) /\ root \in Journals
BY DEF SyncInv, ClientsTyped, JournalInv

\* A new item has a number, or 0 when the bound of the model is reached.
LEMMA FreshIdType ==
  ASSUME NEW db, NEW used
  PROVE  FreshId(db, used) \in Logicals \cup {0}
<1> DEFINE free == { l \in Logicals \ used : \A i \in DOMAIN db.ops : db.ops[i].logical # l }
<1>1. CASE free = {}  BY <1>1 DEF FreshId
<1>2. CASE free # {}
  <2>1. (CHOOSE l \in free : TRUE) \in free  BY <1>2
  <2> QED  BY <1>2, <2>1 DEF FreshId
<1> QED  BY <1>1, <1>2

\* One file of local_changes: a move, an upload or nothing, always sound.
LEMMA ScanOneKeeps ==
  ASSUME SyncInv, NEW c \in Desktops, NEW own \in Direct(c), NEW acc, ScanInv(c, acc),
         NEW p \in Present(c)
  PROVE  ScanInv(c, ScanOne(c, own, acc, p))
<1> DEFINE x       == folder[c][p]
           l       == own[p]
           entries == mem[c].entries
           moved   == { m \in acc.unmatched : entries[m].content = x }
           n       == Len(acc.batch) + 1
           next    == ScanOne(c, own, acc, p)
<1>1. /\ folder[c] \in [Paths -> Contents \cup {NoFile}] /\ mem[c] \in States
      /\ Follows(root, mem[c]) /\ JournalInv(root)
  BY ClientFacts
<1>2. p \in Paths /\ x \in Contents  BY <1>1 DEF Present
<1>3. l \in Known(mem[c]) \cup {0}
  <2>1. l \in (IF { m \in Known(mem[c]) : mem[c].entries[m].path = p } = {} THEN {0}
               ELSE { m \in Known(mem[c]) : mem[c].entries[m].path = p })
    BY DEF Direct
  <2> QED  BY <2>1
<1>4. acc \in Accs /\ JournalInv(acc.db) /\ acc.db.ops = root.ops /\ Grows(root, acc.db)
      /\ acc.unmatched \subseteq Known(mem[c])
  BY DEF ScanInv
<1>5. /\ acc.unmatched \in SUBSET Logicals /\ Len(acc.batch) \in Nat
      /\ acc = [ unmatched |-> acc.unmatched, db |-> acc.db, batch |-> acc.batch,
                 about |-> acc.about, used |-> acc.used ]
  <2>1. acc.unmatched \in SUBSET Logicals /\ Len(acc.batch) \in Nat  BY <1>4, AccFields
  <2> QED  BY <1>4, <2>1 DEF Accs
<1>6. mem[c].seq \in Nat /\ MaxOps \in Nat  BY <1>1, StateFields, SyncAssumption
<1>7. CASE l # 0 /\ Unchanged(folder[c], entries[l])
  <2>1. next = [ unmatched |-> acc.unmatched \ {l}, db |-> acc.db, batch |-> acc.batch,
                 about |-> acc.about, used |-> acc.used ]
    BY <1>5, <1>7 DEF ScanOne
  <2> HIDE DEF next
  <2>2. /\ next \in Accs /\ next.unmatched = acc.unmatched \ {l} /\ next.db = acc.db
        /\ next.batch = acc.batch /\ next.about = acc.about
    BY ONLY <1>4, <2>1 DEF Accs
  <2>3. next.unmatched \subseteq Known(mem[c])  BY <1>4, <2>2
  <2>4. ScanInv(c, next)
    BY <2>2, <2>3 DEF ScanInv
  <2> QED  BY <2>4 DEF next
<1>8. CASE ~ (l # 0 /\ Unchanged(folder[c], entries[l])) /\ moved # {}
  <2> DEFINE m == CHOOSE m \in moved : TRUE
             in == Proposal(c, n, "move", m, entries[m].revision, p, 0)
  <2>1. m \in moved  BY <1>8
  <2>2. next = [ unmatched |-> acc.unmatched \ {m}, db |-> acc.db,
                 batch |-> Append(acc.batch, in), about |-> Append(acc.about, x),
                 used |-> acc.used \cup {m} ]
    BY <1>5, <1>8 DEF ScanOne
  <2> HIDE DEF m
  <2>3. m \in Known(mem[c]) /\ entries[m].content = x  BY <1>4, <2>1
  <2>4. m \in Logicals /\ entries[m].revision \in Revisions  BY <1>1, <2>3, EntryFields
  <2>5. /\ in \in Proposals /\ in.client = c /\ in.seq = mem[c].seq + n /\ in.kind = "move"
        /\ in.logical = m /\ in.base = entries[m].revision /\ in.path = p /\ in.asset = 0
    BY <1>2, <1>5, <1>6, <2>4 DEF Proposal, Proposals
  <2>6. PICK i \in DoneTo(root, m) : Recorded(root, entries[m], m, i)
    BY <1>1, <2>3 DEF Follows
  <2>7. /\ i \in DoneTo(acc.db, m) /\ acc.db.ops[i] = root.ops[i]
        /\ acc.db.assets[root.ops[i].asset].content = root.assets[root.ops[i].asset].content
    BY <1>1, <1>4, <2>4, <2>6, DoneStays DEF Recorded
  <2>8. /\ acc.db.ops[i].cursor = in.base /\ acc.db.ops[i].asset # 0
        /\ acc.db.assets[acc.db.ops[i].asset].content = x
    BY <2>3, <2>5, <2>6, <2>7 DEF Recorded
  <2>9. Len(acc.db.assets) \in Nat  BY <1>4, AccFields, JournalSizes
  <2>10. in.seq <= MaxOps => Proposed(acc.db, in)
    BY <1>2, <1>5, <1>6, <2>4, <2>5, <2>9 DEF Proposed
  <2> HIDE DEF in
  <2>11. Sound(c, acc.db, in, n, x)
    BY <2>5, <2>7, <2>8, <2>10 DEF Sound, About
  <2>12. Grows(acc.db, acc.db)  BY <1>4, GrowsFromItself
  <2> HIDE DEF next, x
  <2>13. ScanInv(c, next)
    BY <1>1, <1>2, <1>4, <2>2, <2>4, <2>5, <2>11, <2>12, ScanMore
  <2> QED  BY <2>13 DEF next
<1>9. CASE ~ (l # 0 /\ Unchanged(folder[c], entries[l])) /\ moved = {}
  <2> DEFINE db == Upload(acc.db, x)
             m  == IF l # 0 THEN l ELSE FreshId(db, acc.used)
             base == IF l # 0 THEN entries[l].revision ELSE 0
             a == CHOOSE a \in Uploaded(db, x) : TRUE
             in == Proposal(c, n, "upsert", m, base, p, a)
  <2>1. next = [ unmatched |-> acc.unmatched \ {m}, db |-> db,
                 batch |-> Append(acc.batch, in), about |-> Append(acc.about, x),
                 used |-> acc.used \cup {m} ]
    BY <1>5, <1>9 DEF ScanOne
  <2>2. /\ JournalInv(db) /\ Grows(acc.db, db) /\ db.ops = acc.db.ops
        /\ \A b \in Uploaded(db, x) : b \in 1..Len(db.assets) /\ db.assets[b].content = x
        /\ Uploaded(db, x) # {}
    BY <1>2, <1>4, UploadKeeps
  <2>3. a \in 1..Len(db.assets) /\ db.assets[a].content = x
    <3>1. a \in Uploaded(db, x)  BY <2>2
    <3> QED  BY <2>2, <3>1
  <2>4. m \in Logicals \cup {0} /\ base \in Revisions
    <3>1. CASE l # 0
      <4>1. l \in Known(mem[c])  BY <1>3, <3>1
      <4>2. l \in Logicals /\ entries[l].revision \in Revisions  BY <1>1, <4>1, EntryFields
      <4> QED  BY <3>1, <4>2
    <3>2. CASE l = 0
      <4>1. FreshId(db, acc.used) \in Logicals \cup {0}  BY FreshIdType
      <4> QED  BY <3>2, <4>1, Numbers
    <3> QED  BY <3>1, <3>2
  <2> HIDE DEF db, m, base, a
  <2>5. db \in Journals  BY <2>2 DEF JournalInv
  <2>6. Len(db.assets) \in Nat  BY <2>5, JournalSizes
  <2>7. a \in Nat /\ a # 0 /\ a <= Len(db.assets)  BY <2>3, <2>6
  <2>8. /\ in \in Proposals /\ in.client = c /\ in.seq = mem[c].seq + n /\ in.kind = "upsert"
        /\ in.logical = m /\ in.base = base /\ in.path = p /\ in.asset = a
    BY <1>2, <1>5, <1>6, <2>4, <2>7 DEF Proposal, Proposals
  <2>9. in.logical # 0 /\ in.seq <= MaxOps => Proposed(db, in)
    BY <1>2, <1>5, <1>6, <2>4, <2>7, <2>8 DEF Proposed
  <2> HIDE DEF in
  <2>10. Sound(c, db, in, n, x)
    BY <2>3, <2>7, <2>8, <2>9 DEF Sound, About
  <2> HIDE DEF next, x
  <2>11. ScanInv(c, next)
    BY <1>1, <1>2, <1>4, <2>1, <2>2, <2>4, <2>8, <2>10, ScanMore
  <2> QED  BY <2>11 DEF next
<1> QED  BY <1>7, <1>8, <1>9

\* The content the k-th operation of a scan is about.
Meant(scan, k) == IF k <= Len(scan.about) THEN scan.about[k] ELSE NoFile

ScanSound(c, scan) ==
  /\ JournalInv(scan.db) /\ Grows(root, scan.db) /\ scan.db.ops = root.ops
  /\ scan.batch \in Seq(Proposals) /\ scan.about \in Seq(Contents)
  /\ \A k \in 1..Len(scan.batch) :
       /\ Sound(c, scan.db, scan.batch[k], k, Meant(scan, k))
       /\ k > Len(scan.about) => scan.batch[k].kind = "delete"

\* The scan of the files.
LEMMA ScannedKeeps ==
  ASSUME SyncInv, NEW c \in Desktops, NEW own \in Direct(c), NEW order \in SetToSeqs(Present(c))
  PROVE  ScanInv(c, Scanned(c, own, order))
<1> DEFINE n == Cardinality(Present(c))
           start == [ unmatched |-> Known(mem[c]), db |-> root, batch |-> << >>,
                      about |-> << >>, used |-> Known(mem[c]) ]
<1>1. n \in Nat
  <2>1. Present(c) \in SUBSET Paths  BY DEF Present
  <2>2. IsFiniteSet(Paths)  BY SyncAssumption
  <2> QED  BY <2>1, <2>2, FS_Subset, FS_CardinalityType
<1>2. order \in [1..n -> Present(c)]  BY DEF SetToSeqs
<1>3. DOMAIN order = 1..n  BY <1>2
<1> HIDE DEF n
<1>4. PICK run : /\ run[0] = start /\ run[n] = Scanned(c, own, order)
                 /\ \A i \in 1..n : run[i] = ScanOne(c, own, run[i - 1], order[i])
  BY <1>1, <1>3, ScanRun
<1> DEFINE G == { i \in 0..n : ScanInv(c, run[i]) }
<1>5. 0 \in G
  <2>1. JournalInv(root) /\ root \in Journals /\ Grows(root, root)
    BY ClientFacts, GrowsFromItself
  <2>2. Known(mem[c]) \in SUBSET Logicals  BY DEF Known
  <2>3. /\ start \in Accs /\ start.db = root /\ start.unmatched = Known(mem[c])
        /\ Len(start.batch) = 0 /\ Len(start.about) = 0
    BY <2>1, <2>2 DEF Accs
  <2> HIDE DEF start
  <2>4. ScanInv(c, start)  BY <2>1, <2>3 DEF ScanInv
  <2> QED  BY <1>1, <1>4, <2>4
<1>6. ASSUME NEW i \in 1..n, i - 1 \in G
      PROVE  i \in G
  <2>1. ScanInv(c, run[i - 1])  BY <1>6
  <2>2. order[i] \in Present(c)  BY <1>2
  <2>3. ScanInv(c, ScanOne(c, own, run[i - 1], order[i]))  BY <2>1, <2>2, ScanOneKeeps
  <2>4. ScanInv(c, run[i])  BY <1>4, <2>3
  <2> QED  BY <1>1, <2>4
<1> HIDE DEF G
<1>7. \A i \in 0..n : i \in G  BY ONLY <1>1, <1>5, <1>6, UpTo
<1>8. n \in G  BY <1>1, <1>7
<1> QED  BY <1>4, <1>8 DEF G

\* The deletes that follow.
LEMMA DeletesSound ==
  ASSUME SyncInv, NEW c \in Desktops, NEW db, JournalInv(db), NEW unmatched,
         unmatched \subseteq Known(mem[c]), NEW n \in Nat
  PROVE  /\ Deletes(c, unmatched, n) \in Seq(Proposals)
         /\ \A i \in 1..Len(Deletes(c, unmatched, n)) :
              /\ Deletes(c, unmatched, n)[i].kind = "delete"
              /\ Sound(c, db, Deletes(c, unmatched, n)[i], n + i, NoFile)
<1> DEFINE m == Cardinality(unmatched)
           Del(i) == LET l == SetToSeq(unmatched)[i]
                     IN Proposal(c, n + i, "delete", l, mem[c].entries[l].revision,
                                 mem[c].entries[l].path, 0)
<1>1. mem[c] \in States  BY ClientFacts
<1>2. IsFiniteSet(unmatched)
  <2>1. unmatched \in SUBSET (1..MaxLogical)  BY DEF Known, Logicals
  <2>2. IsFiniteSet(1..MaxLogical)  BY FS_Interval, SyncAssumption
  <2> QED  BY <2>1, <2>2, FS_Subset
<1>3. m \in Nat /\ SetToSeq(unmatched) \in [1..m -> unmatched]  BY <1>2, Listed
<1>4. mem[c].seq \in Nat /\ MaxOps \in Nat  BY <1>1, StateFields, SyncAssumption
<1>5. db \in Journals  BY DEF JournalInv
<1>6. Len(db.assets) \in Nat  BY <1>5, JournalSizes
<1> HIDE DEF m
<1>7. ASSUME NEW i \in 1..m
      PROVE  /\ Del(i) \in Proposals /\ Del(i).kind = "delete"
             /\ Sound(c, db, Del(i), n + i, NoFile)
  <2> DEFINE l == SetToSeq(unmatched)[i]
             in == Del(i)
  <2>1. l \in unmatched  BY <1>3
  <2>2. l \in Known(mem[c])  BY <2>1
  <2>3. /\ l \in Logicals /\ mem[c].entries[l].path \in Paths
        /\ mem[c].entries[l].revision \in Revisions
    BY <1>1, <2>2, EntryFields
  <2>4. in = Proposal(c, n + i, "delete", l, mem[c].entries[l].revision,
                      mem[c].entries[l].path, 0)
    OBVIOUS
  <2> HIDE DEF l, in
  <2>5. /\ in \in Proposals /\ in.client = c /\ in.seq = mem[c].seq + (n + i)
        /\ in.kind = "delete" /\ in.logical = l /\ in.base \in Revisions /\ in.path \in Paths
        /\ in.asset = 0
    BY <1>3, <1>4, <2>3, <2>4 DEF Proposal, Proposals
  <2>6. in.seq <= MaxOps => Proposed(db, in)
    BY <1>3, <1>4, <1>6, <2>3, <2>5 DEF Proposed
  <2>7. Sound(c, db, in, n + i, NoFile)  BY <2>5, <2>6 DEF Sound, About
  <2> QED  BY <2>5, <2>7 DEF in
<1>8. Deletes(c, unmatched, n) = [i \in 1..m |-> Del(i)]  BY DEF Deletes, m
<1> HIDE DEF Del
<1>9. Deletes(c, unmatched, n) \in Seq(Proposals) /\ Len(Deletes(c, unmatched, n)) = m
  BY <1>3, <1>7, <1>8
<1>10. \A i \in 1..m : Deletes(c, unmatched, n)[i] = Del(i)  BY <1>8
<1> QED  BY <1>7, <1>9, <1>10

\* Every batch that local_changes can return is sound, whatever the order of the files.
LEMMA ScanKeeps ==
  ASSUME SyncInv, NEW c \in Desktops, NEW scan \in Scans(c)
  PROVE  ScanSound(c, scan)
<1>1. PICK own \in Direct(c), order \in SetToSeqs(Present(c)) : scan = Proposes(c, own, order)
  BY DEF Scans
<1> DEFINE done == Scanned(c, own, order)
           dels == Deletes(c, done.unmatched, Len(done.batch))
           m == Len(done.batch)
<1>2. ScanInv(c, done)  BY ScannedKeeps
<1>3. scan.db = done.db /\ scan.about = done.about /\ scan.batch = done.batch \o dels
  BY <1>1 DEF Proposes
<1> HIDE DEF done
<1>4. done \in Accs /\ done.unmatched \subseteq Known(mem[c]) /\ Len(done.about) = m
      /\ JournalInv(done.db) /\ Grows(root, done.db) /\ done.db.ops = root.ops
  BY <1>2 DEF ScanInv
<1>5. done.batch \in Seq(Proposals) /\ done.about \in Seq(Contents) /\ m \in Nat
  BY <1>4, AccFields
<1>6. /\ dels \in Seq(Proposals)
      /\ \A i \in 1..Len(dels) : dels[i].kind = "delete" /\ Sound(c, done.db, dels[i], m + i, NoFile)
  BY <1>4, <1>5, DeletesSound
<1> HIDE DEF dels
<1>7. /\ scan.batch \in Seq(Proposals) /\ Len(scan.batch) = m + Len(dels) /\ Len(dels) \in Nat
      /\ \A k \in 1..m : scan.batch[k] = done.batch[k]
      /\ \A k \in 1..Len(dels) : scan.batch[m + k] = dels[k]
  BY <1>3, <1>5, <1>6
<1>8. ASSUME NEW k \in 1..Len(scan.batch)
      PROVE  /\ Sound(c, scan.db, scan.batch[k], k, Meant(scan, k))
             /\ k > Len(scan.about) => scan.batch[k].kind = "delete"
  <2>1. CASE k <= m
    <3>1. k \in 1..m  BY <1>5, <2>1
    <3>2. Sound(c, done.db, done.batch[k], k, done.about[k])  BY <1>2, <3>1 DEF ScanInv
    <3>3. Meant(scan, k) = done.about[k] /\ ~ (k > Len(scan.about))
      BY <1>3, <1>4, <1>5, <3>1 DEF Meant
    <3> QED  BY <1>3, <1>7, <3>1, <3>2, <3>3
  <2>2. CASE k > m
    <3> DEFINE i == k - m
    <3>1. i \in 1..Len(dels) /\ m + i = k  BY <1>5, <1>7, <2>2
    <3>2. Meant(scan, k) = NoFile  BY <1>3, <1>4, <1>5, <2>2 DEF Meant
    <3>3. scan.batch[k] = dels[i]
      <4>1. scan.batch[m + i] = dels[i]  BY <1>7, <3>1
      <4> QED  BY <3>1, <4>1
    <3>4. dels[i].kind = "delete" /\ Sound(c, done.db, dels[i], m + i, NoFile)  BY <1>6, <3>1
    <3> QED  BY <1>3, <3>1, <3>2, <3>3, <3>4
  <2> QED  BY <1>5, <1>7, <2>1, <2>2
<1> QED  BY <1>3, <1>4, <1>5, <1>7, <1>8 DEF ScanSound

-----------------------------------------------------------------------------
(* What a run makes of the answer to its push (apply_push_result).        *)

\* The answer to the i-th operation of a scan, entered into the state of the client.
Enter(state, before, after, scan, i) ==
  AcknowledgeOne(state, scan.batch[i], Meant(scan, i), Answer(before, after, scan.batch[i]))

\* The fold over the answers in apply_push_result, unfolded: one answer after the other.
LEMMA EnterRun ==
  ASSUME NEW state, NEW before, NEW after, NEW scan, NEW n \in Nat, DOMAIN scan.batch = 1..n
  PROVE  \E run : /\ run[0] = state /\ run[n] = Entered(state, before, after, scan)
                  /\ \A i \in 1..n : run[i] = Enter(run[i - 1], before, after, scan, i)
<1> DEFINE ids == [i \in DOMAIN scan.batch |-> i]
           Step(acc, i) == Enter(acc, before, after, scan, i)
           Eq(it, m) == it = [s \in SUBSET (1..m) |-> IF s = {} THEN state
                              ELSE Step(it[s \ {Max(s)}], ids[Max(s)])]
           G == { m \in Nat : \E it : Eq(it, m) }
<1>0. Entered(state, before, after, scan) = FoldLeft(LAMBDA acc, i : Step(acc, i), state, ids)
  BY DEF Entered, Enter, Meant
<1>11. DOMAIN ids = 1..n /\ \A i \in 1..n : ids[i] = i  OBVIOUS
<1> HIDE DEF ids, Step
<1>1. 0 \in G
  <2> DEFINE it == [s \in SUBSET (1..0) |-> state]
  <2>1. \A s \in SUBSET (1..0) : s = {}  OBVIOUS
  <2>2. Eq(it, 0)  BY <2>1
  <2> QED  BY <2>2
<1>2. ASSUME NEW i \in 1..n, i - 1 \in G
      PROVE  i \in G
  <2> DEFINE m == i - 1
  <2>0. m \in Nat /\ m + 1 = i  OBVIOUS
  <2>1. PICK it : Eq(it, m)  BY <1>2
  <2> DEFINE jt == [s \in SUBSET (1..i) |->
                      IF i \in s THEN Step(it[s \ {i}], ids[i]) ELSE it[s]]
  <2>2. ASSUME NEW s \in SUBSET (1..i)
        PROVE  jt[s] = IF s = {} THEN state ELSE Step(jt[s \ {Max(s)}], ids[Max(s)])
    <3>1. CASE i \in s
      <4>1. Max(s) = i /\ s \ {i} \in SUBSET (1..m)  BY <2>0, <3>1, MaxOfInitial
      <4>2. jt[s \ {i}] = it[s \ {i}]  BY <4>1
      <4> QED  BY <3>1, <4>1, <4>2
    <3>2. CASE i \notin s
      <4>1. s \in SUBSET (1..m)  BY <3>2
      <4>2. it[s] = IF s = {} THEN state ELSE Step(it[s \ {Max(s)}], ids[Max(s)])
        BY <2>1, <4>1
      <4>3. s \ {Max(s)} \in SUBSET (1..i) /\ i \notin s \ {Max(s)}  BY <3>2
      <4> QED  BY <3>2, <4>2, <4>3
    <3> QED  BY <3>1, <3>2
  <2>3. Eq(jt, i)  BY <2>2
  <2>4. i \in Nat  OBVIOUS
  <2> HIDE DEF Eq, jt
  <2> QED  BY <2>3, <2>4
<1> HIDE DEF Eq, G
<1>3. \A i \in 0..n : i \in G  BY ONLY <1>1, <1>2, UpTo, n \in Nat
<1>4. \E it : Eq(it, n)  BY <1>3 DEF G
<1> USE DEF Eq
<1> DEFINE It == CHOOSE it : it = [s \in SUBSET (DOMAIN ids) |-> IF s = {} THEN state
                              ELSE Step(it[s \ {Max(s)}], ids[Max(s)])]
<1>5. Entered(state, before, after, scan) = It[DOMAIN ids]
  BY <1>0 DEF FoldLeft, MapThenFoldSet
<1>6. It = [s \in SUBSET (DOMAIN ids) |-> IF s = {} THEN state
                              ELSE Step(It[s \ {Max(s)}], ids[Max(s)])]
  BY <1>4, <1>11
<1> HIDE DEF It
<1> DEFINE run == [i \in 0..n |-> It[1..i]]
<1>7. run[0] = state
  <2>1. 1..0 = {}  OBVIOUS
  <2> QED  BY <1>6, <2>1
<1>8. ASSUME NEW i \in 1..n
      PROVE  run[i] = Enter(run[i - 1], before, after, scan, i)
  <2> DEFINE m == i - 1
  <2>1. m \in Nat /\ m + 1 = i /\ i \in 1..i /\ 1..i \in SUBSET (1..n)  OBVIOUS
  <2>2. Max(1..i) = i  BY <2>1, MaxOfInitial
  <2>3. (1..i) \ {i} = 1..m  OBVIOUS
  <2>4. 1..i # {}  BY <2>1
  <2>5. It[1..i] = Step(It[(1..i) \ {Max(1..i)}], ids[Max(1..i)])
    BY <1>6, <1>11, <2>1, <2>4
  <2>6. run[i] = It[1..i] /\ run[m] = It[1..m]  OBVIOUS
  <2>7. run[i] = Step(run[m], i)  BY <1>11, <2>2, <2>3, <2>5, <2>6
  <2> QED  BY <2>7 DEF Step
<1>9. run[n] = Entered(state, before, after, scan)  BY <1>5, <1>11
<1> HIDE DEF run
<1> QED  BY <1>7, <1>8, <1>9

\* An entry is written, or removed.
EntryWritten(state, l, entry) == [state EXCEPT !.entries[l] = entry]

\* One entry of a state file is written, and the others stay.
LEMMA EntryPut ==
  ASSUME NEW state \in States, NEW l \in Logicals, NEW entry \in Entries \cup {NoEntry}
  PROVE  LET next == EntryWritten(state, l, entry)
         IN /\ next \in States /\ next.cursor = state.cursor /\ next.seq = state.seq
            /\ next.entries[l] = entry
            /\ \A m \in Logicals \ {l} : next.entries[m] = state.entries[m]
<1> DEFINE next == EntryWritten(state, l, entry)
<1>1. state.entries \in [Logicals -> Entries \cup {NoEntry}]  BY StateFields
<1>2. next = [ cursor |-> state.cursor, entries |-> [state.entries EXCEPT ![l] = entry],
               seq |-> state.seq ]
  BY DEF States, EntryWritten
<1>3. [state.entries EXCEPT ![l] = entry] \in [Logicals -> Entries \cup {NoEntry}]  BY <1>1
<1> HIDE DEF next
<1>4. next \in States /\ next.cursor = state.cursor /\ next.seq = state.seq
  BY <1>2, <1>3 DEF States
<1>5. next.entries = [state.entries EXCEPT ![l] = entry]  BY <1>2
<1>6. /\ next.entries[l] = entry
      /\ \A m \in Logicals \ {l} : next.entries[m] = state.entries[m]
  BY <1>1, <1>5
<1> QED  BY <1>4, <1>6 DEF next

\* A state file still follows the journal when an entry is removed, or written as
\* an applied operation of the journal says.
LEMMA FollowsPut ==
  ASSUME NEW db, NEW state \in States, Follows(db, state), NEW l \in Logicals,
         NEW entry \in Entries \cup {NoEntry},
         entry = NoEntry \/ \E i \in DoneTo(db, l) : Recorded(db, entry, l, i)
  PROVE  EntryWritten(state, l, entry) \in States /\ Follows(db, EntryWritten(state, l, entry))
<1> DEFINE next == EntryWritten(state, l, entry)
<1>1. /\ next \in States /\ next.entries[l] = entry
      /\ \A m \in Logicals \ {l} : next.entries[m] = state.entries[m]
  BY EntryPut
<1> HIDE DEF next
<1>2. ASSUME NEW m \in Known(next)
      PROVE  \E i \in DoneTo(db, m) : Recorded(db, next.entries[m], m, i)
  <2>1. m \in Logicals /\ next.entries[m] # NoEntry  BY DEF Known
  <2>2. CASE m = l  BY <1>1, <2>1, <2>2
  <2>3. CASE m # l
    <3>1. next.entries[m] = state.entries[m]  BY <1>1, <2>1, <2>3
    <3>2. m \in Known(state)  BY <2>1, <3>1 DEF Known
    <3> QED  BY <3>1, <3>2 DEF Follows
  <2> QED  BY <2>2, <2>3
<1>3. Follows(db, next)  BY <1>2 DEF Follows
<1> QED  BY <1>1, <1>3 DEF next

\* What a state file says stays true when the journal goes on.
LEMMA FollowsStays ==
  ASSUME NEW db, NEW later, JournalInv(db), JournalInv(later), Grows(db, later), NEW state,
         Follows(db, state)
  PROVE  Follows(later, state)
<1>1. ASSUME NEW l \in Known(state)
      PROVE  \E i \in DoneTo(later, l) : Recorded(later, state.entries[l], l, i)
  <2>1. PICK i \in DoneTo(db, l) : Recorded(db, state.entries[l], l, i)  BY DEF Follows
  <2>2. l \in Logicals  BY DEF Known
  <2>3. /\ i \in DoneTo(later, l) /\ later.ops[i] = db.ops[i]
        /\ later.assets[db.ops[i].asset].content = db.assets[db.ops[i].asset].content
    BY <2>1, <2>2, DoneStays DEF Recorded
  <2>4. Recorded(later, state.entries[l], l, i)  BY <2>1, <2>3 DEF Recorded
  <2> QED  BY <2>3, <2>4
<1> QED  BY <1>1 DEF Follows

\* The push of a scan: what PushChanges asks of it.
Pushable(scan) ==
  /\ scan.batch # << >> /\ Len(root.ops) + Len(scan.batch) <= MaxOps
  /\ \A i \in DOMAIN scan.batch : scan.batch[i].logical # 0
  /\ scan.batch[Len(scan.batch)].seq <= MaxOps

\* Every operation of the batch can be pushed.
LEMMA PushableSound ==
  ASSUME NEW c, mem[c] \in States, NEW scan, ScanSound(c, scan), Pushable(scan)
  PROVE  /\ Len(scan.batch) \in Nat \ {0} /\ DOMAIN scan.batch = 1..Len(scan.batch)
         /\ \A k \in 1..Len(scan.batch) :
              /\ About(scan.db, scan.batch[k], Meant(scan, k))
              /\ scan.batch[k].client = c /\ scan.batch[k].seq = mem[c].seq + k
              /\ scan.batch[k].seq \in 0..MaxOps
<1> DEFINE n == Len(scan.batch)
<1>1. scan.batch \in Seq(Proposals)  BY DEF ScanSound
<1>2. n \in Nat \ {0} /\ DOMAIN scan.batch = 1..n  BY <1>1 DEF Pushable
<1>3. mem[c].seq \in Nat /\ MaxOps \in Nat  BY StateFields, SyncAssumption
<1>4. \A k \in 1..n : scan.batch[k].seq = mem[c].seq + k  BY DEF ScanSound, Sound
<1>5. n \in 1..n /\ mem[c].seq + n <= MaxOps  BY <1>2, <1>4 DEF Pushable
<1> HIDE DEF n
<1>6. ASSUME NEW k \in 1..n
      PROVE  /\ About(scan.db, scan.batch[k], Meant(scan, k))
             /\ scan.batch[k].client = c /\ scan.batch[k].seq = mem[c].seq + k
             /\ scan.batch[k].seq \in 0..MaxOps
  <2>1. Sound(c, scan.db, scan.batch[k], k, Meant(scan, k))  BY DEF ScanSound, n
  <2>2. scan.batch[k].seq = mem[c].seq + k  BY <1>4
  <2>3. k \in Nat /\ k <= n  BY <1>2
  <2>4. scan.batch[k].seq \in 0..MaxOps  BY <1>2, <1>3, <1>5, <2>2, <2>3
  <2>5. scan.batch[k].logical # 0  BY <1>2 DEF Pushable
  <2>6. scan.batch[k].seq <= MaxOps  BY <2>4, <1>3
  <2> QED  BY <2>1, <2>2, <2>4, <2>5, <2>6 DEF Sound
<1> QED  BY <1>2, <1>6 DEF n

\* An answer is entered as the journal has it.
LEMMA EnterKeeps ==
  ASSUME NEW c, mem[c] \in States, NEW scan, ScanSound(c, scan), Pushable(scan),
         NEW after, NEW about,
         PushStep(scan.db, after, scan.batch, about, Len(scan.batch)),
         \A k \in 1..Len(scan.batch) : about[k] = Meant(scan, k),
         NEW state \in States, Follows(after, state), NEW i \in 1..Len(scan.batch)
  PROVE  LET next == Enter(state, scan.db, after, scan, i)
         IN next \in States /\ Follows(after, next)
<1> DEFINE before == scan.db
           n == Len(scan.batch)
           in == scan.batch[i]
           x == Meant(scan, i)
           answer == Answer(before, after, in)
           next == Enter(state, before, after, scan, i)
<1>1. /\ n \in Nat /\ DOMAIN scan.batch = 1..n
      /\ About(before, in, x) /\ in.client = c /\ in.seq = mem[c].seq + i
      /\ \A k \in 1..n : scan.batch[k].client = c /\ scan.batch[k].seq = mem[c].seq + k
  BY PushableSound
<1>2. JournalInv(before) /\ JournalInv(after) /\ Grows(before, after)
  BY DEF PushStep, ScanSound
<1>3. before \in Journals /\ after \in Journals  BY <1>2 DEF JournalInv
<1>4. /\ Len(before.ops) \in Nat /\ Len(after.ops) \in Nat
      /\ DOMAIN before.ops = 1..Len(before.ops) /\ DOMAIN after.ops = 1..Len(after.ops)
  BY <1>3, JournalSizes
<1>5. next = AcknowledgeOne(state, in, x, answer)  BY DEF Enter
<1>6. mem[c].seq \in Nat  BY StateFields
<1>7. in.logical \in Logicals /\ in.path \in Paths  BY <1>1 DEF About, Proposed
<1>8. CASE \A op \in answer : op.status # "applied"
  <2>1. next = state  BY <1>5, <1>8 DEF AcknowledgeOne
  <2> QED  BY <2>1
<1>9. CASE \E op \in answer : op.status = "applied"
  <2>1. /\ Duplicates(before, in) = {}
        /\ answer = { after.ops[j] : j \in Duplicates(after, in) }
    BY <1>9 DEF Answer
  <2>2. PICK j \in Duplicates(after, in) : after.ops[j].status = "applied"
    BY <1>9, <2>1
  <2>3. j \in 1..Len(after.ops) /\ after.ops[j].client = in.client /\ after.ops[j].seq = in.seq
    BY <1>4, <2>2 DEF Duplicates
  <2>4. \A m \in Duplicates(after, in) : m = j
    <3>1. ASSUME NEW m \in Duplicates(after, in) PROVE m = j
      <4>1. m \in 1..Len(after.ops) /\ after.ops[m].client = in.client /\ after.ops[m].seq = in.seq
        BY <1>4 DEF Duplicates
      <4> QED  BY <1>2, <2>3, <4>1 DEF JournalInv, PlacesDiffer
    <3> QED  BY <3>1
  <2>5. answer = { after.ops[j] }  BY <2>1, <2>2, <2>4
  <2>6. (CHOOSE op \in answer : TRUE) = after.ops[j]  BY <2>5
  <2>7. j > Len(before.ops)
    <3>1. SUFFICES ASSUME j \in 1..Len(before.ops) PROVE FALSE  BY <1>4, <2>3
    <3>2. after.ops[j] = before.ops[j]  BY <3>1 DEF PushStep
    <3>3. j \in Duplicates(before, in)  BY <1>4, <2>3, <3>1, <3>2 DEF Duplicates
    <3> QED  BY <2>1, <3>3
  <2>8. PICK k \in 1..n : Pushed(after, j, scan.batch[k], about[k])
    BY <2>3, <2>7 DEF PushStep
  <2>9. k = i
    <3>1. mem[c].seq + k = mem[c].seq + i  BY <1>1, <2>3, <2>8 DEF Pushed
    <3>2. k \in Nat /\ i \in Nat  BY <1>1
    <3> QED  BY <1>6, <3>1, <3>2
  <2>10. Pushed(after, j, in, x)  BY <2>8, <2>9
  <2>11. CASE in.kind = "delete"
    <3>1. next = EntryWritten(state, in.logical, NoEntry)
      BY <1>5, <1>9, <2>11 DEF AcknowledgeOne, Forget, EntryWritten
    <3>2. NoEntry \in Entries \cup {NoEntry}  OBVIOUS
    <3> DEFINE l == in.logical
    <3> HIDE DEF l
    <3>3. EntryWritten(state, l, NoEntry) \in States /\ Follows(after, EntryWritten(state, l, NoEntry))
      BY <1>7, <3>2, FollowsPut DEF l
    <3> QED  BY <3>1, <3>3 DEF l
  <2>12. CASE in.kind # "delete"
    <3> DEFINE entry == [ path |-> in.path, content |-> x, revision |-> after.ops[j].cursor ]
    <3>1. next = EntryWritten(state, in.logical, entry)
      BY <1>5, <1>9, <2>6, <2>12 DEF AcknowledgeOne, EntryWritten
    <3>2. x \in Contents
      <4>1. ~ (i > Len(scan.about)) /\ scan.about \in Seq(Contents)
        BY <2>12 DEF ScanSound
      <4>2. i \in 1..Len(scan.about)  BY <1>1, <4>1
      <4>3. x = scan.about[i]  BY <1>1, <4>1, <4>2 DEF Meant
      <4> QED  BY <4>1, <4>2, <4>3
    <3>3. after.ops[j].cursor \in Revisions  BY <1>3, <2>3, OpsOf, OperationFields
    <3>4. /\ entry \in Entries /\ entry.path = in.path /\ entry.content = x
          /\ entry.revision = after.ops[j].cursor
      BY <1>7, <3>2, <3>3 DEF Entries
    <3> HIDE DEF entry
    <3>5. Recorded(after, entry, in.logical, j)
      BY <2>2, <2>10, <2>12, <3>4 DEF Recorded, Pushed
    <3>6. j \in DoneTo(after, in.logical)
      BY <2>2, <2>3, <2>10 DEF DoneTo, Done, Pushed
    <3> DEFINE l == in.logical
    <3> HIDE DEF l
    <3>7. EntryWritten(state, l, entry) \in States /\ Follows(after, EntryWritten(state, l, entry))
      BY <1>7, <3>4, <3>5, <3>6, FollowsPut DEF l
    <3> QED  BY <3>1, <3>7 DEF l
  <2> QED  BY <2>11, <2>12
<1> QED  BY <1>8, <1>9

\* A push, and what the client makes of the answer.
LEMMA PushChangesKeeps ==
  ASSUME SyncInv, NEW c \in Desktops, NEW scan \in Scans(c), Pushable(scan)
  PROVE  LET db    == Push(scan.db, scan.batch)
             state == Acknowledged(mem[c], scan.db, db, scan)
         IN /\ JournalInv(db) /\ Grows(root, db) /\ Len(db.ops) <= MaxOps
            /\ state \in States /\ Follows(db, state)
<1> DEFINE n == Len(scan.batch)
           db == Push(scan.db, scan.batch)
           about == [k \in 1..n |-> Meant(scan, k)]
           done == Entered(mem[c], scan.db, db, scan)
           state == Acknowledged(mem[c], scan.db, db, scan)
<1>1. mem[c] \in States /\ Follows(root, mem[c]) /\ JournalInv(root)  BY ClientFacts
<1>2. ScanSound(c, scan)  BY ScanKeeps
<1>3. JournalInv(scan.db) /\ Grows(root, scan.db) /\ scan.db.ops = root.ops
  BY <1>2 DEF ScanSound
<1>4. /\ n \in Nat /\ n # 0 /\ DOMAIN scan.batch = 1..n
      /\ \A k \in 1..n : About(scan.db, scan.batch[k], Meant(scan, k))
      /\ \A k \in 1..n : scan.batch[k].seq \in 0..MaxOps
  BY <1>1, <1>2, PushableSound
<1>5. \A k \in 1..n : about[k] = Meant(scan, k)  OBVIOUS
<1> HIDE DEF about, n, db
<1>6. PushStep(scan.db, db, scan.batch, about, n)
  <2>1. Len(scan.db.ops) + n <= MaxOps  BY <1>3 DEF Pushable, n
  <2>2. \A k \in 1..n : About(scan.db, scan.batch[k], about[k])  BY <1>4, <1>5
  <2>3. PushStep(scan.db, Push(scan.db, scan.batch), scan.batch, about, n)
    BY <1>3, <1>4, <2>1, <2>2, PushKeeps
  <2> QED  BY <2>3 DEF db
<1>7. JournalInv(db) /\ Grows(scan.db, db) /\ Len(db.ops) <= Len(scan.db.ops) + n
  BY <1>6 DEF PushStep
<1>8. Grows(root, db)  BY <1>1, <1>3, <1>7, GrowsThrough
<1>9. Len(db.ops) <= MaxOps
  <2>1. db \in Journals /\ root \in Journals  BY <1>1, <1>7 DEF JournalInv
  <2>2. Len(db.ops) \in Nat /\ Len(root.ops) \in Nat /\ MaxOps \in Nat
    BY <2>1, JournalSizes, SyncAssumption
  <2>3. Len(root.ops) + n <= MaxOps  BY DEF Pushable, n
  <2> QED  BY <1>3, <1>4, <1>7, <2>2, <2>3
<1>10. PICK run : /\ run[0] = mem[c] /\ run[n] = done
                  /\ \A i \in 1..n : run[i] = Enter(run[i - 1], scan.db, db, scan, i)
  BY <1>4, EnterRun
<1> HIDE DEF done
<1> DEFINE G == { i \in 0..n : run[i] \in States /\ Follows(db, run[i]) }
<1>11. 0 \in G
  <2>1. Follows(db, mem[c])  BY <1>1, <1>7, <1>8, FollowsStays
  <2> QED  BY <1>1, <1>4, <1>10, <2>1
<1>12. ASSUME NEW i \in 1..n, i - 1 \in G
       PROVE  i \in G
  <2>1. run[i - 1] \in States /\ Follows(db, run[i - 1])  BY <1>12
  <2> DEFINE old == run[i - 1]
  <2> HIDE DEF old
  <2>2. old \in States /\ Follows(db, old)  BY <2>1 DEF old
  <2> DEFINE next == Enter(old, scan.db, db, scan, i)
  <2>3. next \in States /\ Follows(db, next)
    BY <1>1, <1>2, <1>5, <1>6, <2>2, EnterKeeps DEF n
  <2>4. run[i] = next  BY <1>10 DEF old
  <2> QED  BY <1>4, <2>3, <2>4
<1> HIDE DEF G
<1>13. \A i \in 0..n : i \in G  BY ONLY <1>4, <1>11, <1>12, UpTo
<1>14. n \in G  BY <1>4, <1>13
<1>15. done \in States /\ Follows(db, done)  BY <1>10, <1>14 DEF G
<1>16. db.cursor \in Revisions /\ scan.batch[n].seq \in 0..MaxOps
  <2>1. db \in Journals  BY <1>7 DEF JournalInv
  <2>2. n \in 1..n  BY <1>4
  <2> QED  BY <1>4, <2>1, <2>2, JournalsFields
<1> DEFINE q == scan.batch[n].seq
<1>17. state = [done EXCEPT !.cursor = db.cursor, !.seq = q]  BY DEF Acknowledged, done, n
<1> HIDE DEF state, q
<1>18. state \in States /\ state.entries = done.entries
  BY <1>15, <1>16, <1>17 DEF States, q
<1>19. Follows(db, state)
  <2>1. Known(state) = Known(done)  BY <1>18 DEF Known
  <2> QED  BY <1>15, <1>18, <2>1 DEF Follows
<1> QED  BY <1>7, <1>8, <1>9, <1>18, <1>19 DEF state, db

-----------------------------------------------------------------------------
(* What a run makes of the answer to its pull (pull_remote).              *)

\* An answer of the server is in the order of the cursors.
LEMMA SinceOrdered ==
  ASSUME NEW db, JournalInv(db), NEW cursor
  PROVE  LET S == Since(db, cursor)
         IN /\ S \in Seq(Operations) /\ Len(S) \in Nat
            /\ \A n \in 1..Len(S) : \E i \in 1..Len(db.ops) :
                 S[n] = db.ops[i] /\ db.ops[i].cursor > cursor
            /\ \A m, n \in 1..Len(S) : m < n => S[m].cursor < S[n].cursor
<1> DEFINE new == { i \in DOMAIN db.ops : db.ops[i].cursor > cursor }
           Upto(i) == { j \in new : db.ops[j].cursor <= db.ops[i].cursor }
           place == [i \in new |-> Cardinality(Upto(i))]
           N == Cardinality(new)
           size == IF N < Limit THEN N ELSE Limit
           At(n) == CHOOSE i \in new : Cardinality(Upto(i)) = n
           S == Since(db, cursor)
<1>0. db \in Journals  BY DEF JournalInv
<1>1. Len(db.ops) \in Nat /\ DOMAIN db.ops = 1..Len(db.ops)  BY <1>0, JournalSizes
<1>2. new \in SUBSET (1..Len(db.ops)) /\ \A i \in new : db.ops[i].cursor > cursor  BY <1>1
<1>3. \A i \in new : db.ops[i].cursor \in Nat /\ db.ops[i] \in Operations
  BY <1>0, <1>2, OpsOf
<1>4. \A i, j \in new : db.ops[i].cursor = db.ops[j].cursor => i = j
  BY <1>2 DEF JournalInv, PlacesDiffer
<1>5. S = [n \in 1..size |-> db.ops[At(n)]]  BY DEF Since
<1>6. IsFiniteSet(new) /\ N \in Nat
  <2> HIDE DEF new
  <2>1. 1 \in Int /\ Len(db.ops) \in Int  BY <1>1
  <2>2. IsFiniteSet(1..Len(db.ops))  BY ONLY <2>1, FS_Interval
  <2> QED  BY <1>2, <2>2, FS_Subset, FS_CardinalityType
<1> HIDE DEF new, S
<1>7. size \in Nat /\ size <= N
  <2>1. Limit \in Nat  BY SyncAssumption
  <2> HIDE DEF N
  <2> QED  BY <1>6, <2>1
<1>8. ASSUME NEW i \in new
      PROVE  /\ Upto(i) \in SUBSET new /\ i \in Upto(i) /\ IsFiniteSet(Upto(i))
             /\ Cardinality(Upto(i)) \in 1..N
  <2>1. Upto(i) \in SUBSET new  OBVIOUS
  <2>2. i \in Upto(i)  BY <1>3
  <2> DEFINE U == Upto(i)
  <2> HIDE DEF Upto
  <2>3. IsFiniteSet(U) /\ Cardinality(U) <= N  BY <1>6, <2>1, FS_Subset
  <2>4. Cardinality(U) \in Nat  BY <2>3, FS_CardinalityType
  <2>5. Cardinality(U) # 0  BY <2>2, <2>3, FS_EmptySet
  <2> QED  BY <1>6, <2>1, <2>2, <2>3, <2>4, <2>5
<1>9. ASSUME NEW i \in new, NEW j \in new, db.ops[i].cursor < db.ops[j].cursor
      PROVE  Cardinality(Upto(i)) < Cardinality(Upto(j))
  <2>1. Upto(i) \subseteq Upto(j)  BY <1>3, <1>9
  <2>2. j \in Upto(j) /\ j \notin Upto(i)  BY <1>3, <1>9
  <2>3. IsFiniteSet(Upto(i)) /\ IsFiniteSet(Upto(j))  BY <1>8
  <2>4. Cardinality(Upto(i)) \in Nat /\ Cardinality(Upto(j)) \in Nat  BY <1>6, <1>8
  <2> HIDE DEF Upto
  <2>5. /\ Cardinality(Upto(i)) <= Cardinality(Upto(j))
        /\ Cardinality(Upto(i)) = Cardinality(Upto(j)) => Upto(i) = Upto(j)
    BY <2>1, <2>3, FS_Subset
  <2> QED  BY <2>2, <2>4, <2>5
<1>10. \A i, j \in new : Cardinality(Upto(i)) = Cardinality(Upto(j)) => i = j
  <2>1. ASSUME NEW i \in new, NEW j \in new, Cardinality(Upto(i)) = Cardinality(Upto(j)), i # j
        PROVE  FALSE
    <3>1. db.ops[i].cursor < db.ops[j].cursor \/ db.ops[j].cursor < db.ops[i].cursor
      BY <1>3, <1>4, <2>1
    <3>2. Cardinality(Upto(i)) \in Nat /\ Cardinality(Upto(j)) \in Nat  BY <1>6, <1>8
    <3> HIDE DEF Upto
    <3> QED  BY <1>9, <2>1, <3>1, <3>2
  <2> QED  BY <2>1
<1> HIDE DEF Upto, N, size
<1>11. place \in Injection(new, 1..N)  BY <1>8, <1>10 DEF Injection, IsInjective
<1>12. place \in Surjection(new, 1..N)
  <2>1. IsFiniteSet(1..N) /\ Cardinality(1..N) = N  BY <1>6, FS_Interval
  <2> HIDE DEF place
  <2>2. Cardinality(new) = Cardinality(1..N)  BY <2>1 DEF N
  <2> QED  BY <1>11, <2>1, <2>2, FS_Injection
<1>13. \A n \in 1..size : At(n) \in new /\ Cardinality(Upto(At(n))) = n
  <2>1. ASSUME NEW n \in 1..size
        PROVE  At(n) \in new /\ Cardinality(Upto(At(n))) = n
    <3>1. n \in 1..N  BY <1>6, <1>7
    <3>2. \E i \in new : place[i] = n  BY <1>12, <3>1 DEF Surjection
    <3>3. \E i \in new : Cardinality(Upto(i)) = n  BY <3>2
    <3> QED  BY <3>3
  <2> QED  BY <2>1
<1> HIDE DEF At, place
<1>14. S \in Seq(Operations) /\ Len(S) = size  BY <1>3, <1>5, <1>7, <1>13
<1>15. \A n \in 1..size : S[n] = db.ops[At(n)]  BY <1>5
<1>16. \A n \in 1..size : \E i \in 1..Len(db.ops) : S[n] = db.ops[i] /\ db.ops[i].cursor > cursor
  BY <1>2, <1>13, <1>15
<1>17. ASSUME NEW m \in 1..size, NEW n \in 1..size, m < n
       PROVE  S[m].cursor < S[n].cursor
  <2>1. At(m) \in new /\ At(n) \in new  BY <1>13
  <2>2. At(m) # At(n)  BY <1>7, <1>13, <1>17
  <2>3. ~ (db.ops[At(n)].cursor < db.ops[At(m)].cursor)
    <3>1. SUFFICES ASSUME db.ops[At(n)].cursor < db.ops[At(m)].cursor PROVE FALSE  OBVIOUS
    <3>2. Cardinality(Upto(At(n))) < Cardinality(Upto(At(m)))  BY <1>9, <2>1, <3>1
    <3>3. n < m  BY <1>13, <3>2
    <3> QED  BY <1>7, <1>17, <3>3
  <2>4. db.ops[At(n)].cursor # db.ops[At(m)].cursor  BY <1>4, <2>1, <2>2
  <2> QED  BY <1>3, <1>15, <2>1, <2>3, <2>4
<1> QED  BY <1>7, <1>14, <1>16, <1>17 DEF S

\* The fold over the answer in pull_remote, unfolded: one operation after the other.
LEMMA PullRun ==
  ASSUME NEW c, NEW m, NEW n \in Nat,
         DOMAIN SubSeq(Since(root, disk[c].cursor), 1, m) = 1..n
  PROVE  \E run : /\ run[0] = [ state |-> disk[c], files |-> folder[c], ok |-> TRUE ]
                  /\ run[n] = Pulled(c, m)
                  /\ \A i \in 1..n :
                       run[i] = PullOne(c, run[i - 1], SubSeq(Since(root, disk[c].cursor), 1, m)[i])
<1> DEFINE start == [ state |-> disk[c], files |-> folder[c], ok |-> TRUE ]
           ops == SubSeq(Since(root, disk[c].cursor), 1, m)
           Eq(it, k) == it = [s \in SUBSET (1..k) |-> IF s = {} THEN start
                              ELSE PullOne(c, it[s \ {Max(s)}], ops[Max(s)])]
           G == { k \in Nat : \E it : Eq(it, k) }
<1>0. Pulled(c, m) = FoldLeft(LAMBDA acc, op : PullOne(c, acc, op), start, ops)
  BY DEF Pulled
<1>11. DOMAIN ops = 1..n  OBVIOUS
<1> HIDE DEF start, ops
<1>1. 0 \in G
  <2> DEFINE it == [s \in SUBSET (1..0) |-> start]
  <2>1. \A s \in SUBSET (1..0) : s = {}  OBVIOUS
  <2>2. Eq(it, 0)  BY <2>1
  <2> QED  BY <2>2
<1>2. ASSUME NEW i \in 1..n, i - 1 \in G
      PROVE  i \in G
  <2> DEFINE k == i - 1
  <2>0. k \in Nat /\ k + 1 = i  OBVIOUS
  <2>1. PICK it : Eq(it, k)  BY <1>2
  <2> DEFINE jt == [s \in SUBSET (1..i) |->
                      IF i \in s THEN PullOne(c, it[s \ {i}], ops[i]) ELSE it[s]]
  <2>2. ASSUME NEW s \in SUBSET (1..i)
        PROVE  jt[s] = IF s = {} THEN start ELSE PullOne(c, jt[s \ {Max(s)}], ops[Max(s)])
    <3>1. CASE i \in s
      <4>1. Max(s) = i /\ s \ {i} \in SUBSET (1..k)  BY <2>0, <3>1, MaxOfInitial
      <4>2. jt[s \ {i}] = it[s \ {i}]  BY <4>1
      <4> QED  BY <3>1, <4>1, <4>2
    <3>2. CASE i \notin s
      <4>1. s \in SUBSET (1..k)  BY <3>2
      <4>2. it[s] = IF s = {} THEN start ELSE PullOne(c, it[s \ {Max(s)}], ops[Max(s)])
        BY <2>1, <4>1
      <4>3. s \ {Max(s)} \in SUBSET (1..i) /\ i \notin s \ {Max(s)}  BY <3>2
      <4> QED  BY <3>2, <4>2, <4>3
    <3> QED  BY <3>1, <3>2
  <2>3. Eq(jt, i)  BY <2>2
  <2>4. i \in Nat  OBVIOUS
  <2> HIDE DEF Eq, jt
  <2> QED  BY <2>3, <2>4
<1> HIDE DEF Eq, G
<1>3. \A i \in 0..n : i \in G  BY ONLY <1>1, <1>2, UpTo, n \in Nat
<1>4. \E it : Eq(it, n)  BY <1>3 DEF G
<1> USE DEF Eq
<1> DEFINE It == CHOOSE it : it = [s \in SUBSET (DOMAIN ops) |-> IF s = {} THEN start
                              ELSE PullOne(c, it[s \ {Max(s)}], ops[Max(s)])]
<1>5. Pulled(c, m) = It[DOMAIN ops]
  BY <1>0 DEF FoldLeft, MapThenFoldSet
<1>6. It = [s \in SUBSET (DOMAIN ops) |-> IF s = {} THEN start
                              ELSE PullOne(c, It[s \ {Max(s)}], ops[Max(s)])]
  BY <1>4, <1>11
<1> HIDE DEF It
<1> DEFINE run == [i \in 0..n |-> It[1..i]]
<1>7. run[0] = start
  <2>1. 1..0 = {}  OBVIOUS
  <2> QED  BY <1>6, <2>1
<1>8. ASSUME NEW i \in 1..n
      PROVE  run[i] = PullOne(c, run[i - 1], ops[i])
  <2> DEFINE k == i - 1
  <2>1. k \in Nat /\ k + 1 = i /\ i \in 1..i /\ 1..i \in SUBSET (1..n)  OBVIOUS
  <2>2. Max(1..i) = i  BY <2>1, MaxOfInitial
  <2>3. (1..i) \ {i} = 1..k  OBVIOUS
  <2>4. 1..i # {}  BY <2>1
  <2>5. It[1..i] = PullOne(c, It[(1..i) \ {Max(1..i)}], ops[Max(1..i)])
    BY <1>6, <1>11, <2>1, <2>4
  <2>6. run[i] = It[1..i] /\ run[k] = It[1..k]  OBVIOUS
  <2> QED  BY <2>2, <2>3, <2>5, <2>6
<1>9. run[n] = Pulled(c, m)  BY <1>5, <1>11
<1> HIDE DEF run
<1>10. /\ run[0] = start /\ run[n] = Pulled(c, m)
       /\ \A i \in 1..n : run[i] = PullOne(c, run[i - 1], ops[i])
  BY <1>7, <1>8, <1>9
<1> QED  BY <1>10 DEF start, ops

\* The applied operations of the properties and of the invariant are the same.
LEMMA AppliedIsDone ==
  ASSUME JournalInv(root), NEW l
  PROVE  AppliedTo(l) = DoneTo(root, l)
<1>1. root \in Journals  BY DEF JournalInv
<1>2. DOMAIN root.ops = 1..Len(root.ops)  BY <1>1, JournalSizes
<1> QED  BY <1>2 DEF AppliedTo, DoneTo, Done

Folders == [Paths -> Contents \cup {NoFile}]
Pulls == [ state : States, files : Folders, ok : BOOLEAN ]

\* An operation of an answer, with its place in the journal.
InAnswer(c, op) ==
  \E d \in 1..Len(root.ops) : op = root.ops[d] /\ op.cursor > disk[c].cursor

\* What RemovalIsSafe says of a file that is removed.
Removable(c, p) ==
  \E l \in Known(disk[c]) : \E i \in AppliedTo(l) :
    /\ disk[c].entries[l].path = p
    /\ root.ops[i].kind = "delete" /\ root.ops[i].client # c
    /\ root.ops[i].cursor > disk[c].cursor
    /\ \/ Replaced(c, p, i)
       \/ \E a \in DOMAIN root.assets :
            root.assets[a].logical = l /\ root.assets[a].content = folder[c][p]

\* Operation op has entered an entry of l, or put a file at p.
Entering(op, l) ==
  /\ op.logical = l /\ op.status = "applied" /\ op.asset # 0 /\ Active(root, op.asset)
Putting(c, op, p) ==
  op.status = "applied" /\ op.kind # "delete" /\ op.client # c /\ op.path = p

\* The state and the files after i operations of an answer.
PullInv(c, acc, ops, i) ==
  /\ acc \in Pulls /\ Follows(root, acc.state)
  /\ \A l \in Logicals :
       \/ acc.state.entries[l] = disk[c].entries[l] \/ acc.state.entries[l] = NoEntry
       \/ \E k \in 1..i : Entering(ops[k], l)
  /\ \A p \in Paths :
       \/ acc.files[p] = folder[c][p]
       \/ acc.files[p] # NoFile /\ \E k \in 1..i : Putting(c, ops[k], p)
       \/ folder[c][p] # NoFile => Removable(c, p)

\* One operation changes one entry and one file.
LEMMA PullChange ==
  ASSUME NEW c, NEW acc, NEW ops, NEW i \in Nat, i # 0, PullInv(c, acc, ops, i - 1),
         NEW l \in Logicals, NEW entry \in Entries \cup {NoEntry},
         NEW p \in Paths, NEW x \in Contents \cup {NoFile},
         entry = NoEntry \/ (Entering(ops[i], l)
                             /\ \E d \in DoneTo(root, l) : Recorded(root, entry, l, d)),
         \/ x # NoFile /\ Putting(c, ops[i], p)
         \/ folder[c][p] # NoFile => Removable(c, p)
  PROVE  PullInv(c, [ state |-> EntryWritten(acc.state, l, entry),
                      files |-> [acc.files EXCEPT ![p] = x], ok |-> acc.ok ], ops, i)
<1> DEFINE state == EntryWritten(acc.state, l, entry)
           files == [acc.files EXCEPT ![p] = x]
           next == [ state |-> state, files |-> files, ok |-> acc.ok ]
<1>1. acc.state \in States /\ acc.files \in Folders /\ acc.ok \in BOOLEAN /\ Follows(root, acc.state)
  BY DEF PullInv, Pulls
<1>2. /\ state \in States /\ state.entries[l] = entry
      /\ \A m \in Logicals \ {l} : state.entries[m] = acc.state.entries[m]
  BY <1>1, EntryPut
<1>3. Follows(root, state)  BY <1>1, FollowsPut
<1>4. files \in Folders /\ files[p] = x /\ \A q \in Paths \ {p} : files[q] = acc.files[q]
  BY <1>1 DEF Folders
<1> HIDE DEF state, files
<1>5. next \in Pulls /\ next.state = state /\ next.files = files  BY <1>1, <1>2, <1>4 DEF Pulls
<1> HIDE DEF next
<1>6. i \in 1..i /\ \A k \in 1..(i - 1) : k \in 1..i  OBVIOUS
<1>7. ASSUME NEW m \in Logicals
      PROVE  \/ state.entries[m] = disk[c].entries[m] \/ state.entries[m] = NoEntry
             \/ \E k \in 1..i : Entering(ops[k], m)
  <2>1. CASE m = l  BY <1>2, <1>6, <2>1
  <2>2. CASE m # l  BY <1>2, <1>6, <2>2 DEF PullInv
  <2> QED  BY <2>1, <2>2
<1>8. ASSUME NEW q \in Paths
      PROVE  \/ files[q] = folder[c][q]
             \/ files[q] # NoFile /\ \E k \in 1..i : Putting(c, ops[k], q)
             \/ folder[c][q] # NoFile => Removable(c, q)
  <2>1. CASE q = p  BY <1>4, <1>6, <2>1
  <2>2. CASE q # p  BY <1>4, <1>6, <2>2 DEF PullInv
  <2> QED  BY <2>1, <2>2
<1> QED  BY <1>3, <1>5, <1>7, <1>8 DEF PullInv, next, state, files

\* An operation of an answer that changes no file and no entry.
LEMMA PullSame ==
  ASSUME NEW c, NEW acc, NEW ops, NEW i \in Nat, i # 0, PullInv(c, acc, ops, i - 1), NEW ok \in BOOLEAN
  PROVE  PullInv(c, [acc EXCEPT !.ok = ok], ops, i) /\ PullInv(c, acc, ops, i)
<1> DEFINE next == [acc EXCEPT !.ok = ok]
<1>1. acc \in Pulls  BY DEF PullInv
<1>2. next \in Pulls /\ next.state = acc.state /\ next.files = acc.files  BY <1>1 DEF Pulls
<1>3. \A k \in 1..(i - 1) : k \in 1..i  OBVIOUS
<1> HIDE DEF next
<1> QED  BY <1>2, <1>3 DEF PullInv, next

\* A file that a delete finds unchanged can be removed.
LEMMA DeleteRemoves ==
  ASSUME JournalInv(root), NEW c, disk[c] \in States, NEW acc, NEW ops, NEW i \in Nat, i # 0,
         PullInv(c, acc, ops, i - 1), \A k \in 1..i : InAnswer(c, ops[k]),
         \A k \in 1..(i - 1) : ops[k].cursor < ops[i].cursor,
         NEW l \in Logicals, ops[i].logical = l, ops[i].status = "applied", ops[i].kind = "delete",
         ops[i].client # c, acc.state.entries[l] # NoEntry,
         Unchanged(acc.files, acc.state.entries[l]),
         folder[c][acc.state.entries[l].path] # NoFile
  PROVE  Removable(c, acc.state.entries[l].path)
<1>a. acc.state.entries[l] = disk[c].entries[l]
  <2>1. \/ acc.state.entries[l] = disk[c].entries[l] \/ acc.state.entries[l] = NoEntry
        \/ \E k \in 1..(i - 1) : Entering(ops[k], l)
    BY DEF PullInv
  <2>2. ASSUME NEW k \in 1..(i - 1), Entering(ops[k], l) PROVE FALSE
    <3>2. k \in 1..i /\ i \in 1..i  OBVIOUS
    <3>3. PICK a \in 1..Len(root.ops) : ops[k] = root.ops[a]  BY <3>2 DEF InAnswer
    <3>4. PICK b \in 1..Len(root.ops) : ops[i] = root.ops[b]  BY <3>2 DEF InAnswer
    <3>5. a \in Done(root) /\ b \in Done(root)  BY <2>2, <3>3, <3>4 DEF Done, Entering
    <3>6. root.ops[a].cursor < root.ops[b].cursor  BY <2>2, <3>3, <3>4
    <3>7. root.assets[root.ops[a].asset].state # "active"
      BY <2>2, <3>3, <3>4, <3>5, <3>6 DEF JournalInv, OpsOwn, Entering
    <3> QED  BY <2>2, <3>3, <3>7 DEF Entering, Active
  <2> QED  BY <2>1, <2>2
<1> DEFINE entry == acc.state.entries[l]
           p == entry.path
<1>0. root \in Journals  BY DEF JournalInv
<1>1. DOMAIN root.ops = 1..Len(root.ops) /\ DOMAIN root.assets = 1..Len(root.assets)
      /\ Len(root.assets) \in Nat
  BY <1>0, JournalSizes
<1>2. i \in 1..i /\ \A k \in 1..(i - 1) : k \in 1..i  OBVIOUS
<1>3. PICK d \in 1..Len(root.ops) : ops[i] = root.ops[d] /\ ops[i].cursor > disk[c].cursor
  BY <1>2 DEF InAnswer
<1>4. entry = disk[c].entries[l]  BY <1>a
<1>5. l \in Known(disk[c])  BY <1>4 DEF Known
<1>6. acc.state \in States /\ Follows(root, acc.state)  BY DEF PullInv, Pulls
<1>7. l \in Known(acc.state)  BY DEF Known
<1>8. p \in Paths  BY <1>6, <1>7, EntryFields
<1>9. d \in AppliedTo(l)  BY <1>1, <1>3 DEF AppliedTo
<1>10. acc.files[p] = entry.content  BY DEF Unchanged
<1>14. /\ disk[c].entries[l].path = p /\ root.ops[d].kind = "delete"
       /\ root.ops[d].client # c /\ root.ops[d].cursor > disk[c].cursor
  BY <1>3, <1>4
<1> HIDE DEF p, entry
<1>11. \/ acc.files[p] = folder[c][p]
       \/ \E k \in 1..(i - 1) : Putting(c, ops[k], p)
       \/ Removable(c, p)
  BY <1>8 DEF PullInv, p, entry
<1>12. CASE acc.files[p] = folder[c][p]
  <2>1. PICK j \in DoneTo(root, l) : Recorded(root, entry, l, j)
    BY <1>6, <1>7 DEF Follows, entry
  <2> DEFINE a == root.ops[j].asset
  <2>2. a # 0 /\ root.assets[a].content = entry.content  BY <2>1 DEF Recorded
  <2>3. j \in 1..Len(root.ops) /\ j \in Done(root) /\ root.ops[j].logical = l
    BY DEF DoneTo, Done
  <2>4. a \in Nat /\ a <= Len(root.assets)
    BY <1>0, <2>3, OpsOf DEF JournalInv, AssetsThere
  <2>5. a \in DOMAIN root.assets  BY <1>1, <2>2, <2>4
  <2>6. root.assets[a].logical = l  BY <2>2, <2>3 DEF JournalInv, OpsOwn
  <2>7. root.assets[a].content = folder[c][p]  BY <1>10, <1>12, <2>2
  <2> HIDE DEF a
  <2>8. Removable(c, p)
    BY ONLY <1>5, <1>9, <1>14, <2>5, <2>6, <2>7 DEF Removable
  <2> QED  BY <2>8 DEF p, entry
<1>13. CASE \E k \in 1..(i - 1) : Putting(c, ops[k], p)
  <2>1. PICK k \in 1..(i - 1) : Putting(c, ops[k], p)  BY <1>13
  <2>2. PICK j \in 1..Len(root.ops) : ops[k] = root.ops[j] /\ ops[k].cursor > disk[c].cursor
    BY <1>2 DEF InAnswer
  <2>3. ops[k].cursor < ops[i].cursor  OBVIOUS
  <2>4. Replaced(c, p, d)
    BY <1>1, <1>3, <2>1, <2>2, <2>3 DEF Replaced, Putting
  <2>5. Removable(c, p)
    BY ONLY <1>5, <1>9, <1>14, <2>4 DEF Removable
  <2> QED  BY <2>5 DEF p, entry
<1> QED  BY <1>11, <1>12, <1>13 DEF p, entry

\* One operation in pull_remote: it writes a file, moves it, removes it, enters it or
\* is passed over, and in each case the state file still follows the journal.
LEMMA PullOneKeeps ==
  ASSUME SyncInv, NEW c \in Desktops, NEW acc, NEW ops, NEW i \in Nat, i # 0,
         PullInv(c, acc, ops, i - 1), \A k \in 1..i : InAnswer(c, ops[k]),
         \A k \in 1..(i - 1) : ops[k].cursor < ops[i].cursor
  PROVE  PullInv(c, PullOne(c, acc, ops[i]), ops, i)
<1> DEFINE op == ops[i]
           l == op.logical
           entry == acc.state.entries[l]
           next == PullOne(c, acc, op)
<1>1. JournalInv(root) /\ root \in Journals /\ disk[c] \in States  BY ClientFacts
<1>2. i \in 1..i  OBVIOUS
<1>3. PICK d \in 1..Len(root.ops) : op = root.ops[d] /\ op.cursor > disk[c].cursor
  BY <1>2 DEF InAnswer
<1>4. op \in Operations  BY <1>1, <1>3, OpsOf
<1>5. /\ l \in Logicals /\ op.path \in Paths /\ op.cursor \in Revisions /\ op.asset \in Nat
      /\ op.kind \in {"upsert", "move", "delete"}
  BY <1>4, OperationFields
<1>6. acc \in Pulls /\ acc.state \in States /\ Follows(root, acc.state)  BY DEF PullInv, Pulls
<1>7. acc = [ state |-> acc.state, files |-> acc.files, ok |-> acc.ok ]  BY <1>6 DEF Pulls
<1>8. PullInv(c, acc, ops, i) /\ PullInv(c, [acc EXCEPT !.ok = FALSE], ops, i)
  BY PullSame
<1>9. CASE ~ acc.ok \/ op.status # "applied" \/ op.client = c
  BY <1>8, <1>9 DEF PullOne
<1>10. CASE acc.ok /\ op.status = "applied" /\ op.client # c /\ op.kind = "delete"
  <2>1. next = PullDelete(c, acc, op)  BY <1>10 DEF PullOne
  <2>2. CASE entry = NoEntry \/ ~ Unchanged(acc.files, entry)
    BY <1>8, <2>1, <2>2 DEF PullDelete
  <2>3. CASE entry # NoEntry /\ Unchanged(acc.files, entry)
    <3> DEFINE p == entry.path
               out == [ state |-> EntryWritten(acc.state, l, NoEntry),
                        files |-> [acc.files EXCEPT ![p] = NoFile], ok |-> acc.ok ]
    <3>1. l \in Known(acc.state)  BY <1>5, <2>3 DEF Known
    <3>2. p \in Paths  BY <1>6, <3>1, EntryFields
    <3>3. folder[c][p] # NoFile => Removable(c, p)
      BY <1>1, <1>5, <1>10, <2>3, DeleteRemoves
    <3>4. NoEntry \in Entries \cup {NoEntry} /\ NoFile \in Contents \cup {NoFile}  OBVIOUS
    <3>5. next = out
      BY <1>7, <2>1, <2>3 DEF PullDelete, Forget, EntryWritten
    <3> HIDE DEF p, entry, l
    <3>6. PullInv(c, out, ops, i)
      BY <1>5, <3>2, <3>3, <3>4, PullChange
    <3> HIDE DEF out, next
    <3>7. PullInv(c, next, ops, i)  BY <3>5, <3>6
    <3> QED  BY <3>7 DEF next, op
  <2> QED  BY <2>2, <2>3
<1>11. CASE acc.ok /\ op.status = "applied" /\ op.client # c /\ op.kind # "delete"
  <2>1. next = PullFile(c, acc, op)  BY <1>11 DEF PullOne
  <2>2. CASE op.asset = 0 \/ (entry # NoEntry /\ ~ Unchanged(acc.files, entry))
    BY <1>8, <2>1, <2>2 DEF PullFile
  <2>3. CASE /\ ~ (op.asset = 0 \/ (entry # NoEntry /\ ~ Unchanged(acc.files, entry)))
             /\ ~ Active(root, op.asset)
    BY <1>8, <2>1, <2>3 DEF PullFile
  <2>4. CASE /\ ~ (op.asset = 0 \/ (entry # NoEntry /\ ~ Unchanged(acc.files, entry)))
             /\ Active(root, op.asset)
    <3> DEFINE x == root.assets[op.asset].content
               new == [ path |-> op.path, content |-> x, revision |-> op.cursor ]
               p == op.path
               out == [ state |-> EntryWritten(acc.state, l, new),
                        files |-> [acc.files EXCEPT ![p] = x], ok |-> acc.ok ]
    <3>1. next = out
      BY <1>7, <2>1, <2>4 DEF PullFile, EntryWritten
    <3>2. op.asset # 0 /\ op.asset <= Len(root.assets) /\ Len(root.assets) \in Nat
      BY <1>1, <1>3, <2>4, JournalSizes DEF JournalInv, AssetsThere
    <3>3. op.asset \in 1..Len(root.assets)  BY <1>5, <3>2
    <3>4. x \in Contents
      <4>1. root.assets[op.asset] \in Assets  BY <1>1, <3>3, JournalsFields
      <4> QED  BY <4>1, AssetFields
    <3>5. x # NoFile  BY <3>4, DesktopAssumption
    <3>6. /\ new \in Entries /\ new.path = op.path /\ new.content = x /\ new.revision = op.cursor
      BY <1>5, <3>4 DEF Entries
    <3> HIDE DEF new, x
    <3>7. d \in DoneTo(root, l)  BY <1>3, <1>11 DEF DoneTo, Done
    <3>8. Recorded(root, new, l, d)  BY <1>3, <2>4, <3>6 DEF Recorded, x
    <3>9. Entering(ops[i], l)  BY <1>11, <2>4 DEF Entering
    <3>10. Putting(c, ops[i], p)  BY <1>11 DEF Putting
    <3> HIDE DEF p, l
    <3>11. p \in Paths /\ new \in Entries \cup {NoEntry} /\ x \in Contents \cup {NoFile}
      BY <1>5, <3>4, <3>6 DEF p
    <3>12. PullInv(c, out, ops, i)
      BY <1>5, <3>5, <3>7, <3>8, <3>9, <3>10, <3>11, PullChange
    <3> HIDE DEF out, next
    <3>13. PullInv(c, next, ops, i)  BY <3>1, <3>12
    <3> QED  BY <3>13 DEF next, op
  <2> QED  BY <2>2, <2>3, <2>4
<1> QED  BY <1>9, <1>10, <1>11

\* What a pull leaves after the first m operations of an answer.
LEMMA PulledKeeps ==
  ASSUME SyncInv, NEW c \in Desktops, NEW m \in 0..Offered(c)
  PROVE  \E ops : PullInv(c, Pulled(c, m), ops, m)
<1> DEFINE S == Since(root, disk[c].cursor)
           ops == SubSeq(S, 1, m)
<1>1. JournalInv(root) /\ disk[c] \in States /\ folder[c] \in Folders
      /\ Follows(root, disk[c])
  BY ClientFacts DEF Folders
<1>2. /\ S \in Seq(Operations) /\ Len(S) \in Nat
      /\ \A n \in 1..Len(S) : \E i \in 1..Len(root.ops) :
           S[n] = root.ops[i] /\ root.ops[i].cursor > disk[c].cursor
      /\ \A k, n \in 1..Len(S) : k < n => S[k].cursor < S[n].cursor
  BY <1>1, SinceOrdered
<1>3. m \in Nat /\ m <= Len(S)  BY <1>2 DEF Offered
<1> HIDE DEF S
<1>4. DOMAIN ops = 1..m /\ \A k \in 1..m : ops[k] = S[k] /\ k \in 1..Len(S)
  BY <1>2, <1>3
<1>5. PICK run : /\ run[0] = [ state |-> disk[c], files |-> folder[c], ok |-> TRUE ]
                 /\ run[m] = Pulled(c, m)
                 /\ \A i \in 1..m : run[i] = PullOne(c, run[i - 1], ops[i])
  <2>1. DOMAIN SubSeq(Since(root, disk[c].cursor), 1, m) = 1..m  BY <1>4 DEF S
  <2> HIDE DEF ops
  <2>2. m \in Nat  BY <1>3
  <2>3. \E run : /\ run[0] = [ state |-> disk[c], files |-> folder[c], ok |-> TRUE ]
                 /\ run[m] = Pulled(c, m)
                 /\ \A i \in 1..m :
                      run[i] = PullOne(c, run[i - 1], SubSeq(Since(root, disk[c].cursor), 1, m)[i])
    BY ONLY <2>1, <2>2, PullRun
  <2>4. ops = SubSeq(Since(root, disk[c].cursor), 1, m)  BY DEF ops, S
  <2> QED  BY <2>3, <2>4
<1> HIDE DEF ops
<1>6. \A k \in 1..m : InAnswer(c, ops[k])  BY <1>2, <1>4 DEF InAnswer
<1>7. \A k, n \in 1..m : k < n => ops[k].cursor < ops[n].cursor  BY <1>2, <1>4
<1> DEFINE G == { i \in 0..m : PullInv(c, run[i], ops, i) }
<1>8. 0 \in G
  <2> DEFINE start == [ state |-> disk[c], files |-> folder[c], ok |-> TRUE ]
  <2>1. start \in Pulls /\ start.state = disk[c] /\ start.files = folder[c]
    BY <1>1 DEF Pulls
  <2>2. run[0] = start  BY <1>5
  <2> HIDE DEF start
  <2>3. PullInv(c, start, ops, 0)  BY <1>1, <2>1 DEF PullInv
  <2> QED  BY <1>3, <2>2, <2>3
<1>9. ASSUME NEW i \in 1..m, i - 1 \in G
      PROVE  i \in G
  <2>1. PullInv(c, run[i - 1], ops, i - 1)  BY <1>9
  <2>2. i \in Nat /\ i # 0 /\ i \in 1..m  BY <1>3
  <2>3. \A k \in 1..i : k \in 1..m  BY <1>3
  <2>4. \A k \in 1..(i - 1) : k \in 1..m /\ k < i  BY <1>3
  <2>5. \A k \in 1..i : InAnswer(c, ops[k])  BY <1>6, <2>3
  <2>6. \A k \in 1..(i - 1) : ops[k].cursor < ops[i].cursor  BY <1>7, <2>2, <2>4
  <2> DEFINE acc == run[i - 1]
  <2> HIDE DEF acc
  <2>7. PullInv(c, acc, ops, i - 1)  BY <2>1 DEF acc
  <2>8. PullInv(c, PullOne(c, acc, ops[i]), ops, i)
    BY <2>2, <2>5, <2>6, <2>7, PullOneKeeps
  <2>9. run[i] = PullOne(c, acc, ops[i])  BY <1>5 DEF acc
  <2> QED  BY <1>3, <2>8, <2>9
<1> HIDE DEF G
<1>10. \A i \in 0..m : i \in G  BY ONLY <1>3, <1>8, <1>9, UpTo
<1>11. m \in G  BY <1>3, <1>10
<1> QED  BY <1>5, <1>11 DEF G

-----------------------------------------------------------------------------
(* The steps of the specification.                                        *)

\* An empty root and empty folders.
LEMMA InvInit ==
  ASSUME DesktopInit
  PROVE  SyncInv
<1>1. root = [ cursor |-> 0, ops |-> << >>, items |-> [l \in Logicals |-> NoItem],
               assets |-> << >> ]
  BY DEF DesktopInit, SyncInit
<1>2. /\ root \in Journals /\ Len(root.ops) = 0 /\ Len(root.assets) = 0 /\ root.cursor = 0
      /\ \A l \in Logicals : ~ Exists(root.items[l])
  BY <1>1, Numbers DEF Journals, Exists
<1>3. Done(root) = {} /\ \A l \in Logicals : DoneTo(root, l) = {}
  BY <1>2 DEF Done, DoneTo
<1>4. Budget(root)
  <2>1. Cardinality(Done(root)) \in Nat  BY <1>2, DoneFinite
  <2> QED  BY <1>2, <2>1 DEF Budget
<1>5. PlacesDiffer(root) /\ AssetsThere(root) /\ OneActive(root) /\ OwnHistory(root)
  BY <1>2 DEF PlacesDiffer, AssetsThere, OneActive, OwnHistory
<1>6. ItemsFollow(root) /\ OpsOwn(root)  BY <1>2, <1>3 DEF ItemsFollow, OpsOwn
<1>7. JournalInv(root)  BY <1>2, <1>4, <1>5, <1>6 DEF JournalInv
<1>8. /\ NewState \in States /\ Known(NewState) = {}
  <2>1. 0 \in 0..MaxOps  BY SyncAssumption
  <2>2. NewState \in States  BY <2>1, Numbers DEF NewState, States
  <2>3. \A l \in Logicals : NewState.entries[l] = NoEntry  BY DEF NewState
  <2> QED  BY <2>2, <2>3 DEF Known
<1>9. \A c \in Desktops : disk[c] = NewState /\ mem[c] = NewState
  BY DEF DesktopInit
<1>10. \A c \in Desktops : Follows(root, disk[c]) /\ Follows(root, mem[c])
  BY <1>8, <1>9 DEF Follows
<1>11. ClientsTyped
  <2>1. 0 \in 0..MaxEdits /\ 0 \in 0..MaxDeaths  BY DesktopAssumption
  <2>2. disk \in [Desktops -> States] /\ mem \in [Desktops -> States]
    BY <1>8 DEF DesktopInit
  <2>3. /\ folder \in [Desktops -> [Paths -> Contents \cup {NoFile}]]
        /\ stage \in [Desktops -> {"off", "pulled", "pushed"}]
        /\ edits = 0 /\ deaths = 0
    BY DEF DesktopInit
  <2> QED  BY <2>1, <2>2, <2>3 DEF ClientsTyped
<1>12. Len(root.ops) <= MaxOps  BY <1>2, SyncAssumption
<1> QED  BY <1>7, <1>10, <1>11, <1>12 DEF SyncInv

\* The server goes on and no computer changes.
LEMMA ServerGoesOn ==
  ASSUME SyncInv, JournalInv(root'), Grows(root, root'), Len(root'.ops) = Len(root.ops),
         UNCHANGED << folder, disk, mem, stage, deaths >>, edits' \in 0..MaxEdits
  PROVE  SyncInv'
<1>1. ClientsTyped'  BY DEF SyncInv, ClientsTyped
<1>2. \A c \in Desktops : Follows(root, disk[c]) /\ Follows(root, mem[c])  BY DEF SyncInv
<1>3. JournalInv(root)  BY DEF SyncInv
<1>4. ASSUME NEW c \in Desktops
      PROVE  Follows(root', disk'[c]) /\ Follows(root', mem'[c])
  <2>1. Follows(root', disk[c]) /\ Follows(root', mem[c])
    BY <1>2, <1>3, FollowsStays
  <2> QED  BY <2>1
<1>5. Len(root'.ops) <= MaxOps  BY DEF SyncInv
<1> QED  BY <1>1, <1>4, <1>5 DEF SyncInv

\* resolve_conflict, in favour of either side.
LEMMA DecideKeeps ==
  ASSUME SyncInv, Decide
  PROVE  SyncInv' /\ Grows(root, root')
<1>1. PICK i \in DOMAIN root.ops : root.cursor < 2 * MaxOps /\ (KeepLocal(i) \/ KeepRemote(i))
  BY DEF Decide
<1>2. JournalInv(root) /\ root \in Journals  BY DEF SyncInv, JournalInv
<1>3. i \in 1..Len(root.ops)  BY <1>2, JournalSizes
<1>4. edits' \in 0..MaxEdits /\ UNCHANGED << folder, disk, mem, stage, deaths >>
  BY DEF Decide, desktop, SyncInv, ClientsTyped
<1>5. CASE KeepLocal(i)
  <2> DEFINE done == Applied(root, root.ops[i], root.cursor + 1)
  <2>1. LocalKept(root, root', i, done)  BY <1>1, <1>5 DEF KeepLocal, LocalKept
  <2> HIDE DEF done
  <2>3. JournalInv(root') /\ Grows(root, root') /\ Len(root'.ops) = Len(root.ops)
    BY ONLY <1>2, <1>3, <2>1, KeepLocalKeeps
  <2> QED  BY <1>4, <2>3, ServerGoesOn
<1>6. CASE KeepRemote(i)
  <2>1. root.ops[i].status = "conflict" /\ root' = [root EXCEPT !.ops[i].status = "rejected"]
    BY <1>6 DEF KeepRemote
  <2>2. JournalInv(root') /\ Grows(root, root') /\ Len(root'.ops) = Len(root.ops)
    BY ONLY <1>2, <1>3, <2>1, KeepRemoteKeeps
  <2> QED  BY <1>4, <2>2, ServerGoesOn
<1> QED  BY <1>1, <1>5, <1>6

\* An item is put into the trash in the web application.
LEMMA TrashKeeps ==
  ASSUME SyncInv, Trash
  PROVE  SyncInv' /\ Grows(root, root')
<1>1. PICK a \in DOMAIN root.assets : root' = [root EXCEPT !.assets[a].state = "trashed"]
  BY DEF Trash, WebTrash
<1>2. JournalInv(root) /\ root \in Journals  BY DEF SyncInv, JournalInv
<1>3. a \in 1..Len(root.assets)  BY <1>2, JournalSizes
<1>4. JournalInv(root') /\ Grows(root, root') /\ Len(root'.ops) = Len(root.ops)
  BY ONLY <1>1, <1>2, <1>3, WebTrashKeeps
<1>5. edits' \in 0..MaxEdits
  BY DesktopAssumption DEF Trash, SyncInv, ClientsTyped
<1>6. UNCHANGED << folder, disk, mem, stage, deaths >>  BY DEF Trash
<1> QED  BY <1>4, <1>5, <1>6, ServerGoesOn

\* A computer goes on and the server does not change.
LEMMA ComputerGoesOn ==
  ASSUME SyncInv, NEW c \in Desktops, root' = root,
         NEW files \in [Paths -> Contents \cup {NoFile}], NEW file, NEW state, NEW now,
         file \in States, Follows(root, file), state \in States, Follows(root, state),
         now \in {"off", "pulled", "pushed"},
         folder' = [folder EXCEPT ![c] = files], disk' = [disk EXCEPT ![c] = file],
         mem' = [mem EXCEPT ![c] = state], stage' = [stage EXCEPT ![c] = now],
         edits' \in 0..MaxEdits, deaths' \in 0..MaxDeaths
  PROVE  SyncInv'
<1>1. ClientsTyped'  BY DEF SyncInv, ClientsTyped
<1>2. ASSUME NEW d \in Desktops
      PROVE  Follows(root, disk'[d]) /\ Follows(root, mem'[d])
  <2>1. disk \in [Desktops -> States] /\ mem \in [Desktops -> States]
    BY DEF SyncInv, ClientsTyped
  <2>2. CASE d = c
    <3>1. disk'[d] = file /\ mem'[d] = state  BY <2>1, <2>2
    <3> QED  BY <3>1
  <2>3. CASE d # c
    <3>1. disk'[d] = disk[d] /\ mem'[d] = mem[d]  BY <2>1, <2>3
    <3>2. Follows(root, disk[d]) /\ Follows(root, mem[d])  BY DEF SyncInv
    <3> QED  BY <3>1, <3>2
  <2> QED  BY <2>2, <2>3
<1>3. JournalInv(root') /\ Len(root'.ops) <= MaxOps  BY DEF SyncInv
<1>4. \A d \in Desktops : Follows(root', disk'[d]) /\ Follows(root', mem'[d])
  BY <1>2
<1> QED  BY <1>1, <1>3, <1>4 DEF SyncInv

\* Nothing of a variable changes.
LEMMA Same ==
  ASSUME SyncInv, NEW c \in Desktops
  PROVE  /\ folder = [folder EXCEPT ![c] = folder[c]] /\ disk = [disk EXCEPT ![c] = disk[c]]
         /\ mem = [mem EXCEPT ![c] = mem[c]] /\ stage = [stage EXCEPT ![c] = stage[c]]
         /\ folder[c] \in [Paths -> Contents \cup {NoFile}] /\ disk[c] \in States
         /\ mem[c] \in States /\ stage[c] \in {"off", "pulled", "pushed"}
         /\ Follows(root, disk[c]) /\ Follows(root, mem[c])
         /\ edits \in 0..MaxEdits /\ deaths \in 0..MaxDeaths
BY DEF SyncInv, ClientsTyped

\* What a pull leaves, whole or in part.
LEMMA PulledSound ==
  ASSUME SyncInv, NEW c \in Desktops, NEW m \in 0..Offered(c)
  PROVE  /\ Pulled(c, m) \in Pulls /\ Follows(root, Pulled(c, m).state)
         /\ Pulled(c, m).files \in [Paths -> Contents \cup {NoFile}]
         /\ \A p \in Paths :
              folder[c][p] # NoFile /\ Pulled(c, m).files[p] = NoFile => Removable(c, p)
<1>1. PICK ops : PullInv(c, Pulled(c, m), ops, m)  BY PulledKeeps
<1> QED  BY <1>1 DEF PullInv, Pulls, Folders

\* The number of operations an answer holds.
LEMMA OfferedNumber ==
  ASSUME SyncInv, NEW c \in Desktops
  PROVE  Offered(c) \in Nat /\ Offered(c) \in 0..Offered(c)
<1>1. JournalInv(root)  BY DEF SyncInv
<1>2. Offered(c) \in Nat  BY <1>1, SinceOrdered DEF Offered
<1> QED  BY <1>2

\* A pull that ends, and saves its state.
LEMMA PullKeeps ==
  ASSUME SyncInv, NEW c \in Desktops, Pull(c)
  PROVE  SyncInv'
<1> DEFINE done == Pulled(c, Offered(c))
           state == [done.state EXCEPT !.cursor = root.cursor]
<1>1. done \in Pulls /\ Follows(root, done.state)
      /\ done.files \in [Paths -> Contents \cup {NoFile}]
  BY OfferedNumber, PulledSound
<1>2. /\ folder' = [folder EXCEPT ![c] = done.files] /\ mem' = [mem EXCEPT ![c] = state]
      /\ stage' = [stage EXCEPT ![c] = "pulled"]
      /\ root' = root /\ disk' = disk /\ edits' = edits /\ deaths' = deaths
  BY DEF Pull
<1>3. root.cursor \in Revisions  BY ClientFacts, JournalsFields
<1> HIDE DEF done
<1>4. done.state \in States  BY <1>1 DEF Pulls
<1>5. state \in States /\ state.entries = done.state.entries  BY <1>3, <1>4 DEF States
<1> HIDE DEF state
<1>6. Follows(root, state)
  <2>1. Known(state) = Known(done.state)  BY <1>5 DEF Known
  <2> QED  BY <1>1, <1>5, <2>1 DEF Follows
<1>7. disk' = [disk EXCEPT ![c] = disk[c]] /\ disk[c] \in States /\ Follows(root, disk[c])
      /\ edits' \in 0..MaxEdits /\ deaths' \in 0..MaxDeaths
  BY <1>2, Same
<1> DEFINE files == done.files
           file == disk[c]
<1>8. files \in [Paths -> Contents \cup {NoFile}] /\ folder' = [folder EXCEPT ![c] = files]
      /\ file \in States /\ Follows(root, file) /\ disk' = [disk EXCEPT ![c] = file]
  BY <1>1, <1>2, <1>7
<1> HIDE DEF files, file
<1> QED  BY ONLY <1>2, <1>5, <1>6, <1>7, <1>8, SyncInv, c \in Desktops, ComputerGoesOn

\* Only files change.
LEMMA FilesChange ==
  ASSUME SyncInv, NEW c \in Desktops, NEW files \in [Paths -> Contents \cup {NoFile}],
         folder' = [folder EXCEPT ![c] = files], UNCHANGED << root, disk, mem, stage >>,
         edits' \in 0..MaxEdits, deaths' \in 0..MaxDeaths
  PROVE  SyncInv'
<1>1. ClientsTyped'  BY DEF SyncInv, ClientsTyped
<1>2. JournalInv(root') /\ Len(root'.ops) <= MaxOps  BY DEF SyncInv
<1>3. \A d \in Desktops : Follows(root', disk'[d]) /\ Follows(root', mem'[d])
  BY DEF SyncInv
<1> QED  BY <1>1, <1>2, <1>3 DEF SyncInv

\* A pull that stops on a conflict, with the files it has written so far.
LEMMA PullFailsKeeps ==
  ASSUME SyncInv, NEW c \in Desktops, PullFails(c)
  PROVE  SyncInv'
<1> DEFINE files == Pulled(c, Offered(c)).files
<1>1. files \in [Paths -> Contents \cup {NoFile}]  BY OfferedNumber, PulledSound
<1>2. /\ folder' = [folder EXCEPT ![c] = files] /\ UNCHANGED << root, disk, mem, stage >>
      /\ edits' = edits /\ deaths' = deaths
  BY DEF PullFails
<1>3. edits' \in 0..MaxEdits /\ deaths' \in 0..MaxDeaths  BY <1>2, Same
<1> HIDE DEF files
<1> QED  BY <1>1, <1>2, <1>3, FilesChange

\* A run that dies in a pull, before its state is saved.
LEMMA DieInPullKeeps ==
  ASSUME SyncInv, NEW c \in Desktops, DieInPull(c)
  PROVE  SyncInv'
<1>1. PICK n \in 1..Offered(c) : folder' = [folder EXCEPT ![c] = Pulled(c, n).files]
  BY DEF DieInPull
<1> DEFINE files == Pulled(c, n).files
<1>2. n \in 0..Offered(c)  BY OfferedNumber
<1>3. files \in [Paths -> Contents \cup {NoFile}]  BY <1>2, PulledSound
<1>4. /\ folder' = [folder EXCEPT ![c] = files] /\ UNCHANGED << root, disk, mem, stage >>
      /\ edits' = edits /\ deaths' = deaths + 1 /\ deaths < MaxDeaths
  BY <1>1 DEF DieInPull
<1>5. edits' \in 0..MaxEdits /\ deaths' \in 0..MaxDeaths
  BY <1>4, Same, DesktopAssumption
<1> HIDE DEF files
<1> QED  BY <1>3, <1>4, <1>5, FilesChange

\* The scan, its uploads, the push and the answer, which the run keeps in memory.
LEMMA PushStepKeeps ==
  ASSUME SyncInv, NEW c \in Desktops, PushChanges(c)
  PROVE  SyncInv' /\ Grows(root, root')
<1>1. PICK scan \in Scans(c) :
        /\ Pushable(scan)
        /\ root' = Push(scan.db, scan.batch)
        /\ mem' = [mem EXCEPT ![c] = Acknowledged(mem[c], scan.db, Push(scan.db, scan.batch), scan)]
        /\ disk' = [disk EXCEPT ![c] = IF scan.db # root THEN mem[c] ELSE disk[c]]
  BY DEF PushChanges, Pushable
<1> DEFINE state == Acknowledged(mem[c], scan.db, root', scan)
           file == IF scan.db # root THEN mem[c] ELSE disk[c]
<1>2. /\ JournalInv(root') /\ Grows(root, root') /\ Len(root'.ops) <= MaxOps
      /\ state \in States /\ Follows(root', state)
  BY <1>1, PushChangesKeeps
<1>3. mem' = [mem EXCEPT ![c] = state] /\ disk' = [disk EXCEPT ![c] = file]  BY <1>1
<1>4. file \in States /\ Follows(root, file) /\ JournalInv(root)  BY ClientFacts
<1> HIDE DEF state, file
<1>5. Follows(root', file)  BY <1>2, <1>4, FollowsStays
<1>6. /\ folder' = folder /\ edits' = edits /\ deaths' = deaths
      /\ stage' = [stage EXCEPT ![c] = "pushed"]
  BY DEF PushChanges
<1>7. /\ folder \in [Desktops -> [Paths -> Contents \cup {NoFile}]]
      /\ disk \in [Desktops -> States] /\ mem \in [Desktops -> States]
      /\ stage \in [Desktops -> {"off", "pulled", "pushed"}]
      /\ edits \in 0..MaxEdits /\ deaths \in 0..MaxDeaths
  BY DEF SyncInv, ClientsTyped
<1>8. ClientsTyped'  BY <1>2, <1>3, <1>4, <1>6, <1>7 DEF ClientsTyped
<1>9. ASSUME NEW d \in Desktops
      PROVE  Follows(root', disk'[d]) /\ Follows(root', mem'[d])
  <2>1. CASE d = c
    <3>1. disk'[d] = file /\ mem'[d] = state  BY <1>3, <1>7, <2>1
    <3> QED  BY <1>2, <1>5, <3>1
  <2>2. CASE d # c
    <3>1. disk'[d] = disk[d] /\ mem'[d] = mem[d]  BY <1>3, <1>7, <2>2
    <3>2. Follows(root, disk[d]) /\ Follows(root, mem[d])  BY DEF SyncInv
    <3>3. Follows(root', disk[d]) /\ Follows(root', mem[d])
      BY <1>2, <1>4, <3>2, FollowsStays
    <3> QED  BY <3>1, <3>3
  <2> QED  BY <2>1, <2>2
<1> QED  BY <1>2, <1>8, <1>9 DEF SyncInv

\* The state is saved: the file now says what the run has in memory.
LEMMA SaveKeeps ==
  ASSUME SyncInv, NEW c \in Desktops, Save(c)
  PROVE  SyncInv'
<1>1. /\ root' = root /\ folder' = folder /\ mem' = mem /\ edits' = edits /\ deaths' = deaths
      /\ disk' = [disk EXCEPT ![c] = mem[c]] /\ stage' = [stage EXCEPT ![c] = "off"]
  BY DEF Save
<1> DEFINE files == folder[c]
           state == mem[c]
           file == mem[c]
           now == "off"
<1>2. /\ files \in [Paths -> Contents \cup {NoFile}] /\ file \in States /\ Follows(root, file)
      /\ state \in States /\ Follows(root, state) /\ now \in {"off", "pulled", "pushed"}
      /\ folder' = [folder EXCEPT ![c] = files] /\ disk' = [disk EXCEPT ![c] = file]
      /\ mem' = [mem EXCEPT ![c] = state] /\ stage' = [stage EXCEPT ![c] = now]
      /\ edits' \in 0..MaxEdits /\ deaths' \in 0..MaxDeaths
  BY <1>1, Same
<1> HIDE DEF files, state, file, now
<1> QED  BY ONLY <1>1, <1>2, SyncInv, c \in Desktops, ComputerGoesOn

\* A run dies after the push, and the answer is lost with it.
LEMMA DieKeeps ==
  ASSUME SyncInv, NEW c \in Desktops, Die(c)
  PROVE  SyncInv'
<1>1. /\ root' = root /\ folder' = folder /\ disk' = disk /\ edits' = edits
      /\ deaths' = deaths + 1 /\ deaths < MaxDeaths
      /\ mem' = [mem EXCEPT ![c] = disk[c]] /\ stage' = [stage EXCEPT ![c] = "off"]
  BY DEF Die
<1> DEFINE files == folder[c]
           state == disk[c]
           file == disk[c]
           now == "off"
<1>2. /\ files \in [Paths -> Contents \cup {NoFile}] /\ file \in States /\ Follows(root, file)
      /\ state \in States /\ Follows(root, state) /\ now \in {"off", "pulled", "pushed"}
      /\ folder' = [folder EXCEPT ![c] = files] /\ disk' = [disk EXCEPT ![c] = file]
      /\ mem' = [mem EXCEPT ![c] = state] /\ stage' = [stage EXCEPT ![c] = now]
      /\ edits' \in 0..MaxEdits
  BY <1>1, Same
<1>3. deaths' \in 0..MaxDeaths  BY <1>1, Same, DesktopAssumption
<1> HIDE DEF files, state, file, now
<1> QED  BY ONLY <1>1, <1>2, <1>3, SyncInv, c \in Desktops, ComputerGoesOn

\* The owner of the computer edits the folder.
LEMMA EditKeeps ==
  ASSUME SyncInv, NEW c \in Desktops, Edit(c)
  PROVE  SyncInv' /\ edits' # edits
<1>1. /\ UNCHANGED << root, disk, mem, stage >> /\ deaths' = deaths /\ edits' = edits + 1
      /\ edits < MaxEdits
  BY DEF Edit
<1>2. edits' \in 0..MaxEdits /\ deaths' \in 0..MaxDeaths /\ edits' # edits
  BY <1>1, Same, DesktopAssumption
<1>3. folder \in [Desktops -> [Paths -> Contents \cup {NoFile}]]
  BY DEF SyncInv, ClientsTyped
<1>4. \E files \in [Paths -> Contents \cup {NoFile}] : folder' = [folder EXCEPT ![c] = files]
  <2>1. CASE \E p \in Paths, x \in Contents \cup {NoFile} : folder' = [folder EXCEPT ![c][p] = x]
    <3>1. PICK p \in Paths, x \in Contents \cup {NoFile} : folder' = [folder EXCEPT ![c][p] = x]
      BY <2>1
    <3> DEFINE files == [folder[c] EXCEPT ![p] = x]
    <3>2. files \in [Paths -> Contents \cup {NoFile}] /\ folder' = [folder EXCEPT ![c] = files]
      BY <1>3, <3>1
    <3> QED  BY <3>2
  <2>2. CASE \E p \in Present(c), q \in Paths \ Present(c) :
               folder' = [folder EXCEPT ![c][q] = folder[c][p], ![c][p] = NoFile]
    <3>1. PICK p \in Present(c), q \in Paths \ Present(c) :
               folder' = [folder EXCEPT ![c][q] = folder[c][p], ![c][p] = NoFile]
      BY <2>2
    <3>2. p \in Paths /\ q \in Paths  BY DEF Present
    <3> DEFINE files == [folder[c] EXCEPT ![q] = folder[c][p], ![p] = NoFile]
    <3>3. files \in [Paths -> Contents \cup {NoFile}] /\ folder' = [folder EXCEPT ![c] = files]
      BY <1>3, <3>1, <3>2
    <3> QED  BY <3>3
  <2> QED  BY <2>1, <2>2 DEF Edit
<1> QED  BY <1>1, <1>2, <1>4, FilesChange

-----------------------------------------------------------------------------
(* The theorems.                                                          *)

\* Every step of the server, of a run and of the owner keeps the invariant.
LEMMA SyncInductive ==
  ASSUME SyncInv, [SyncNext]_syncVars
  PROVE  SyncInv'
<1>1. CASE UNCHANGED syncVars
  <2>1. /\ root' = root /\ folder' = folder /\ disk' = disk /\ mem' = mem /\ stage' = stage
        /\ edits' = edits /\ deaths' = deaths
    BY <1>1 DEF syncVars, desktop
  <2> QED  BY <2>1 DEF SyncInv, ClientsTyped
<1>2. CASE SyncNext
  <2>1. ASSUME NEW c \in Desktops, Pull(c)  PROVE SyncInv'  BY <2>1, PullKeeps
  <2>2. ASSUME NEW c \in Desktops, PullFails(c)  PROVE SyncInv'  BY <2>2, PullFailsKeeps
  <2>3. ASSUME NEW c \in Desktops, PushChanges(c)  PROVE SyncInv'  BY <2>3, PushStepKeeps
  <2>4. ASSUME NEW c \in Desktops, Save(c)  PROVE SyncInv'  BY <2>4, SaveKeeps
  <2>5. ASSUME NEW c \in Desktops, DieInPull(c)  PROVE SyncInv'  BY <2>5, DieInPullKeeps
  <2>6. ASSUME NEW c \in Desktops, Die(c)  PROVE SyncInv'  BY <2>6, DieKeeps
  <2>7. ASSUME NEW c \in Desktops, Edit(c)  PROVE SyncInv'  BY <2>7, EditKeeps
  <2>8. CASE Decide  BY <2>8, DecideKeeps
  <2>9. CASE Trash  BY <2>9, TrashKeeps
  <2> QED
    BY <1>2, <2>1, <2>2, <2>3, <2>4, <2>5, <2>6, <2>7, <2>8, <2>9 DEF SyncNext, RunOn
<1> QED  BY <1>1, <1>2

\* The inductive invariant: the rows of a root are sound after every operation of
\* apply_operations and resolve_conflict, and what a computer has saved or learned
\* (save_state, apply_push_result, pull_remote) is what the journal says.
THEOREM SyncInvariant == SyncSpec => []SyncInv
<1>1. DesktopInit => SyncInv  BY InvInit
<1>2. SyncInv /\ [SyncNext]_syncVars => SyncInv'  BY SyncInductive
<1> QED  BY <1>1, <1>2, PTL DEF SyncSpec

\* Type correctness, for any number of computers, files and operations: the cursor
\* stays in its range whatever apply_operations and resolve_conflict draw from it.
THEOREM SyncTypes == SyncSpec => []SyncTypeOK
<1>1. SyncInv => SyncTypeOK
  <2> SUFFICES ASSUME SyncInv PROVE SyncTypeOK  OBVIOUS
  <2>1. root \in Journals /\ Len(root.ops) <= MaxOps  BY DEF SyncInv, JournalInv
  <2>2. /\ root.cursor \in Revisions /\ root.ops \in Seq(Operations)
        /\ root.items \in [Logicals -> Items \cup {NoItem}] /\ root.assets \in Seq(Assets)
    BY <2>1, JournalsFields
  <2>3. DOMAIN root.ops = 1..Len(root.ops) /\ DOMAIN root.assets = 1..Len(root.assets)
    BY <2>1, JournalSizes
  <2>4. /\ \A i \in DOMAIN root.ops : root.ops[i] \in Operations
        /\ \A a \in DOMAIN root.assets : root.assets[a] \in Assets
        /\ \A l \in Logicals : root.items[l] \in Items \cup {NoItem}
    BY <2>2, <2>3
  <2> QED  BY <2>1, <2>2, <2>4 DEF SyncTypeOK, SyncInv, ClientsTyped
<1> QED  BY <1>1, SyncInvariant, PTL

\* The last operation applied to an item, in the order of the cursors, is what the
\* item shows, also after a conflict was decided out of its turn: a computer that
\* replays pull_operations ends with the items of the root.
THEOREM JournalLeadsToItems == SyncSpec => []JournalGivesItems
<1>1. SyncInv => JournalGivesItems
  <2> SUFFICES ASSUME SyncInv PROVE JournalGivesItems  OBVIOUS
  <2>1. JournalInv(root) /\ root \in Journals  BY DEF SyncInv, JournalInv
  <2>2. ASSUME NEW l \in Logicals
        PROVE  /\ Exists(root.items[l]) <=> AppliedTo(l) # {}
               /\ \A i \in AppliedTo(l) :
                    (\A j \in AppliedTo(l) : root.ops[j].cursor <= root.ops[i].cursor) =>
                      Shows(root, l, i)
    <3>1. AppliedTo(l) = DoneTo(root, l)  BY <2>1, AppliedIsDone
    <3>2. /\ Exists(root.items[l]) => \E i \in DoneTo(root, l) : Shows(root, l, i)
          /\ ~ Exists(root.items[l]) => DoneTo(root, l) = {}
      BY <2>1 DEF JournalInv, ItemsFollow
    <3>3. ASSUME NEW i \in DoneTo(root, l),
                 \A j \in DoneTo(root, l) : root.ops[j].cursor <= root.ops[i].cursor
          PROVE  Shows(root, l, i)
      <4>1. PICK k \in DoneTo(root, l) : Shows(root, l, k)  BY <3>2
      <4>2. root.ops[i].cursor <= root.ops[k].cursor  BY <4>1 DEF Shows
      <4>3. root.ops[k].cursor <= root.ops[i].cursor  BY <3>3
      <4>4. i \in 1..Len(root.ops) /\ k \in 1..Len(root.ops)  BY DEF DoneTo, Done
      <4>5. root.ops[i].cursor \in Nat /\ root.ops[k].cursor \in Nat  BY <2>1, <4>4, OpsOf
      <4>6. root.ops[i].cursor = root.ops[k].cursor  BY <4>2, <4>3, <4>5
      <4>7. i = k  BY <2>1, <4>4, <4>6 DEF JournalInv, PlacesDiffer
      <4> QED  BY <4>1, <4>7
    <3> QED  BY <3>1, <3>2, <3>3
  <2> QED  BY <2>2 DEF JournalGivesItems, Shows
<1> QED  BY <1>1, SyncInvariant, PTL

\* A history has at most one active revision, and its item shows one of its own
\* (_attach_revision_to_logical_file, _trash_relation_media): no upload, move,
\* delete or decision leaves two, whatever the order.
THEOREM HistoriesAreSound == SyncSpec => []HistoryIsSound
<1>1. SyncInv => HistoryIsSound
  <2> SUFFICES ASSUME SyncInv PROVE HistoryIsSound  OBVIOUS
  <2>1. JournalInv(root) /\ root \in Journals  BY DEF SyncInv, JournalInv
  <2>2. DOMAIN root.assets = 1..Len(root.assets)  BY <2>1, JournalSizes
  <2>3. ASSUME NEW l \in Logicals
        PROVE  Cardinality({ a \in DOMAIN root.assets :
                       root.assets[a].logical = l /\ root.assets[a].state = "active" }) <= 1
    <3> DEFINE S == { a \in DOMAIN root.assets :
                        root.assets[a].logical = l /\ root.assets[a].state = "active" }
    <3>1. l # 0  BY Numbers
    <3>2. \A a, b \in S : a = b
      BY <2>1, <2>2, <3>1 DEF JournalInv, OneActive
    <3> HIDE DEF S
    <3>3. CASE S = {}
      <4>1. Cardinality(S) = 0  BY <3>3, FS_EmptySet
      <4> QED  BY <4>1 DEF S
    <3>4. CASE S # {}
      <4>1. PICK a \in S : TRUE  BY <3>4
      <4>2. S = {a}  BY <3>2, <4>1
      <4>3. Cardinality(S) = 1  BY <4>2, FS_Singleton
      <4> QED  BY <4>3 DEF S
    <3> QED  BY <3>3, <3>4
  <2>4. OwnHistory(root)  BY <2>1 DEF JournalInv
  <2>5. \A l \in Logicals :
          Exists(root.items[l]) /\ root.items[l].asset # 0 =>
            /\ root.assets[root.items[l].asset].logical = l
            /\ ~ root.items[l].deleted => root.assets[root.items[l].asset].state # "superseded"
    BY <2>4 DEF OwnHistory
  <2> QED  BY <2>3, <2>5 DEF HistoryIsSound
<1> QED  BY <1>1, SyncInvariant, PTL

\* What a computer holds of an item, in its state file or in memory, is what an
\* applied operation of that revision says (apply_push_result, pull_remote), after
\* any death, any answer lost and any push that is sent again.
THEOREM EntriesAreJournaled == SyncSpec => []EntriesFollowJournal
<1>1. SyncInv => EntriesFollowJournal
  <2> SUFFICES ASSUME SyncInv PROVE EntriesFollowJournal  OBVIOUS
  <2>1. JournalInv(root)  BY DEF SyncInv
  <2>2. ASSUME NEW c \in Desktops, NEW state \in {disk[c], mem[c]}, NEW l \in Known(state)
        PROVE  \E i \in AppliedTo(l) : Recorded(root, state.entries[l], l, i)
    <3>1. Follows(root, state)  BY DEF SyncInv
    <3>2. AppliedTo(l) = DoneTo(root, l)  BY <2>1, AppliedIsDone
    <3> QED  BY <3>1, <3>2 DEF Follows
  <2> QED  BY <2>2 DEF EntriesFollowJournal, Recorded
<1> QED  BY <1>1, SyncInvariant, PTL

\* What the steps of the server never undo.
JournalGrows == [][Grows(root, root')]_syncVars

\* An applied operation is never changed again, nobody takes over an operation of
\* another client, and the bytes of an asset stay, although resolve_conflict decides
\* an operation of apply_operations in its place.
THEOREM JournalOnlyGrows == SyncSpec => JournalGrows
<1>1. SyncInv /\ [SyncNext]_syncVars => [Grows(root, root')]_syncVars
  <2> SUFFICES ASSUME SyncInv, SyncNext PROVE Grows(root, root')  OBVIOUS
  <2>1. JournalInv(root)  BY DEF SyncInv
  <2>2. root' = root => Grows(root, root')  BY <2>1, GrowsFromItself
  <2>3. ASSUME NEW c \in Desktops, RunOn(c) \/ DieInPull(c) \/ Die(c) \/ Edit(c)
        PROVE  Grows(root, root')
    <3>1. CASE PushChanges(c)  BY <3>1, PushStepKeeps
    <3>2. CASE ~ PushChanges(c)
      BY <2>2, <2>3, <3>2 DEF RunOn, Pull, PullFails, Save, DieInPull, Die, Edit
    <3> QED  BY <3>1, <3>2
  <2> QED  BY <2>3, DecideKeeps, TrashKeeps DEF SyncNext
<1> QED  BY <1>1, SyncInvariant, PTL DEF SyncSpec, JournalGrows

\* A file that a run removes.
LEMMA RemovedByPull ==
  ASSUME SyncInv, NEW c \in Desktops, NEW m \in 0..Offered(c), NEW d \in Desktops, NEW p \in Paths,
         folder' = [folder EXCEPT ![c] = Pulled(c, m).files],
         folder[d][p] # NoFile, folder'[d][p] = NoFile
  PROVE  Removable(d, p)
<1>1. folder \in [Desktops -> [Paths -> Contents \cup {NoFile}]]
  BY DEF SyncInv, ClientsTyped
<1> DEFINE files == Pulled(c, m).files
<1>2. folder[c][p] # NoFile /\ files[p] = NoFile => Removable(c, p)  BY PulledSound
<1>3. folder' = [folder EXCEPT ![c] = files]  OBVIOUS
<1> HIDE DEF files
<1>4. d = c  BY <1>1, <1>3
<1>5. folder'[d] = files  BY <1>1, <1>3, <1>4
<1> QED  BY <1>2, <1>4, <1>5

\* pull_remote removes a file only for a deletion by another computer that the run
\* had not seen, and the server has the bytes in the history of the item, unless
\* the same answer has replaced them before; no other step of a run removes any.
THEOREM RemovalsAreSafe == SyncSpec => RemovalIsSafe
<1> DEFINE Removes == \A c \in Desktops, p \in Paths :
             edits' = edits /\ folder[c][p] # NoFile /\ folder'[c][p] = NoFile => Removable(c, p)
<1>1. SyncInv /\ [SyncNext]_syncVars => [Removes]_syncVars
  <2> SUFFICES ASSUME SyncInv, SyncNext, NEW d \in Desktops, NEW p \in Paths,
                      edits' = edits, folder[d][p] # NoFile, folder'[d][p] = NoFile
               PROVE  Removable(d, p)
    OBVIOUS
  <2>1. folder' # folder  OBVIOUS
  <2>2. PICK c \in Desktops : Pull(c) \/ PullFails(c) \/ DieInPull(c) \/ Edit(c)
    BY <2>1 DEF SyncNext, RunOn, PushChanges, Save, Die, Decide, desktop, Trash
  <2>3. CASE Pull(c) \/ PullFails(c)
    <3>1. folder' = [folder EXCEPT ![c] = Pulled(c, Offered(c)).files]
      BY <2>3 DEF Pull, PullFails
    <3>2. Offered(c) \in 0..Offered(c)  BY OfferedNumber
    <3> QED  BY <3>1, <3>2, RemovedByPull
  <2>4. CASE DieInPull(c)
    <3>1. PICK n \in 1..Offered(c) : folder' = [folder EXCEPT ![c] = Pulled(c, n).files]
      BY <2>4 DEF DieInPull
    <3>2. n \in 0..Offered(c)  BY OfferedNumber
    <3> QED  BY <3>1, <3>2, RemovedByPull
  <2>5. CASE Edit(c)  BY <2>5, EditKeeps
  <2> QED  BY <2>2, <2>3, <2>4, <2>5
<1>2. Removes <=> \A c \in Desktops, p \in Paths :
       edits' = edits /\ folder[c][p] # NoFile /\ folder'[c][p] = NoFile =>
         \E l \in Known(disk[c]) : \E i \in AppliedTo(l) :
           /\ disk[c].entries[l].path = p
           /\ root.ops[i].kind = "delete" /\ root.ops[i].client # c
           /\ root.ops[i].cursor > disk[c].cursor
           /\ \/ Replaced(c, p, i)
              \/ \E a \in DOMAIN root.assets :
                   root.assets[a].logical = l /\ root.assets[a].content = folder[c][p]
  BY DEF Removable
<1> HIDE DEF Removes
<1> QED  BY <1>1, <1>2, SyncInvariant, PTL DEF SyncSpec, RemovalIsSafe

=============================================================================
