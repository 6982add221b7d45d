--------------------------- MODULE LegacyMigration ---------------------------
(***************************************************************************)
(* Moving the plaintext originals of an older release under their owners'  *)
(* keys (tasks.py:1335-1484), while rows are trashed and purged            *)
(* (lifecycle.py:274-418) and accounts are disabled.                       *)
(*                                                                         *)
(* Rows of the same content share one plaintext object, whoever owns them; *)
(* rows of the same content and owner share one ciphertext object.  A      *)
(* worker holds the row locks of the owner and of the asset until it       *)
(* commits, and from its encryption on the lock of the ciphertext's path.  *)
(* A purge holds the locks of the row and of the path from its unlink to   *)
(* its commit; what it does with the row's lock before changes nothing.    *)
(* Keys are numbered in the order they are drawn for their owner.          *)
(*                                                                         *)
(* Thumbnails go the way of their originals and are left out.              *)
(***************************************************************************)
EXTENDS Integers

CONSTANTS
  LegacyRows,   \* Asset rows that begin unencrypted
  Holder(_),    \* the account of a row
  Object(_),    \* the content of a row
  Movers,       \* runs of the migration task
  MaxKeys       \* bound: keys drawn for an account

ASSUME MigrationAssumption == MaxKeys \in Nat

VARIABLES
  legacy,     \* Asset rows
  plain,      \* plaintext objects that exist
  cipher,     \* the key a ciphertext object is encrypted under, 0 if there is none
  mediaKey,   \* media_key_encrypted of an account, 0 if there is none
  drawn,      \* keys drawn so far
  disabled,   \* accounts that have been disabled
  mover,      \* runs of the migration task
  purge,      \* rows whose purge has come to the unlink and not to the commit
  taken       \* history: rows whose own purge has unlinked their original

purges == <<purge, taken>>
migration ==
  <<legacy, plain, cipher, mediaKey, drawn, disabled, mover, purge, taken>>

Accounts == {Holder(r) : r \in LegacyRows}
Objects == {Object(r) : r \in LegacyRows}
Path(r) == <<Holder(r), Object(r)>>

Waiting == [at |-> "idle"]
Movements ==
  [at : {"locked", "keyed", "encrypted", "moved"}, row : LegacyRows,
   key : 0 .. MaxKeys, alone : BOOLEAN]

MigrationInit ==
  /\ legacy = [r \in LegacyRows |-> [state |-> "active", encrypted |-> FALSE]]
  /\ plain = Objects
  /\ cipher = [p \in Accounts \X Objects |-> 0]
  /\ mediaKey \in [Accounts -> {0, 1} \cap 0 .. MaxKeys]
  /\ drawn = mediaKey
  /\ disabled = {}
  /\ mover = [w \in Movers |-> Waiting]
  /\ purge = {}
  /\ taken = {}

----------------------------------------------------------------------------
(* The migration                                                           *)

\* The runs that hold locks.
Holding == {w \in Movers : mover[w].at \in {"locked", "encrypted"}}

OwnerFree(u) == \A w \in Holding : Holder(mover[w].row) # u
RowUnlocked(r) == r \notin purge /\ \A w \in Holding : mover[w].row # r
\* Mutant: the path is not locked.
NoPathLock(p) == TRUE
PathUnlocked(p) ==
  /\ \A w \in Movers : mover[w].at = "encrypted" => Path(mover[w].row) # p
  /\ \A r \in purge : legacy[r].encrypted => Path(r) # p
\* The same for the path of a plaintext object.
PlainUnlocked(o) ==
  \A r \in purge : ~legacy[r].encrypted => Object(r) # o

Migratable(r) ==
  /\ legacy[r] = [state |-> "active", encrypted |-> FALSE]
  /\ Holder(r) \notin disabled

\* Locks the owner and the asset, for the first time or after a key has been
\* committed; a run that finds the row changed goes on to another one.
LockLegacy(w, r) ==
  /\ mover[w] = Waiting \/ (mover[w].at = "keyed" /\ mover[w].row = r)
  /\ OwnerFree(Holder(r)) /\ RowUnlocked(r)
  /\ Migratable(r)
  /\ mover' = [mover EXCEPT ![w] =
       [at |-> "locked", row |-> r, key |-> mediaKey[Holder(r)], alone |-> FALSE]]
  /\ UNCHANGED <<legacy, plain, cipher, mediaKey, drawn, disabled, purges>>

SkipLegacy(w) ==
  /\ mover[w].at = "keyed"
  /\ ~Migratable(mover[w].row)
  /\ mover' = [mover EXCEPT ![w] = Waiting]
  /\ UNCHANGED <<legacy, plain, cipher, mediaKey, drawn, disabled, purges>>

\* Mutant: the key is committed with the row.
KeyWithRow(w, k) ==
  /\ mover' = [mover EXCEPT ![w].key = k]
  /\ mediaKey' = mediaKey
\* A new key is committed, and the locks with it given up, before anything is
\* encrypted.
KeyFirst(w, k) ==
  /\ mover' = [mover EXCEPT ![w].key = k, ![w].at = "keyed"]
  /\ mediaKey' = [mediaKey EXCEPT ![Holder(mover[w].row)] = k]

InitializeKey(w) ==
  LET u == Holder(mover[w].row) IN
  /\ mover[w].at = "locked"
  /\ mover[w].key = 0
  /\ drawn[u] < MaxKeys
  /\ drawn' = [drawn EXCEPT ![u] = @ + 1]
  /\ KeyFirst(w, drawn[u] + 1)
  /\ UNCHANGED <<legacy, plain, cipher, disabled, purges>>

\* Under the path's lock: encrypt, or authenticate the ciphertext that is there;
\* then count who else still needs the plaintext.
Encrypt(w) ==
  LET r == mover[w].row IN
  /\ mover[w].at = "locked"
  /\ mover[w].key # 0
  /\ Object(r) \in plain
  /\ PathUnlocked(Path(r))
  /\ cipher[Path(r)] \in {0, mover[w].key}
  /\ cipher' = [cipher EXCEPT ![Path(r)] = mover[w].key]
  /\ mover' = [mover EXCEPT ![w].at = "encrypted",
       ![w].alone = \A o \in LegacyRows \ {r} :
         Object(o) = Object(r) => legacy[o].encrypted \/ legacy[o].state = "gone"]
  /\ UNCHANGED <<legacy, plain, mediaKey, drawn, disabled, purges>>

CommitMigration(w) ==
  LET r == mover[w].row IN
  /\ mover[w].at = "encrypted"
  /\ legacy' = [legacy EXCEPT ![r].encrypted = TRUE]
  /\ mediaKey' = [mediaKey EXCEPT ![Holder(r)] = mover[w].key]
  /\ mover' = [mover EXCEPT ![w].at = "moved"]
  /\ UNCHANGED <<plain, cipher, drawn, disabled, purges>>

\* Whether a path is named by a row other than r (physical_path_has_other_reference).
PlainNamed(o, r) ==
  \E x \in LegacyRows \ {r} :
    Object(x) = o /\ ~legacy[x].encrypted /\ legacy[x].state # "gone"
CipherNamed(p, r) ==
  \E x \in LegacyRows \ {r} :
    Path(x) = p /\ legacy[x].encrypted /\ legacy[x].state # "gone"

\* The owner's row is shared again, and the plaintext goes if nobody else was
\* left before the commit, and nobody names it now.
CollectPlain(w) ==
  LET r == mover[w].row IN
  /\ mover[w].at = "moved"
  /\ OwnerFree(Holder(r))
  /\ IF mover[w].alone /\ Holder(r) \notin disabled
     THEN /\ PlainUnlocked(Object(r))
          /\ plain' = IF PlainNamed(Object(r), r) THEN plain ELSE plain \ {Object(r)}
     ELSE plain' = plain
  /\ mover' = [mover EXCEPT ![w] = Waiting]
  /\ UNCHANGED <<legacy, cipher, mediaKey, drawn, disabled, purges>>

\* The worker dies, or the destination does not authenticate, or storage is
\* unavailable: the transaction is rolled back, what is on disk stays.
KillMigration(w) ==
  /\ mover[w] # Waiting
  /\ mover' = [mover EXCEPT ![w] = Waiting]
  /\ UNCHANGED <<legacy, plain, cipher, mediaKey, drawn, disabled, purges>>

----------------------------------------------------------------------------
(* What else happens to the rows                                           *)

TrashLegacy(r) ==
  /\ legacy[r].state = "active"
  /\ RowUnlocked(r)
  /\ legacy' = [legacy EXCEPT ![r].state = "trashed"]
  /\ UNCHANGED <<plain, cipher, mediaKey, drawn, disabled, mover, purges>>

\* Shares the owner's row.
RestoreLegacy(r) ==
  /\ legacy[r].state = "trashed"
  /\ OwnerFree(Holder(r)) /\ RowUnlocked(r)
  /\ Holder(r) \notin disabled
  /\ legacy' = [legacy EXCEPT ![r].state = "active"]
  /\ UNCHANGED <<plain, cipher, mediaKey, drawn, disabled, mover, purges>>

\* The row a purge may lock.
Due(r) == legacy[r].state \in {"trashed", "purging"} /\ RowUnlocked(r)

\* Under the path's lock the original goes, unless another row names it;
\* 'purging' is only flushed so far.
UnlinkOriginal(r) ==
  LET named == IF legacy[r].encrypted THEN CipherNamed(Path(r), r)
               ELSE PlainNamed(Object(r), r) IN
  /\ Due(r)
  /\ IF legacy[r].encrypted THEN PathUnlocked(Path(r)) ELSE PlainUnlocked(Object(r))
  /\ cipher' = IF legacy[r].encrypted /\ ~named
               THEN [cipher EXCEPT ![Path(r)] = 0] ELSE cipher
  /\ plain' = IF ~legacy[r].encrypted /\ ~named THEN plain \ {Object(r)} ELSE plain
  /\ taken' = IF named THEN taken ELSE taken \cup {r}
  /\ purge' = purge \cup {r}
  /\ UNCHANGED <<legacy, mediaKey, drawn, disabled, mover>>

\* An unlink has failed, that of a replica or of the original before anything of
\* it is gone, or that of a derivative after it: 'purging' is committed.
DeferPurge(r) ==
  /\ Due(r) \/ r \in purge
  /\ legacy' = [legacy EXCEPT ![r].state = "purging"]
  /\ purge' = purge \ {r}
  /\ UNCHANGED <<plain, cipher, mediaKey, drawn, disabled, mover, taken>>

CommitPurge(r) ==
  /\ r \in purge
  /\ legacy' = [legacy EXCEPT ![r].state = "gone"]
  /\ purge' = purge \ {r}
  /\ UNCHANGED <<plain, cipher, mediaKey, drawn, disabled, mover, taken>>

\* The worker dies: the row is again what it was, the original is not.
KillPurge(r) ==
  /\ r \in purge
  /\ purge' = purge \ {r}
  /\ UNCHANGED <<legacy, plain, cipher, mediaKey, drawn, disabled, mover, taken>>

\* An account is disabled under its row lock; what its deletion removes is
\* modelled in AccountDeletion.
DisableAccount(u) ==
  /\ u \notin disabled
  /\ OwnerFree(u)
  /\ disabled' = disabled \cup {u}
  /\ UNCHANGED <<legacy, plain, cipher, mediaKey, drawn, mover, purges>>

MigrationNext ==
  \/ \E w \in Movers :
       \/ \E r \in LegacyRows : LockLegacy(w, r)
       \/ SkipLegacy(w) \/ InitializeKey(w) \/ Encrypt(w)
       \/ CommitMigration(w) \/ CollectPlain(w) \/ KillMigration(w)
  \/ \E r \in LegacyRows :
       \/ TrashLegacy(r) \/ RestoreLegacy(r)
       \/ UnlinkOriginal(r) \/ DeferPurge(r) \/ CommitPurge(r) \/ KillPurge(r)
  \/ \E u \in Accounts : DisableAccount(u)

MigrationSpec == MigrationInit /\ [][MigrationNext]_migration

----------------------------------------------------------------------------
\* Types; the locks exclude: an owner is held by one run at a time, and a row is
\* not migrated while it is purged.
MigrationTypeOK ==
  /\ legacy \in [LegacyRows ->
       [state : {"active", "trashed", "purging", "gone"}, encrypted : BOOLEAN]]
  /\ plain \subseteq Objects
  /\ cipher \in [Accounts \X Objects -> 0 .. MaxKeys]
  /\ mediaKey \in [Accounts -> 0 .. MaxKeys]
  /\ drawn \in [Accounts -> 0 .. MaxKeys]
  /\ disabled \subseteq Accounts
  /\ mover \in [Movers -> Movements \cup {Waiting}]
  /\ purge \subseteq LegacyRows
  /\ taken \subseteq LegacyRows
  /\ \A v, w \in Holding : Holder(mover[v].row) = Holder(mover[w].row) => v = w
  /\ \A w \in Holding : mover[w].row \notin purge

\* Every row that is still in the catalog names an object that exists, and an
\* encrypted one opens with its owner's committed key, unless a purge of that very
\* row has unlinked it: no migration, wherever it dies, and no purge of another
\* row takes it, whoever shares the object (tasks.py:1337-1342).  What a purge
\* that dies after its unlink leaves behind is AssetLifecycle's subject.
MediaStaysReadable ==
  \A r \in LegacyRows \ taken : legacy[r].state # "gone" =>
    IF legacy[r].encrypted
    THEN cipher[Path(r)] = mediaKey[Holder(r)] /\ mediaKey[Holder(r)] # 0
    ELSE Object(r) \in plain

\* No ciphertext is left that a later run cannot authenticate: "Make the DEK
\* durable before publishing any ciphertext" (tasks.py:1380).
CiphertextHasItsKey ==
  \A p \in Accounts \X Objects : cipher[p] \in {0, mediaKey[p[1]]}
=============================================================================
