--------------------------- MODULE ResumableUpload ---------------------------
(***************************************************************************)
(* Resumable uploads of one account, as the server sees them: sessions,    *)
(* staging files, PATCH handlers that append a chunk and finalize, the     *)
(* account's media key and the published originals.  Clients are modules   *)
(* of their own; a client has at most one request it waits for, and its    *)
(* answer is in `reply`.                                                   *)
(*                                                                         *)
(* A PATCH appends in one step: the row lock on the session and the shared *)
(* lock on the User row are held from the first check to the commit.       *)
(* Finalization starts after that commit and takes the User row again,     *)
(* exclusively.  A PATCH that finds all bytes received appends nothing,    *)
(* commits nothing, and goes into finalization with its locks ("held").    *)
(*                                                                         *)
(* The handler keeps the copy of the User row it has loaded first, and     *)
(* SELECT ... FOR UPDATE does not refresh it: `copy` is the key in it.     *)
(***************************************************************************)
EXTENDS Naturals, FiniteSets

CONSTANTS
  Sessions,  \* upload session ids
  Contents,  \* what is uploaded: a checksum names one original
  Handlers,  \* concurrent PATCH requests; a handler names the key it draws
  Clients,   \* processes that upload
  None,
  Size,      \* length of an upload in chunks
  MaxFaults  \* bound: lost messages, failed or killed handlers, lost leases

ASSUME UploadAssumption ==
  /\ Size \in Nat \ {0}
  /\ None \notin Sessions \cup Contents \cup Handlers \cup Clients
  /\ MaxFaults \in Nat

VARIABLES
  session,  \* the UploadSession rows and their staging files
  key,      \* the wrapped media key in the User row
  original, \* the key each published original is encrypted under
  assets,   \* contents with an active asset
  handler,  \* the PATCH requests in finalization
  reply,    \* what each client waits for, or its answer
  faults

server == << session, key, original, assets, handler >>

Status   == {"none", "active", "complete", "expired"}
Uploads  == [ status : Status, offset : 0..Size, staged : BOOLEAN,
              expired : BOOLEAN, content : Contents \cup {None} ]
NoUpload == [ status |-> "none", offset |-> 0, staged |-> FALSE,
              expired |-> FALSE, content |-> None ]

Idle == [ at |-> "idle", session |-> None, copy |-> None, client |-> None ]

\* Answers: a PATCH that succeeds tells the offset and the status.
Ok(offset, status) == [ code |-> "ok", offset |-> offset, status |-> status ]
Refusal(code)      == [ code |-> code, offset |-> 0, status |-> "none" ]
NoReply == Refusal("none")
Waiting == Refusal("waiting")

Fault == faults < MaxFaults /\ faults' = faults + 1

(***************************************************************************)
(* Locks                                                                   *)
(***************************************************************************)

\* The User row is shared by handlers that hold their append's locks, and
\* exclusive to one that has published and not committed.
Shareable  == \A h \in Handlers : handler[h].at # "published"
UserFree(h) == \A g \in Handlers \ {h} : handler[g].at \notin {"held", "published"}
RowFree(h, s) ==
  \A g \in Handlers \ {h} : handler[g].at = "held" => handler[g].session # s

(***************************************************************************)
(* Requests of a client                                                    *)
(***************************************************************************)

\* create_upload, without a checksum: a new row and an empty staging file.
Create(s, c) ==
  /\ Shareable
  /\ session' = [session EXCEPT ![s] = [NoUpload EXCEPT !.status = "active",
                                                        !.staged = TRUE, !.content = c]]

Answer(p, answer) == reply' = [reply EXCEPT ![p] = answer]

Accept(p, h, s, at) ==
  /\ handler[h] = Idle
  /\ handler' = [handler EXCEPT ![h] = [ at |-> at, session |-> s, copy |-> key, client |-> p ]]
  /\ Answer(p, Waiting)

\* Mutant: a session that has all its bytes is complete.
AppendCompletes(p, h, s, offset) ==
  /\ Shareable /\ RowFree(None, s)
  /\ session[s].status = "active" /\ offset = session[s].offset
  /\ session' = [session EXCEPT ![s].offset = offset + 1,
                                ![s].status = IF offset + 1 < Size THEN "active" ELSE "complete"]
  /\ IF offset + 1 < Size
     THEN Answer(p, Ok(offset + 1, "active")) /\ UNCHANGED handler
     ELSE Accept(p, h, s, "full")

\* append_upload up to the commit of the offset.
Append(p, h, s, offset) ==
  LET up == session[s] IN
  /\ Shareable /\ RowFree(None, s)
  /\ \/ /\ up.status # "active"
        /\ Answer(p, Refusal("conflict"))
        /\ UNCHANGED << session, handler >>
     \/ /\ up.status = "active" /\ up.expired
        /\ session' = [session EXCEPT ![s].status = "expired"]
        /\ Answer(p, Refusal("gone"))
        /\ UNCHANGED handler
     \/ /\ up.status = "active" /\ ~up.expired /\ offset # up.offset
        /\ Answer(p, Refusal("conflict"))
        /\ UNCHANGED << session, handler >>
     \/ /\ up.status = "active" /\ ~up.expired /\ offset = up.offset /\ ~up.staged
        /\ Answer(p, Refusal("gone"))
        /\ UNCHANGED << session, handler >>
     \/ /\ up.status = "active" /\ ~up.expired /\ offset = up.offset /\ up.staged
        /\ offset < Size
        /\ session' = [session EXCEPT ![s].offset = offset + 1]
        /\ IF offset + 1 < Size
           THEN Answer(p, Ok(offset + 1, "active")) /\ UNCHANGED handler
           ELSE Accept(p, h, s, "full")
     \/ /\ up.status = "active" /\ ~up.expired /\ offset = up.offset /\ up.staged
        /\ offset = Size
        /\ Accept(p, h, s, "held")
        /\ UNCHANGED session

\* A PATCH, or one that never arrives.
Patch(p, h, s, offset) ==
  \/ Append(p, h, s, offset) /\ UNCHANGED faults
  \/ Fault /\ Answer(p, Refusal("error")) /\ UNCHANGED << session, handler >>

(***************************************************************************)
(* Finalization                                                            *)
(***************************************************************************)

\* The handler ends; its client has the answer if it still waits for it.
End(h, answer) ==
  /\ handler' = [handler EXCEPT ![h] = Idle]
  /\ reply' = IF handler[h].client = None THEN reply
              ELSE [reply EXCEPT ![handler[h].client] = answer]

Content(h) == session[handler[h].session].content
Finalizing(h) == handler[h].at \in {"full", "held", "keyed"} /\ UserFree(h)

\* initialize_user_media_key on the copy, and the commit that makes it durable
\* and lets the locks go.
InitializeKey(h) ==
  /\ Finalizing(h) /\ handler[h].copy = None
  /\ key' = h
  /\ handler' = [handler EXCEPT ![h].at = "keyed", ![h].copy = h]
  /\ UNCHANGED << session, original, assets, reply, faults >>

\* The content has an active asset: the staging file goes, and one commit
\* completes the session.
AnswerDuplicate(h) ==
  /\ Finalizing(h) /\ handler[h].copy # None
  /\ Content(h) \in assets
  /\ session' = [session EXCEPT ![handler[h].session].staged = FALSE,
                                ![handler[h].session].status = "complete"]
  /\ End(h, Ok(Size, "complete"))
  /\ UNCHANGED << key, original, assets, faults >>

\* commit_encrypted_original: the ciphertext is linked into place, or the one
\* there authenticates under the key; then the staging file goes.
Publish(h) ==
  /\ Finalizing(h) /\ handler[h].copy # None
  /\ Content(h) \notin assets /\ session[handler[h].session].staged
  /\ original[Content(h)] \in {None, handler[h].copy}
  /\ original' = [original EXCEPT ![Content(h)] = handler[h].copy]
  /\ session' = [session EXCEPT ![handler[h].session].staged = FALSE]
  /\ handler' = [handler EXCEPT ![h].at = "published"]
  /\ UNCHANGED << key, assets, reply, faults >>

\* The staging file is gone, or what is at the path does not authenticate: 503.
CannotPublish(h) ==
  /\ Finalizing(h)
  /\ \/ ~session[handler[h].session].staged
     \/ handler[h].copy # None /\ original[Content(h)] \notin {None, handler[h].copy}
  /\ Content(h) \notin assets
  /\ End(h, Refusal("error"))
  /\ UNCHANGED << session, key, original, assets, faults >>

CommitAsset(h) ==
  /\ handler[h].at = "published"
  /\ assets' = assets \cup {Content(h)}
  /\ handler' = [handler EXCEPT ![h].at = "stored"]
  /\ UNCHANGED << session, key, original, reply, faults >>

\* append_upload after persist_managed_asset has returned.
Complete(h) ==
  /\ handler[h].at = "stored"
  /\ RowFree(h, handler[h].session)
  /\ session' = [session EXCEPT ![handler[h].session].status = "complete"]
  /\ End(h, Ok(Size, "complete"))
  /\ UNCHANGED << key, original, assets, faults >>

\* Two handlers share the User row and each waits to have it alone: PostgreSQL
\* aborts one of them.
Deadlock(h) ==
  /\ handler[h].at = "held"
  /\ \E g \in Handlers \ {h} : handler[g].at = "held"
  /\ End(h, Refusal("error"))
  /\ UNCHANGED << session, key, original, assets, faults >>

\* Mutant: a failed finalization discards what has been received.
HandlerFailsClean(h) ==
  /\ handler[h] # Idle
  /\ Fault
  /\ session' = [session EXCEPT ![handler[h].session].staged = FALSE]
  /\ End(h, Refusal("error"))
  /\ UNCHANGED << key, original, assets >>

\* A full drive, a failed commit or a killed process: whatever is not committed
\* is rolled back; what is on disk stays.
HandlerFails(h) ==
  /\ handler[h] # Idle
  /\ Fault
  /\ End(h, Refusal("error"))
  /\ UNCHANGED << session, key, original, assets >>

\* Killed between the link and the removal of the staging file, or between that
\* removal and the commit of a duplicate's session.
HandlerKilledBetween(h) ==
  /\ Finalizing(h) /\ handler[h].copy # None
  /\ Fault
  /\ \/ /\ Content(h) \notin assets /\ session[handler[h].session].staged
        /\ original[Content(h)] = None
        /\ original' = [original EXCEPT ![Content(h)] = handler[h].copy]
        /\ UNCHANGED session
     \/ /\ Content(h) \in assets
        /\ session' = [session EXCEPT ![handler[h].session].staged = FALSE]
        /\ UNCHANGED original
  /\ End(h, Refusal("error"))
  /\ UNCHANGED << key, assets >>

\* The answer, or the connection, is lost; the handler goes on.
LoseReply(p) ==
  /\ reply[p].code \notin {"none", "error"}
  /\ Fault
  /\ Answer(p, Refusal("error"))
  /\ handler' = [h \in Handlers |-> IF handler[h].client = p
                                    THEN [handler[h] EXCEPT !.client = None] ELSE handler[h]]
  /\ UNCHANGED << session, key, original, assets >>

Expire(s) ==
  /\ session[s].status = "active" /\ ~session[s].expired
  /\ session' = [session EXCEPT ![s].expired = TRUE]
  /\ UNCHANGED << key, original, assets, handler, reply, faults >>

ServerInit ==
  /\ session = [s \in Sessions |-> NoUpload]
  /\ key = None
  /\ original = [c \in Contents |-> None]
  /\ assets = {}
  /\ handler = [h \in Handlers |-> Idle]
  /\ reply = [p \in Clients |-> NoReply]
  /\ faults = 0

HandlerStep(h) ==
  \/ InitializeKey(h) \/ AnswerDuplicate(h) \/ Publish(h) \/ CannotPublish(h)
  \/ CommitAsset(h) \/ Complete(h) \/ Deadlock(h)

ServerNext ==
  \/ \E h \in Handlers : HandlerStep(h) \/ HandlerFails(h) \/ HandlerKilledBetween(h)
  \/ \E p \in Clients : LoseReply(p)
  \/ \E s \in Sessions : Expire(s)

(***************************************************************************)
(* Properties                                                              *)
(***************************************************************************)

\* Every variable keeps its type.
ServerTypeOK ==
  /\ session \in [Sessions -> Uploads]
  /\ key \in Handlers \cup {None}
  /\ original \in [Contents -> Handlers \cup {None}]
  /\ assets \subseteq Contents
  /\ handler \in [Handlers -> [ at : {"idle", "full", "held", "keyed", "published", "stored"},
                                session : Sessions \cup {None}, copy : Handlers \cup {None},
                                client : Clients \cup {None} ]]
  /\ reply \in [Clients -> [ code : {"none", "waiting", "ok", "conflict", "gone", "error"},
                             offset : 0..Size, status : Status ]]
  /\ faults \in 0..MaxFaults

\* "Only successful publication/adoption consumes them" (commit_original): the
\* received bytes of an upload are in staging until they are published, whatever
\* fails in between and however often finalization is tried.
BytesAreKept ==
  \A s \in Sessions :
    session[s].status \in {"active", "complete"} /\ ~session[s].staged =>
      original[session[s].content] # None

\* "Two concurrent first uploads must never publish under different keys"
\* (persist_managed_asset): what the catalog shows can be decrypted.
AssetsAreReadable ==
  \A c \in assets : original[c] = key

\* A completed session has all its bytes and an asset of its content.
CompleteIsStored ==
  \A s \in Sessions :
    session[s].status = "complete" =>
      session[s].offset = Size /\ session[s].content \in assets

=============================================================================
