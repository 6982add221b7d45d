---------------------------- MODULE UploadsProofs ----------------------------
(***************************************************************************)
(* Uploads for any pages, runs, photos, sessions and handlers, and any     *)
(* size of an upload.                                                      *)
(*                                                                         *)
(* Row locks play no part in these properties.  They follow from what only *)
(* grows (a session that somebody knows keeps its content and never goes   *)
(* back, an original and an asset stay) and from who knows what: a handler *)
(* is past the last byte of its session (HandlerIsSound), it answers the   *)
(* one client that waits for it (ClientWaits), a page has only heard       *)
(* "complete" of what is stored (PageKnows), and a run that still owns a   *)
(* row has the row's session in hand (OwnerHolds).                         *)
(***************************************************************************)
EXTENDS Uploads, TLAPS

\* A session has a content and keeps its bytes until they are published, and one
\* that is complete is stored (what BytesAreKept and CompleteIsStored say of it).
SessionIsSound(s) ==
  /\ session[s].status # "none" => session[s].content \in Contents
  /\ session[s].status \in {"active", "complete"} /\ ~session[s].staged =>
       original[session[s].content] # None
  /\ session[s].status = "complete" =>
       session[s].offset = Size /\ session[s].content \in assets

\* A handler in finalization has a session with all its bytes.
HandlerIsSound(h) ==
  /\ handler[h].at = "idle" => handler[h] = Idle
  /\ handler[h].at # "idle" =>
       /\ handler[h].session \in Sessions
       /\ session[handler[h].session].status # "none"
       /\ session[handler[h].session].offset = Size
  /\ handler[h].at = "published" => original[Content(h)] # None
  /\ handler[h].at = "stored" => Content(h) \in assets

\* What the catalog shows has bytes.
ServerIsSound ==
  /\ ServerTypeOK
  /\ \A c \in assets : original[c] # None
  /\ \A s \in Sessions : SessionIsSound(s)
  /\ \A h \in Handlers : HandlerIsSound(h)

\* A client has at most one handler, and waits for it.
ClientWaits(h) ==
  LET p == handler[h].client IN
  p # None =>
    /\ reply[p] = Waiting /\ handler[h].at # "idle"
    /\ \A g \in Handlers : handler[g].client = p => g = h
    /\ p \in Web \cup Runs
    /\ p \in Web => web[p].at = "wait" /\ handler[h].session = p
    /\ p \in Runs => run[p].at = "wait" /\ handler[h].session = run[p].session

ClientsWait == \A h \in Handlers : ClientWaits(h)

\* What a page knows of its transfer.
PageKnows(w) ==
  /\ web[w].status = "none" <=> session[w].status = "none"
  /\ session[w].status # "none" => session[w].content = WebFile[w]
  /\ web[w].at \in {"send", "wait", "ask"} => web[w].status # "none" /\ web[w].stalls < MaxStalls
  /\ web[w].status = "complete" => WebFile[w] \in assets
  /\ web[w].at = "saved" => web[w].status = "complete"
  /\ reply[w].code = "ok" => reply[w].status # "none"
  /\ reply[w].status = "complete" => WebFile[w] \in assets

WebKnows == \A w \in Web : PageKnows(w)

\* A row of the queue names a session of its own photo, and a complete row one
\* that has all its bytes (CompleteIsReceived).
Names(v, s) == session[s].status # "none" /\ session[s].content = Photo[v]

RowIsSound(v) ==
  /\ queue[v].session # None => Names(v, queue[v].session)
  /\ queue[v].state \in {"queued", "uploading", "retry"} => queue[v].attempts < MaxAttempts
  /\ queue[v].state = "complete" => queue[v].session # None /\ session[queue[v].session].offset = Size

QueueIsSound == \A v \in Versions : RowIsSound(v)

\* So does a run that works on one, and it is not ahead of the server.
RunKnows(r) ==
  /\ run[r].attempts < MaxAttempts
  /\ run[r].at \in {"open", "create", "send", "wait"} => run[r].v \in Versions
  /\ run[r].at \in {"open", "send", "wait"} /\ run[r].session # None => Names(run[r].v, run[r].session)
  /\ run[r].at \in {"send", "wait"} =>
       run[r].session # None /\ run[r].offset <= session[run[r].session].offset
  /\ run[r].at = "wait" /\ reply[r].code = "ok" =>
       reply[r].offset <= session[run[r].session].offset

RunsKnow == \A r \in Runs : RunKnows(r)

\* A row has an owner only while that run uploads it, with the same session.
OwnerHolds(v, r) ==
  queue[v].owner = r =>
    /\ queue[v].state = "uploading" /\ run[r].v = v
    /\ run[r].at \in {"open", "create", "send", "wait", "release"}
    /\ run[r].at \in {"open", "send", "wait"} => queue[v].session = run[r].session

OwnersHold == \A v \in Versions, r \in Runs : OwnerHolds(v, r)

MobileIsSound == MobileTypeOK /\ QueueIsSound /\ RunsKnow /\ OwnersHold

\* The inductive invariant.
UploadsInv ==
  /\ ServerIsSound /\ ClientsWait
  /\ WebTypeOK /\ WebKnows
  /\ MobileIsSound

\* Nothing is uploaded yet.
LEMMA UploadsInitially == Init => UploadsInv
<1> SUFFICES ASSUME Init PROVE UploadsInv
  OBVIOUS
<1> USE DEF Init, ServerInit, WebInit, MobileInit
<1>0. /\ Size \in Nat \ {0} /\ MaxFaults \in Nat /\ MaxStalls \in Nat \ {0} /\ MaxAttempts \in Nat \ {0}
      /\ None \notin Sessions \cup Contents \cup Handlers \cup Clients
      /\ Web \subseteq Clients /\ Web \subseteq Sessions /\ Runs \subseteq Clients
  BY UploadAssumption, WebAssumption, MobileAssumption
<1>1. ServerTypeOK
  BY <1>0 DEF ServerTypeOK, Uploads, NoUpload, Status, Idle, NoReply, Refusal
<1>2. ServerIsSound
  BY <1>0, <1>1 DEF ServerIsSound, SessionIsSound, HandlerIsSound, NoUpload, Idle
<1>3. ClientsWait
  BY DEF ClientsWait, ClientWaits, Idle
<1>4. WebTypeOK /\ WebKnows
  BY <1>0 DEF WebTypeOK, WebTransfers, Status, WebKnows, PageKnows, NoUpload, NoReply, Refusal
<1>5. MobileTypeOK
  BY <1>0 DEF MobileTypeOK, Transfers, Owners, NoTransfer, IdleRun
<1>6. QueueIsSound /\ RunsKnow
  BY <1>0 DEF QueueIsSound, RowIsSound, RunsKnow, RunKnows, NoTransfer, IdleRun
<1>7. OwnersHold
  BY <1>0 DEF OwnersHold, OwnerHolds, NoTransfer
<1> QED
  BY <1>2, <1>3, <1>4, <1>5, <1>6, <1>7 DEF UploadsInv, MobileIsSound

(***************************************************************************)
(* The server                                                              *)
(***************************************************************************)

\* What only grows.
SessionGrows(s) ==
  /\ session'[s].content = session[s].content
  /\ session[s].offset <= session'[s].offset
  /\ session'[s].status = "none" <=> session[s].status = "none"

BytesGrow ==
  /\ assets \subseteq assets'
  /\ \A c \in Contents : original[c] # None => original'[c] # None

\* The rows of a handler stay what they are, but for its client.
HandlerStays(h) ==
  /\ handler'[h].at = handler[h].at /\ handler'[h].session = handler[h].session
  /\ handler[h] = Idle => handler'[h] = Idle

\* A server stays sound if its rows do and its handlers go on, or end.
LEMMA ServerStays ==
  ASSUME ServerIsSound, ServerTypeOK', BytesGrow,
         \A c \in assets' : c \in assets \/ original'[c] # None,
         \A s \in Sessions : session'[s] = session[s] \/ SessionIsSound(s)',
         \A h \in Handlers :
           handler[h].at # "idle" => SessionGrows(handler[h].session),
         \A h \in Handlers : HandlerStays(h) \/ HandlerIsSound(h)'
  PROVE  ServerIsSound'
<1>1. (\A c \in assets : original[c] # None)'
  BY DEF ServerIsSound, ServerTypeOK, BytesGrow
<1>2. ASSUME NEW s \in Sessions PROVE SessionIsSound(s)'
  <2>1. CASE session'[s] = session[s]
    BY <2>1 DEF ServerIsSound, SessionIsSound, BytesGrow, ServerTypeOK
  <2> QED
    BY <2>1
<1>3. ASSUME NEW h \in Handlers PROVE HandlerIsSound(h)'
  <2>1. CASE HandlerStays(h)
    <3>1. CASE handler[h].at = "idle"
      <4>1. handler'[h] = Idle
        BY <2>1, <3>1 DEF HandlerStays, ServerIsSound, HandlerIsSound
      <4> QED
        BY <4>1 DEF HandlerIsSound, Idle
    <3>2. CASE handler[h].at # "idle"
      <4> DEFINE s == handler[h].session
      <4>1. /\ s \in Sessions /\ session[s].status # "none" /\ session[s].offset = Size
            /\ session[s].content \in Contents
        BY <3>2 DEF ServerIsSound, HandlerIsSound, SessionIsSound
      <4>2. /\ handler'[h].at = handler[h].at /\ handler'[h].session = s
            /\ session'[s].status # "none" /\ session'[s].content = session[s].content
            /\ Size <= session'[s].offset
        BY <2>1, <3>2, <4>1 DEF HandlerStays, SessionGrows
      <4>3. session'[s].offset \in 0 .. Size
        BY <4>1 DEF ServerTypeOK, Uploads
      <4>4. session'[s].offset = Size
        BY <4>2, <4>3, UploadAssumption
      <4> QED
        BY <3>2, <4>1, <4>2, <4>4 DEF ServerIsSound, HandlerIsSound, Content, BytesGrow
    <3> QED
      BY <3>1, <3>2
  <2> QED
    BY <2>1
<1> QED
  BY <1>1, <1>2, <1>3 DEF ServerIsSound

\* A row that is not written, or only gets a flag, grows.
LEMMA SessionStays ==
  ASSUME ServerIsSound, NEW s \in Sessions, session'[s] = session[s]
  PROVE  SessionGrows(s)
<1>1. session[s].offset \in 0 .. Size
  BY DEF ServerIsSound, ServerTypeOK, Uploads
<1> QED
  BY <1>1, UploadAssumption DEF SessionGrows

\* Of create_upload: a session that no handler knows.
LEMMA CreateIsSound ==
  ASSUME ServerIsSound, NEW s \in Sessions, NEW c \in Contents, Create(s, c),
         \A h \in Handlers : handler[h].session # s,
         UNCHANGED << key, original, assets, handler, reply, faults >>
  PROVE  /\ ServerIsSound' /\ BytesGrow
         /\ \A x \in Sessions \ {s} : SessionGrows(x)
         /\ session'[s].status = "active" /\ session'[s].content = c /\ session'[s].offset = 0
<1> DEFINE up == [NoUpload EXCEPT !.status = "active", !.staged = TRUE, !.content = c]
<1>0. NoUpload \in Uploads /\ NoUpload.offset = 0
  BY UploadAssumption DEF NoUpload, Uploads, Status
<1>1. session' = [session EXCEPT ![s] = up]
  BY DEF Create
<1>2. session \in [Sessions -> Uploads]
  BY DEF ServerIsSound, ServerTypeOK
<1>3. /\ up \in Uploads /\ up.status = "active" /\ up.content = c /\ up.offset = 0 /\ up.staged
  BY <1>0 DEF Uploads, Status
<1> HIDE DEF up
<1>4. session'[s] = up /\ \A x \in Sessions \ {s} : session'[x] = session[x]
  BY <1>1, <1>2
<1>5. ServerTypeOK'
  BY <1>1, <1>2, <1>3 DEF ServerIsSound, ServerTypeOK
<1>6. BytesGrow /\ \A c1 \in assets' : c1 \in assets
  BY DEF BytesGrow
<1>7. \A x \in Sessions \ {s} : SessionGrows(x)
  BY <1>4, SessionStays
<1>8. SessionIsSound(s)'
  BY <1>3, <1>4 DEF SessionIsSound
<1>9. \A h \in Handlers : handler[h].at # "idle" => SessionGrows(handler[h].session)
  BY <1>7 DEF ServerIsSound, HandlerIsSound
<1>10. \A h \in Handlers : HandlerStays(h)
  BY DEF HandlerStays
<1>11. ServerIsSound'
  BY <1>4, <1>5, <1>6, <1>8, <1>9, <1>10, ServerStays
<1> QED
  BY <1>3, <1>4, <1>6, <1>7, <1>11

\* A step that leaves the server alone, but for answers and clients.
LEMMA OnlyClientsMove ==
  ASSUME ServerIsSound, UNCHANGED << session, key, original, assets >>, ServerTypeOK',
         \A h \in Handlers : HandlerStays(h)
  PROVE  ServerIsSound' /\ BytesGrow /\ \A s \in Sessions : SessionGrows(s)
<1>1. BytesGrow /\ \A c \in assets' : c \in assets
  BY DEF BytesGrow
<1>2. \A s \in Sessions : SessionGrows(s)
  BY SessionStays
<1>3. \A h \in Handlers : handler[h].at # "idle" => SessionGrows(handler[h].session)
  BY <1>2 DEF ServerIsSound, HandlerIsSound
<1>4. ServerIsSound'
  BY <1>1, <1>3, ServerStays
<1> QED
  BY <1>1, <1>2, <1>4

\* A row with a field changed is a row, and its other fields are what they were.
LEMMA StatusField ==
  ASSUME NEW up \in Uploads, NEW status \in Status
  PROVE  LET new == [up EXCEPT !.status = status] IN
           /\ new \in Uploads /\ new.status = status /\ new.offset = up.offset
           /\ new.staged = up.staged /\ new.content = up.content
BY DEF Uploads

LEMMA OffsetField ==
  ASSUME NEW up \in Uploads, NEW offset \in 0 .. Size
  PROVE  LET new == [up EXCEPT !.offset = offset] IN
           /\ new \in Uploads /\ new.offset = offset /\ new.status = up.status
           /\ new.staged = up.staged /\ new.content = up.content
BY DEF Uploads

LEMMA FlagFields ==
  ASSUME NEW up \in Uploads, NEW flag \in BOOLEAN
  PROVE  /\ LET new == [up EXCEPT !.staged = flag] IN
              /\ new \in Uploads /\ new.staged = flag /\ new.offset = up.offset
              /\ new.status = up.status /\ new.content = up.content
         /\ LET new == [up EXCEPT !.expired = flag] IN
              /\ new \in Uploads /\ new.staged = up.staged /\ new.offset = up.offset
              /\ new.status = up.status /\ new.content = up.content
BY DEF Uploads

\* One row moves on.
LEMMA SessionMoves ==
  ASSUME ServerIsSound, NEW s \in Sessions, session[s].status # "none",
         NEW up \in Uploads, session' = [session EXCEPT ![s] = up],
         up.content = session[s].content, up.status # "none", session[s].offset <= up.offset
  PROVE  /\ session' \in [Sessions -> Uploads]
         /\ session'[s] = up /\ \A x \in Sessions \ {s} : session'[x] = session[x]
         /\ \A x \in Sessions : SessionGrows(x)
<1>1. session \in [Sessions -> Uploads]
  BY DEF ServerIsSound, ServerTypeOK
<1>2. session'[s] = up /\ \A x \in Sessions \ {s} : session'[x] = session[x]
  BY <1>1
<1>3. ASSUME NEW x \in Sessions PROVE SessionGrows(x)
  <2>1. CASE x = s
    BY <1>2, <2>1 DEF SessionGrows
  <2>2. CASE x # s
    BY <1>2, <2>2, SessionStays
  <2> QED
    BY <2>1, <2>2
<1> QED
  BY <1>1, <1>2, <1>3

\* What a PATCH for s leaves: an answer at once, or a handler for the client.
Answered(p, h, s) ==
  /\ handler' = handler
  /\ reply'[p].status \in {"none", "active"}
  /\ reply'[p].code = "ok" => reply'[p].status = "active" /\ reply'[p].offset <= session'[s].offset

Accepted(p, h, s) ==
  /\ handler[h] = Idle /\ reply'[p] = Waiting
  /\ handler'[h].at # "idle" /\ handler'[h].client = p /\ handler'[h].session = s
  /\ \A g \in Handlers \ {h} : handler'[g] = handler[g]

\* The answers of the server are answers.
LEMMA Answers ==
  ASSUME ServerIsSound, NEW p \in Clients, NEW answer, Answer(p, answer),
         answer \in {Waiting, NoReply, Refusal("conflict"), Refusal("gone"), Refusal("error")}
  PROVE  /\ reply' \in [Clients -> [ code : {"none", "waiting", "ok", "conflict", "gone", "error"},
                                     offset : 0..Size, status : Status ]]
         /\ reply'[p] = answer /\ answer.code # "ok" /\ answer.status = "none"
         /\ \A q \in Clients \ {p} : reply'[q] = reply[q]
<1>1. answer \in [ code : {"none", "waiting", "ok", "conflict", "gone", "error"},
                   offset : 0..Size, status : Status ]
  BY UploadAssumption DEF Waiting, NoReply, Refusal, Status
<1>2. answer.code # "ok" /\ answer.status = "none"
  BY DEF Waiting, NoReply, Refusal
<1> QED
  BY <1>1, <1>2 DEF Answer, ServerIsSound, ServerTypeOK

\* A handler that takes the request of p.
LEMMA AcceptIsSound ==
  ASSUME ServerIsSound, NEW p \in Clients, NEW h \in Handlers, NEW s \in Sessions,
         NEW at \in {"full", "held"}, Accept(p, h, s, at),
         session' \in [Sessions -> Uploads], session'[s].status = "active", session'[s].offset = Size,
         \A x \in Sessions : SessionGrows(x),
         \A x \in Sessions : session'[x] = session[x] \/ SessionIsSound(x)',
         UNCHANGED << key, original, assets, faults >>
  PROVE  /\ ServerIsSound' /\ BytesGrow /\ Accepted(p, h, s)
         /\ \A q \in Clients \ {p} : reply'[q] = reply[q]
<1> DEFINE new == [ at |-> at, session |-> s, copy |-> key, client |-> p ]
<1>1. handler[h] = Idle /\ handler' = [handler EXCEPT ![h] = new] /\ Answer(p, Waiting)
  BY DEF Accept
<1>2. /\ new.at = at /\ new.session = s /\ new.client = p
      /\ new \in [ at : {"idle", "full", "held", "keyed", "published", "stored"},
                   session : Sessions \cup {None}, copy : Handlers \cup {None},
                   client : Clients \cup {None} ]
  BY DEF ServerIsSound, ServerTypeOK
<1> HIDE DEF new
<1>3. /\ handler'[h] = new /\ \A g \in Handlers \ {h} : handler'[g] = handler[g]
      /\ handler' \in [Handlers -> [ at : {"idle", "full", "held", "keyed", "published", "stored"},
                                     session : Sessions \cup {None}, copy : Handlers \cup {None},
                                     client : Clients \cup {None} ]]
  BY <1>1, <1>2 DEF ServerIsSound, ServerTypeOK
<1>4. /\ reply' \in [Clients -> [ code : {"none", "waiting", "ok", "conflict", "gone", "error"},
                                  offset : 0..Size, status : Status ]]
      /\ reply'[p] = Waiting /\ \A q \in Clients \ {p} : reply'[q] = reply[q]
  BY <1>1, Answers
<1>5. ServerTypeOK'
  BY <1>3, <1>4 DEF ServerIsSound, ServerTypeOK
<1>6. BytesGrow /\ \A c \in assets' : c \in assets
  BY DEF BytesGrow
<1>7. HandlerIsSound(h)'
  BY <1>2, <1>3 DEF HandlerIsSound
<1>8. \A g \in Handlers : HandlerStays(g) \/ HandlerIsSound(g)'
  BY <1>3, <1>7 DEF HandlerStays
<1>9. \A g \in Handlers : handler[g].at # "idle" => SessionGrows(handler[g].session)
  BY DEF ServerIsSound, HandlerIsSound
<1>10. ServerIsSound'
  BY <1>5, <1>6, <1>8, <1>9, ServerStays
<1> QED
  BY <1>1, <1>2, <1>3, <1>4, <1>6, <1>10 DEF Accepted

\* A PATCH that is answered at once, whatever it has done to its row.
LEMMA AnswerIsSound ==
  ASSUME ServerIsSound, NEW p \in Clients, NEW s \in Sessions,
         session' \in [Sessions -> Uploads], UNCHANGED << key, original, assets, handler >>,
         faults' \in 0 .. MaxFaults,
         \A x \in Sessions : SessionGrows(x),
         \A x \in Sessions : session'[x] = session[x] \/ SessionIsSound(x)',
         reply' \in [Clients -> [ code : {"none", "waiting", "ok", "conflict", "gone", "error"},
                                  offset : 0..Size, status : Status ]]
  PROVE  ServerIsSound' /\ BytesGrow
<1>1. ServerTypeOK'
  BY DEF ServerIsSound, ServerTypeOK
<1>2. BytesGrow /\ \A c \in assets' : c \in assets
  BY DEF BytesGrow
<1>3. \A g \in Handlers : handler[g].at # "idle" => SessionGrows(handler[g].session)
  BY DEF ServerIsSound, HandlerIsSound
<1>4. \A g \in Handlers : HandlerStays(g)
  BY DEF HandlerStays
<1> QED
  BY <1>1, <1>2, <1>3, <1>4, ServerStays

\* What a PATCH does, and what must be true of it.
Patched(p, h, s) ==
  /\ ServerIsSound' /\ BytesGrow /\ \A x \in Sessions : SessionGrows(x)
  /\ Answered(p, h, s) \/ Accepted(p, h, s)
  /\ \A q \in Clients \ {p} : reply'[q] = reply[q]

Refuses(p, answer) == Answer(p, answer) /\ UNCHANGED << session, handler >>
Expires(p, s) ==
  /\ session[s].status = "active" /\ session' = [session EXCEPT ![s].status = "expired"]
  /\ Answer(p, Refusal("gone")) /\ UNCHANGED handler
Appends(p, h, s, offset) ==
  /\ session[s].status = "active" /\ session[s].staged /\ offset = session[s].offset /\ offset < Size
  /\ session' = [session EXCEPT ![s].offset = offset + 1]
  /\ IF offset + 1 < Size
     THEN Answer(p, Ok(offset + 1, "active")) /\ UNCHANGED handler
     ELSE Accept(p, h, s, "full")
Empties(p, h, s) ==
  /\ session[s].status = "active" /\ session[s].offset = Size
  /\ Accept(p, h, s, "held") /\ UNCHANGED session

\* A refusal changes nothing.
LEMMA RefusalIsSound ==
  ASSUME ServerIsSound, NEW p \in Clients, NEW h \in Handlers, NEW s \in Sessions,
         NEW answer \in {Refusal("conflict"), Refusal("gone"), Refusal("error")},
         Refuses(p, answer), UNCHANGED << key, original, assets >>, faults' \in 0 .. MaxFaults
  PROVE  Patched(p, h, s)
<1> USE DEF Refuses
<1>1. \A x \in Sessions : SessionGrows(x)
  BY SessionStays
<1>2. /\ reply' \in [Clients -> [ code : {"none", "waiting", "ok", "conflict", "gone", "error"},
                                  offset : 0..Size, status : Status ]]
      /\ reply'[p] = answer /\ answer.code # "ok" /\ answer.status = "none"
      /\ \A q \in Clients \ {p} : reply'[q] = reply[q]
  BY Answers
<1>3. ServerIsSound' /\ BytesGrow
  BY <1>1, <1>2, AnswerIsSound DEF ServerIsSound, ServerTypeOK
<1> QED
  BY <1>1, <1>2, <1>3 DEF Answered, Patched

\* A session whose time is over only changes its status.
LEMMA ExpiryIsSound ==
  ASSUME ServerIsSound, NEW p \in Clients, NEW h \in Handlers, NEW s \in Sessions,
         Expires(p, s), UNCHANGED << key, original, assets, faults >>
  PROVE  Patched(p, h, s)
<1> DEFINE new == [session[s] EXCEPT !.status = "expired"]
<1>1. session' = [session EXCEPT ![s] = new] /\ session[s].status = "active"
  BY DEF Expires
<1>2. session[s] \in Uploads /\ session[s].offset \in 0 .. Size /\ SessionIsSound(s)
  BY DEF ServerIsSound, ServerTypeOK, Uploads
<1>3. new \in Uploads /\ new.content = session[s].content /\ new.status = "expired" /\ new.offset = session[s].offset
  BY <1>2, StatusField DEF Status
<1> HIDE DEF new
<1>4. /\ session' \in [Sessions -> Uploads] /\ session'[s] = new
      /\ \A x \in Sessions \ {s} : session'[x] = session[x]
      /\ \A x \in Sessions : SessionGrows(x)
  <2>1. session[s].offset <= new.offset
    BY <1>2, <1>3, UploadAssumption
  <2> QED
    BY <1>1, <1>3, <2>1, SessionMoves
<1>5. SessionIsSound(s)'
  BY <1>1, <1>2, <1>3, <1>4 DEF SessionIsSound
<1>6. Answer(p, Refusal("gone")) /\ handler' = handler
  BY DEF Expires
<1>7. /\ reply' \in [Clients -> [ code : {"none", "waiting", "ok", "conflict", "gone", "error"},
                                  offset : 0..Size, status : Status ]]
      /\ reply'[p] = Refusal("gone") /\ Refusal("gone").code # "ok" /\ Refusal("gone").status = "none"
      /\ \A q \in Clients \ {p} : reply'[q] = reply[q]
  BY <1>6, Answers
<1>8. faults' \in 0 .. MaxFaults
  BY DEF ServerIsSound, ServerTypeOK
<1>9. ServerIsSound' /\ BytesGrow
  BY <1>4, <1>5, <1>6, <1>7, <1>8, AnswerIsSound
<1> QED
  BY <1>4, <1>6, <1>7, <1>9 DEF Answered, Patched

\* A chunk, and maybe the last one.
LEMMA ChunkIsSound ==
  ASSUME ServerIsSound, NEW p \in Clients, NEW h \in Handlers, NEW s \in Sessions, NEW offset \in 0 .. Size,
         Appends(p, h, s, offset), UNCHANGED << key, original, assets, faults >>
  PROVE  Patched(p, h, s)
<1> DEFINE next == offset + 1
<1>1. /\ offset < Size /\ session[s].staged /\ session[s].status = "active" /\ offset = session[s].offset
      /\ IF next < Size THEN Answer(p, Ok(next, "active")) /\ handler' = handler
         ELSE Accept(p, h, s, "full")
  BY DEF Appends
<1>2. next \in 0 .. Size /\ offset <= next /\ next <= next /\ (~(next < Size) => next = Size)
  BY <1>1, UploadAssumption
<1> DEFINE new == [session[s] EXCEPT !.offset = next]
<1>3. session' = [session EXCEPT ![s] = new]
  BY DEF Appends
<1> HIDE DEF next
<1>4. session[s] \in Uploads /\ SessionIsSound(s)
  BY DEF ServerIsSound, ServerTypeOK, Uploads
<1>5. /\ new \in Uploads /\ new.content = session[s].content /\ new.status = "active" /\ new.offset = next
      /\ new.staged
  BY <1>1, <1>2, <1>4, OffsetField
<1> HIDE DEF new
<1>6. /\ session' \in [Sessions -> Uploads] /\ session'[s] = new
      /\ \A x \in Sessions \ {s} : session'[x] = session[x]
      /\ \A x \in Sessions : SessionGrows(x)
  BY <1>1, <1>2, <1>3, <1>5, SessionMoves
<1>7. SessionIsSound(s)'
  BY <1>1, <1>4, <1>5, <1>6 DEF SessionIsSound
<1>8. CASE next < Size
  <2> DEFINE answer == Ok(next, "active")
  <2>1. /\ answer \in [ code : {"none", "waiting", "ok", "conflict", "gone", "error"},
                        offset : 0..Size, status : Status ]
        /\ answer.code = "ok" /\ answer.status = "active" /\ answer.offset = next
    BY <1>2 DEF Ok, Status
  <2>2. Answer(p, answer) /\ handler' = handler
    BY <1>1, <1>8
  <2> HIDE DEF answer
  <2>3. /\ reply' \in [Clients -> [ code : {"none", "waiting", "ok", "conflict", "gone", "error"},
                                    offset : 0..Size, status : Status ]]
        /\ reply'[p] = answer /\ \A q \in Clients \ {p} : reply'[q] = reply[q]
    BY <2>1, <2>2 DEF Answer, ServerIsSound, ServerTypeOK
  <2>4. faults' \in 0 .. MaxFaults
    BY DEF ServerIsSound, ServerTypeOK
  <2>5. ServerIsSound' /\ BytesGrow
    BY <1>6, <1>7, <2>2, <2>3, <2>4, AnswerIsSound
  <2> QED
    BY <1>2, <1>5, <1>6, <2>1, <2>2, <2>3, <2>5 DEF Answered, Patched
<1>9. CASE ~(next < Size)
  <2>1. Accept(p, h, s, "full") /\ session'[s].offset = Size /\ session'[s].status = "active"
    BY <1>1, <1>2, <1>5, <1>6, <1>9
  <2>2. /\ ServerIsSound' /\ BytesGrow /\ Accepted(p, h, s)
        /\ \A q \in Clients \ {p} : reply'[q] = reply[q]
    BY <1>6, <1>7, <2>1, AcceptIsSound
  <2> QED
    BY <1>6, <2>2 DEF Patched
<1> QED
  BY <1>8, <1>9

\* Of append_upload.
LEMMA PatchIsSound ==
  ASSUME ServerIsSound, NEW p \in Clients, NEW h \in Handlers, NEW s \in Sessions, NEW offset \in 0 .. Size,
         Patch(p, h, s, offset), UNCHANGED << key, original, assets >>
  PROVE  Patched(p, h, s)
<1>1. faults \in 0 .. MaxFaults /\ (Fault => faults' \in 0 .. MaxFaults)
  BY UploadAssumption DEF Fault, ServerIsSound, ServerTypeOK
<1>2. CASE Append(p, h, s, offset) /\ UNCHANGED faults
  <2>1. \/ Refuses(p, Refusal("conflict")) \/ Refuses(p, Refusal("gone")) \/ Expires(p, s)
        \/ Appends(p, h, s, offset) \/ Empties(p, h, s)
    BY <1>2 DEF Append, Refuses, Expires, Appends, Empties
  <2>2. CASE Refuses(p, Refusal("conflict")) \/ Refuses(p, Refusal("gone"))
    BY <1>1, <1>2, <2>2, RefusalIsSound
  <2>3. CASE Expires(p, s)
    BY <1>2, <2>3, ExpiryIsSound
  <2>4. CASE Appends(p, h, s, offset)
    BY <1>2, <2>4, ChunkIsSound
  <2>5. CASE Empties(p, h, s)
    <3>1. /\ session' = session /\ session \in [Sessions -> Uploads] /\ \A x \in Sessions : SessionGrows(x)
          /\ Accept(p, h, s, "held") /\ session[s].status = "active" /\ session[s].offset = Size
      BY <2>5, SessionStays DEF Empties, ServerIsSound, ServerTypeOK
    <3>2. /\ ServerIsSound' /\ BytesGrow /\ Accepted(p, h, s)
          /\ \A q \in Clients \ {p} : reply'[q] = reply[q]
      BY <1>2, <3>1, AcceptIsSound
    <3> QED
      BY <3>1, <3>2 DEF Patched
  <2> QED
    BY <2>1, <2>2, <2>3, <2>4, <2>5
<1>3. CASE Fault /\ Refuses(p, Refusal("error"))
  BY <1>1, <1>3, RefusalIsSound
<1> QED
  BY <1>2, <1>3 DEF Patch, Refuses

\* What a step of a handler does to the handlers and to its client.
GoesOn(h) ==
  /\ handler[h].at # "idle" /\ handler'[h].at # "idle"
  /\ handler'[h].session = handler[h].session /\ handler'[h].client = handler[h].client
  /\ \A g \in Handlers \ {h} : handler'[g] = handler[g]
  /\ reply' = reply

Finishes(h, answer) ==
  /\ answer = Ok(Size, "complete") => Content(h) \in assets
  /\ handler'[h] = Idle /\ \A g \in Handlers \ {h} : handler'[g] = handler[g]
  /\ \A p \in Clients : reply'[p] = IF p = handler[h].client THEN answer ELSE reply[p]

HandlerMoves(h) ==
  /\ ServerIsSound' /\ BytesGrow /\ \A s \in Sessions : SessionGrows(s)
  /\ GoesOn(h) \/ \E answer \in {Refusal("error"), Ok(Size, "complete")} : Finishes(h, answer)

HandlerRows == [ at : {"idle", "full", "held", "keyed", "published", "stored"},
                 session : Sessions \cup {None}, copy : Handlers \cup {None},
                 client : Clients \cup {None} ]

\* The bytes and rows may change under a handler that ends.
FilesMove ==
  /\ session' \in [Sessions -> Uploads] /\ original' \in [Contents -> Handlers \cup {None}]
  /\ BytesGrow /\ \A s \in Sessions : SessionGrows(s)
  /\ \A s \in Sessions : session'[s] = session[s] \/ SessionIsSound(s)'
  /\ faults' \in 0 .. MaxFaults

\* A handler that ends tells its client, if that still waits.
LEMMA EndIsSound ==
  ASSUME ServerIsSound, NEW h \in Handlers, NEW answer \in {Refusal("error"), Ok(Size, "complete")},
         End(h, answer), answer = Ok(Size, "complete") => Content(h) \in assets,
         FilesMove, UNCHANGED << key, assets >>
  PROVE  HandlerMoves(h)
<1>1. /\ answer \in [ code : {"none", "waiting", "ok", "conflict", "gone", "error"},
                      offset : 0..Size, status : Status ]
      /\ Idle \in HandlerRows
  BY UploadAssumption DEF Refusal, Ok, Status, Idle, HandlerRows
<1>2. /\ handler \in [Handlers -> HandlerRows] /\ handler' = [handler EXCEPT ![h] = Idle]
      /\ reply' = IF handler[h].client = None THEN reply ELSE [reply EXCEPT ![handler[h].client] = answer]
  BY DEF ServerIsSound, ServerTypeOK, End, HandlerRows
<1>3. /\ handler' \in [Handlers -> HandlerRows] /\ handler'[h] = Idle
      /\ \A g \in Handlers \ {h} : handler'[g] = handler[g]
  BY <1>1, <1>2
<1>4. handler[h].client \in Clients \cup {None}
  BY <1>2 DEF HandlerRows
<1>5. /\ reply' \in [Clients -> [ code : {"none", "waiting", "ok", "conflict", "gone", "error"},
                                  offset : 0..Size, status : Status ]]
      /\ \A p \in Clients : reply'[p] = IF p = handler[h].client THEN answer ELSE reply[p]
  BY <1>1, <1>2, <1>4, UploadAssumption DEF ServerIsSound, ServerTypeOK
<1>6. Finishes(h, answer)
  BY <1>3, <1>5 DEF Finishes
<1>7. ServerTypeOK'
  BY <1>3, <1>5 DEF ServerIsSound, ServerTypeOK, FilesMove, HandlerRows
<1>8. \A g \in Handlers : HandlerStays(g) \/ HandlerIsSound(g)'
  <2>1. HandlerIsSound(h)'
    BY <1>3 DEF HandlerIsSound, Idle
  <2> QED
    BY <1>3, <2>1 DEF HandlerStays
<1>9. ServerIsSound'
  <2>1. \A g \in Handlers : handler[g].at # "idle" => SessionGrows(handler[g].session)
    BY DEF FilesMove, ServerIsSound, HandlerIsSound
  <2> QED
    BY <1>7, <1>8, <2>1, ServerStays DEF FilesMove
<1> QED
  BY <1>6, <1>9 DEF HandlerMoves, FilesMove

\* A handler that goes on.
LEMMA WorkIsSound ==
  ASSUME ServerIsSound, NEW h \in Handlers, NEW new \in HandlerRows, handler[h].at # "idle",
         handler' = [handler EXCEPT ![h] = new], new.at # "idle",
         new.session = handler[h].session, new.client = handler[h].client, HandlerIsSound(h)',
         FilesMove, reply' = reply, key' \in Handlers \cup {None}, assets' \subseteq Contents,
         \A c \in assets' : c \in assets \/ original'[c] # None
  PROVE  HandlerMoves(h)
<1>1. /\ handler' \in [Handlers -> HandlerRows] /\ handler'[h] = new
      /\ \A g \in Handlers \ {h} : handler'[g] = handler[g]
  BY DEF ServerIsSound, ServerTypeOK, HandlerRows
<1>2. GoesOn(h)
  BY <1>1 DEF GoesOn
<1>3. ServerTypeOK'
  BY <1>1 DEF ServerIsSound, ServerTypeOK, FilesMove, HandlerRows
<1>4. ServerIsSound'
  <2>1. \A g \in Handlers : handler[g].at # "idle" => SessionGrows(handler[g].session)
    BY DEF FilesMove, ServerIsSound, HandlerIsSound
  <2>2. \A g \in Handlers : HandlerStays(g) \/ HandlerIsSound(g)'
    BY <1>1 DEF HandlerStays
  <2> QED
    BY <1>3, <2>1, <2>2, ServerStays DEF FilesMove
<1> QED
  BY <1>2, <1>4 DEF HandlerMoves, FilesMove

\* What a handler has in hand.
LEMMA HandlerHas ==
  ASSUME ServerIsSound, NEW h \in Handlers, handler[h].at # "idle"
  PROVE  /\ handler[h].session \in Sessions /\ Content(h) \in Contents
         /\ Content(h) = session[handler[h].session].content
         /\ session[handler[h].session] \in Uploads /\ session[handler[h].session].offset = Size
         /\ session[handler[h].session].status # "none" /\ SessionIsSound(handler[h].session)
         /\ handler[h] \in HandlerRows
BY DEF ServerIsSound, HandlerIsSound, SessionIsSound, ServerTypeOK, HandlerRows, Content

\* Nothing moves.
LEMMA FilesStay ==
  ASSUME ServerIsSound, UNCHANGED << session, original >>, assets \subseteq assets', faults' \in 0 .. MaxFaults
  PROVE  FilesMove
<1>1. \A s \in Sessions : SessionGrows(s)
  BY SessionStays
<1> QED
  BY <1>1 DEF FilesMove, BytesGrow, ServerIsSound, ServerTypeOK

\* An original is published under a key, and its staging file may go.
LEMMA FilesPublished ==
  ASSUME ServerIsSound, NEW c \in Contents, NEW k \in Handlers,
         original' = [original EXCEPT ![c] = k], UNCHANGED session, assets' = assets,
         faults' \in 0 .. MaxFaults
  PROVE  FilesMove /\ original'[c] # None
<1>1. /\ original' \in [Contents -> Handlers \cup {None}] /\ original'[c] = k
      /\ \A x \in Contents \ {c} : original'[x] = original[x]
  BY DEF ServerIsSound, ServerTypeOK
<1>2. BytesGrow /\ k # None
  BY <1>1, UploadAssumption DEF BytesGrow
<1>3. \A s \in Sessions : SessionGrows(s)
  BY SessionStays
<1> QED
  BY <1>1, <1>2, <1>3 DEF FilesMove, ServerIsSound, ServerTypeOK

\* A session of which the original or the asset is there loses its staging file.
LEMMA StagingGone ==
  ASSUME ServerIsSound, NEW s \in Sessions, session[s].status # "none",
         session' = [session EXCEPT ![s].staged = FALSE], original'[session[s].content] # None,
         original' \in [Contents -> Handlers \cup {None}], BytesGrow, assets' = assets,
         faults' \in 0 .. MaxFaults
  PROVE  FilesMove
<1> DEFINE new == [session[s] EXCEPT !.staged = FALSE]
<1>1. session' = [session EXCEPT ![s] = new]
  OBVIOUS
<1>2. session[s] \in Uploads /\ session[s].offset \in 0 .. Size /\ SessionIsSound(s)
  BY DEF ServerIsSound, ServerTypeOK, Uploads
<1>3. /\ new \in Uploads /\ new.content = session[s].content /\ new.status = session[s].status
      /\ new.offset = session[s].offset
  BY <1>2, FlagFields
<1>4. new.offset <= new.offset
  BY <1>2, <1>3, UploadAssumption
<1> HIDE DEF new
<1>5. /\ session' \in [Sessions -> Uploads] /\ session'[s] = new
      /\ \A x \in Sessions \ {s} : session'[x] = session[x]
      /\ \A x \in Sessions : SessionGrows(x)
  BY <1>1, <1>3, <1>4, SessionMoves
<1>6. SessionIsSound(s)'
  BY <1>2, <1>3, <1>5 DEF SessionIsSound
<1> QED
  BY <1>5, <1>6 DEF FilesMove

\* A session whose content is stored is complete, with or without a staging file.
LEMMA SessionCompletes ==
  ASSUME ServerIsSound, NEW s \in Sessions, session[s].status # "none", session[s].offset = Size,
         session[s].content \in assets,
         \/ session' = [session EXCEPT ![s].status = "complete"]
         \/ session' = [session EXCEPT ![s].staged = FALSE, ![s].status = "complete"],
         UNCHANGED << original, assets >>, faults' = faults
  PROVE  FilesMove
<1> DEFINE c == session[s].content
<1>1. /\ s \in Sessions /\ session[s] \in Uploads /\ session[s].status # "none"
      /\ session[s].content = c /\ c \in Contents /\ session[s].offset = Size
  BY DEF ServerIsSound, ServerTypeOK, SessionIsSound
<1>2. original[c] # None /\ session \in [Sessions -> Uploads] /\ faults' \in 0 .. MaxFaults
  BY DEF ServerIsSound, ServerTypeOK
<1>3. PICK up \in Uploads : up.content = session[s].content /\ up.status = session[s].status
                            /\ up.offset = session[s].offset
                            /\ session' = [session EXCEPT ![s] = [up EXCEPT !.status = "complete"]]
  <2>1. CASE session' = [session EXCEPT ![s].status = "complete"]
    BY <1>1, <2>1
  <2>2. CASE session' = [session EXCEPT ![s].staged = FALSE, ![s].status = "complete"]
    <3> DEFINE up == [session[s] EXCEPT !.staged = FALSE]
    <3>1. /\ up \in Uploads /\ up.content = session[s].content /\ up.status = session[s].status
          /\ up.offset = session[s].offset
      BY <1>1, FlagFields
    <3>2. session' = [session EXCEPT ![s] = [up EXCEPT !.status = "complete"]]
      BY <1>1, <1>2, <2>2
    <3> QED
      BY <3>1, <3>2
  <2> QED
    BY <2>1, <2>2
<1> DEFINE new == [up EXCEPT !.status = "complete"]
<1>4. /\ new \in Uploads /\ new.content = c /\ new.status = "complete" /\ new.offset = Size
  BY <1>1, <1>3, StatusField DEF Status
<1>5. session' = [session EXCEPT ![s] = new] /\ Size <= Size
  BY <1>3, UploadAssumption
<1> HIDE DEF new, c
<1>6. /\ session' \in [Sessions -> Uploads] /\ session'[s] = new
      /\ \A x \in Sessions \ {s} : session'[x] = session[x]
      /\ \A x \in Sessions : SessionGrows(x)
  BY <1>1, <1>4, <1>5, SessionMoves
<1>7. SessionIsSound(s)' /\ BytesGrow
  BY <1>1, <1>2, <1>4, <1>6 DEF SessionIsSound, BytesGrow, c
<1> QED
  BY <1>2, <1>6, <1>7 DEF FilesMove, ServerIsSound, ServerTypeOK

\* Of persist_managed_asset and the rest of append_upload, also when it fails or
\* is killed on the way.
LEMMA HandlerStepIsSound ==
  ASSUME ServerIsSound, NEW h \in Handlers,
         HandlerStep(h) \/ HandlerFails(h) \/ HandlerKilledBetween(h)
  PROVE  HandlerMoves(h)
<1> DEFINE s == handler[h].session
           c == Content(h)
           old == handler[h]
<1>a. /\ faults \in 0 .. MaxFaults /\ (Fault => faults' \in 0 .. MaxFaults)
      /\ original \in [Contents -> Handlers \cup {None}] /\ assets \subseteq Contents
      /\ key \in Handlers \cup {None} /\ h # None
  BY UploadAssumption DEF Fault, ServerIsSound, ServerTypeOK
<1>b. Finalizing(h) => old.at # "idle"
  BY DEF Finalizing
<1>c. ASSUME old.at # "idle"
      PROVE  /\ s \in Sessions /\ c \in Contents /\ c = session[s].content
             /\ session[s] \in Uploads /\ session[s].offset = Size
             /\ session[s].status # "none" /\ SessionIsSound(s) /\ old \in HandlerRows
  BY <1>c, HandlerHas
<1>1. CASE InitializeKey(h)
  <2> DEFINE new == [old EXCEPT !.at = "keyed", !.copy = h]
  <2>1. /\ old.at # "idle" /\ handler' = [handler EXCEPT ![h] = new] /\ key' = h
        /\ UNCHANGED << session, original, assets, reply, faults >>
    BY <1>1, <1>b DEF InitializeKey
  <2>2. /\ new \in HandlerRows /\ new.at = "keyed" /\ new.session = s /\ new.client = old.client
    BY <1>c, <2>1 DEF HandlerRows
  <2> HIDE DEF new
  <2>3. handler'[h] = new
    BY <2>1 DEF ServerIsSound, ServerTypeOK
  <2>4. HandlerIsSound(h)'
    BY <1>c, <2>1, <2>2, <2>3 DEF HandlerIsSound
  <2>5. FilesMove
    BY <1>a, <2>1, FilesStay
  <2> QED
    BY <1>a, <2>1, <2>2, <2>4, <2>5, WorkIsSound
<1>2. CASE AnswerDuplicate(h)
  <2>1. /\ old.at # "idle" /\ c \in assets /\ End(h, Ok(Size, "complete"))
        /\ session' = [session EXCEPT ![s].staged = FALSE, ![s].status = "complete"]
        /\ UNCHANGED << key, original, assets, faults >>
    BY <1>2, <1>b DEF AnswerDuplicate
  <2>2. FilesMove
    BY <1>c, <2>1, SessionCompletes
  <2> QED
    BY <1>c, <2>1, <2>2, EndIsSound
<1>3. CASE Publish(h)
  <2> DEFINE new == [old EXCEPT !.at = "published"]
             k == old.copy
  <2>1. /\ old.at # "idle" /\ handler' = [handler EXCEPT ![h] = new] /\ k # None
        /\ session' = [session EXCEPT ![s].staged = FALSE]
        /\ original' = [original EXCEPT ![c] = k]
        /\ UNCHANGED << key, assets, reply, faults >>
    BY <1>3, <1>b DEF Publish
  <2>2. /\ new \in HandlerRows /\ new.at = "published" /\ new.session = s /\ new.client = old.client
        /\ k \in Handlers
    BY <1>c, <2>1 DEF HandlerRows
  <2> HIDE DEF new, k
  <2>3. handler'[h] = new
    BY <2>1 DEF ServerIsSound, ServerTypeOK
  <2>4. /\ original' \in [Contents -> Handlers \cup {None}] /\ original'[c] # None
        /\ BytesGrow
    BY <1>a, <1>c, <2>1, <2>2, UploadAssumption DEF BytesGrow
  <2>5. FilesMove
    BY <1>a, <1>c, <2>1, <2>4, StagingGone
  <2>6. HandlerIsSound(h)'
    <3>1. SessionGrows(s) /\ session' \in [Sessions -> Uploads]
      BY <1>c, <2>1, <2>5 DEF FilesMove
    <3>2. session'[s].offset \in 0 .. Size /\ session'[s].status # "none" /\ session'[s].content = c
      BY <1>c, <2>1, <3>1 DEF Uploads, SessionGrows
    <3>3. session'[s].offset = Size
      BY <1>c, <2>1, <3>1, <3>2, UploadAssumption DEF SessionGrows
    <3> QED
      BY <1>c, <2>1, <2>2, <2>3, <2>4, <3>2, <3>3 DEF HandlerIsSound, Content
  <2> QED
    BY <1>a, <2>1, <2>2, <2>5, <2>6, WorkIsSound
<1>4. CASE CannotPublish(h)
  <2>1. /\ old.at # "idle" /\ End(h, Refusal("error"))
        /\ UNCHANGED << session, key, original, assets, faults >>
    BY <1>4, <1>b DEF CannotPublish
  <2>2. FilesMove /\ Refusal("error") # Ok(Size, "complete")
    BY <1>a, <2>1, FilesStay DEF Refusal, Ok
  <2> QED
    BY <2>1, <2>2, EndIsSound
<1>5. CASE CommitAsset(h)
  <2> DEFINE new == [old EXCEPT !.at = "stored"]
  <2>1. /\ old.at = "published" /\ handler' = [handler EXCEPT ![h] = new] /\ assets' = assets \cup {c}
        /\ UNCHANGED << session, key, original, reply, faults >>
    BY <1>5 DEF CommitAsset
  <2>2. /\ new \in HandlerRows /\ new.at = "stored" /\ new.session = s /\ new.client = old.client
    BY <1>c, <2>1 DEF HandlerRows
  <2> HIDE DEF new
  <2>3. handler'[h] = new
    BY <2>1 DEF ServerIsSound, ServerTypeOK
  <2>4. HandlerIsSound(h)'
    BY <1>c, <2>1, <2>2, <2>3 DEF HandlerIsSound, Content
  <2>5. original[c] # None
    BY <2>1 DEF ServerIsSound, HandlerIsSound
  <2>6. FilesMove
    BY <1>a, <2>1, FilesStay
  <2> QED
    BY <1>a, <1>c, <2>1, <2>2, <2>4, <2>5, <2>6, WorkIsSound
<1>6. CASE Complete(h)
  <2>1. /\ old.at = "stored" /\ End(h, Ok(Size, "complete"))
        /\ session' = [session EXCEPT ![s].status = "complete"]
        /\ UNCHANGED << key, original, assets, faults >>
    BY <1>6 DEF Complete
  <2>2. c \in assets
    BY <2>1 DEF ServerIsSound, HandlerIsSound
  <2>3. FilesMove
    BY <1>c, <2>1, <2>2, SessionCompletes
  <2> QED
    BY <1>c, <2>1, <2>2, <2>3, EndIsSound
<1>7. CASE Deadlock(h) \/ HandlerFails(h)
  <2>1. /\ old.at # "idle" /\ End(h, Refusal("error")) /\ faults' \in 0 .. MaxFaults
        /\ UNCHANGED << session, key, original, assets >>
    BY <1>7, <1>a DEF Deadlock, HandlerFails, ServerIsSound, HandlerIsSound
  <2>2. FilesMove /\ Refusal("error") # Ok(Size, "complete")
    BY <2>1, FilesStay DEF Refusal, Ok
  <2> QED
    BY <2>1, <2>2, EndIsSound
<1>8. CASE HandlerKilledBetween(h)
  <2> DEFINE k == old.copy
  <2>1. /\ old.at # "idle" /\ k # None /\ End(h, Refusal("error")) /\ faults' \in 0 .. MaxFaults
        /\ UNCHANGED << key, assets >>
        /\ \/ original' = [original EXCEPT ![c] = k] /\ session' = session
           \/ /\ c \in assets /\ original' = original
              /\ session' = [session EXCEPT ![s].staged = FALSE]
    BY <1>8, <1>a, <1>b DEF HandlerKilledBetween
  <2>2. k \in Handlers
    BY <1>c, <2>1 DEF HandlerRows
  <2> HIDE DEF k
  <2>3. FilesMove
    <3>1. CASE original' = [original EXCEPT ![c] = k] /\ session' = session
      BY <1>c, <2>1, <2>2, <3>1, FilesPublished
    <3>2. CASE /\ c \in assets /\ original' = original
               /\ session' = [session EXCEPT ![s].staged = FALSE]
      <4>1. original'[c] # None /\ BytesGrow
        BY <2>1, <3>2 DEF ServerIsSound, BytesGrow
      <4> QED
        BY <1>a, <1>c, <2>1, <3>2, <4>1, StagingGone
    <3> QED
      BY <2>1, <3>1, <3>2
  <2>4. Refusal("error") # Ok(Size, "complete")
    BY DEF Refusal, Ok
  <2> QED
    BY <2>1, <2>3, <2>4, EndIsSound
<1> QED
  BY <1>1, <1>2, <1>3, <1>4, <1>5, <1>6, <1>7, <1>8 DEF HandlerStep

\* The time of a session is over.
LEMMA ExpireIsSound ==
  ASSUME ServerIsSound, NEW s \in Sessions, Expire(s)
  PROVE  ServerIsSound' /\ BytesGrow /\ (\A x \in Sessions : SessionGrows(x))
           /\ UNCHANGED << handler, reply, assets >>
<1> DEFINE new == [session[s] EXCEPT !.expired = TRUE]
<1>1. /\ session' = [session EXCEPT ![s] = new] /\ session[s].status = "active"
      /\ UNCHANGED << key, original, assets, handler, reply, faults >>
  BY DEF Expire
<1>2. session[s] \in Uploads /\ session[s].offset \in 0 .. Size /\ SessionIsSound(s)
  BY DEF ServerIsSound, ServerTypeOK, Uploads
<1>3. /\ new \in Uploads /\ new.content = session[s].content /\ new.status = session[s].status
      /\ new.offset = session[s].offset /\ new.staged = session[s].staged
  BY <1>2, FlagFields
<1>4. session[s].offset <= new.offset
  BY <1>2, <1>3, UploadAssumption
<1> HIDE DEF new
<1>5. /\ session' \in [Sessions -> Uploads] /\ session'[s] = new
      /\ \A x \in Sessions \ {s} : session'[x] = session[x]
      /\ \A x \in Sessions : SessionGrows(x)
  BY <1>1, <1>3, <1>4, SessionMoves
<1>6. SessionIsSound(s)'
  BY <1>1, <1>2, <1>3, <1>5 DEF SessionIsSound
<1>7. ServerTypeOK'
  BY <1>1, <1>5 DEF ServerIsSound, ServerTypeOK
<1>8. BytesGrow /\ \A c \in assets' : c \in assets
  BY <1>1 DEF BytesGrow
<1>9. \A h \in Handlers : HandlerStays(h) /\ (handler[h].at # "idle" => SessionGrows(handler[h].session))
  BY <1>1, <1>5 DEF HandlerStays, ServerIsSound, HandlerIsSound
<1>10. ServerIsSound'
  BY <1>5, <1>6, <1>7, <1>8, <1>9, ServerStays
<1> QED
  BY <1>1, <1>5, <1>8, <1>10

\* A client gives its request up: the handler goes on without it.
Leaves(p, answer) ==
  /\ Answer(p, answer)
  /\ handler' = [h \in Handlers |-> IF handler[h].client = p
                                    THEN [handler[h] EXCEPT !.client = None] ELSE handler[h]]
  /\ UNCHANGED << session, key, original, assets >>

LEMMA LeavingIsSound ==
  ASSUME ServerIsSound, NEW p \in Clients, NEW answer \in {NoReply, Refusal("error")}, Leaves(p, answer),
         faults' \in 0 .. MaxFaults
  PROVE  /\ ServerIsSound' /\ BytesGrow /\ \A s \in Sessions : SessionGrows(s)
         /\ reply'[p] = answer /\ answer.code # "ok" /\ answer.status = "none"
         /\ \A q \in Clients \ {p} : reply'[q] = reply[q]
         /\ \A h \in Handlers :
              /\ handler'[h].at = handler[h].at /\ handler'[h].session = handler[h].session
              /\ handler'[h].client = IF handler[h].client = p THEN None ELSE handler[h].client
<1>1. /\ handler \in [Handlers -> HandlerRows] /\ p # None
      /\ UNCHANGED << session, key, original, assets >> /\ Answer(p, answer)
  BY UploadAssumption DEF ServerIsSound, ServerTypeOK, HandlerRows, Leaves
<1>2. ASSUME NEW h \in Handlers
      PROVE  /\ handler'[h] \in HandlerRows
             /\ handler'[h].at = handler[h].at /\ handler'[h].session = handler[h].session
             /\ handler'[h].client = IF handler[h].client = p THEN None ELSE handler[h].client
             /\ HandlerStays(h)
  <2>1. handler[h] \in HandlerRows
    BY <1>1
  <2>2. CASE handler[h].client = p
    <3> DEFINE new == [handler[h] EXCEPT !.client = None]
    <3>1. handler'[h] = new
      BY <2>2 DEF Leaves
    <3>2. new \in HandlerRows /\ new.at = handler[h].at /\ new.session = handler[h].session /\ new.client = None
      BY <2>1 DEF HandlerRows
    <3>3. handler[h] # Idle
      BY <1>1, <2>2 DEF Idle
    <3> QED
      BY <2>2, <3>1, <3>2, <3>3 DEF HandlerStays
  <2>3. CASE handler[h].client # p
    <3>1. handler'[h] = handler[h]
      BY <2>3 DEF Leaves
    <3> QED
      BY <2>1, <2>3, <3>1 DEF HandlerStays
  <2> QED
    BY <2>2, <2>3
<1>3. handler' \in [Handlers -> HandlerRows]
  <2>1. \A h \in Handlers : handler'[h] \in HandlerRows
    BY <1>2
  <2>2. handler' = [h \in Handlers |-> handler'[h]]
    BY DEF Leaves
  <2> QED
    BY <2>1, <2>2
<1>4. /\ reply' \in [Clients -> [ code : {"none", "waiting", "ok", "conflict", "gone", "error"},
                                  offset : 0..Size, status : Status ]]
      /\ reply'[p] = answer /\ answer.code # "ok" /\ answer.status = "none"
      /\ \A q \in Clients \ {p} : reply'[q] = reply[q]
  BY <1>1, Answers
<1>5. ServerTypeOK'
  BY <1>1, <1>3, <1>4 DEF ServerIsSound, ServerTypeOK, HandlerRows
<1>6. ServerIsSound' /\ BytesGrow /\ \A s \in Sessions : SessionGrows(s)
  BY <1>1, <1>2, <1>5, OnlyClientsMove
<1> QED
  BY <1>2, <1>4, <1>6

(***************************************************************************)
(* What the others keep                                                    *)
(***************************************************************************)

\* Nobody serves a client that does not wait.
Nobody(p) == \A h \in Handlers : handler[h].client # p

LEMMA NobodyServes ==
  ASSUME UploadsInv, NEW p \in Clients,
         \/ reply[p] # Waiting
         \/ p \in Web /\ web[p].at # "wait"
         \/ p \in Runs /\ run[p].at # "wait"
  PROVE  Nobody(p)
BY UploadAssumption DEF UploadsInv, ClientsWait, ClientWaits, Nobody

\* A client that a step leaves alone.
Undisturbed(p) ==
  /\ reply'[p] = reply[p]
  /\ p \in Web => web'[p].at = web[p].at
  /\ p \in Runs => run'[p].at = run[p].at /\ run'[p].session = run[p].session

LEMMA ClientsStay ==
  ASSUME UploadsInv,
         \A h \in Handlers : handler'[h].client # None =>
           /\ handler'[h].client = handler[h].client /\ handler'[h].session = handler[h].session
           /\ handler'[h].at # "idle" /\ Undisturbed(handler[h].client)
  PROVE  ClientsWait'
<1> SUFFICES ASSUME NEW h \in Handlers, handler'[h].client # None PROVE ClientWaits(h)'
  BY DEF ClientsWait, ClientWaits
<1> DEFINE p == handler[h].client
<1>1. /\ handler'[h].client = p /\ handler'[h].session = handler[h].session
      /\ handler'[h].at # "idle" /\ Undisturbed(p) /\ p # None
  OBVIOUS
<1>2. ClientWaits(h) /\ Waiting' = Waiting
  BY DEF UploadsInv, ClientsWait, Waiting, Refusal
<1>3. \A g \in Handlers : handler'[g].client = p => g = h
  BY <1>1, <1>2 DEF ClientWaits
<1> QED
  BY <1>1, <1>2, <1>3 DEF ClientWaits, Undisturbed

\* A client's own step while nobody serves it.
LEMMA OwnStep ==
  ASSUME UploadsInv, NEW p \in Clients, Nobody(p), handler' = handler,
         \A q \in Clients \ {p} : Undisturbed(q)
  PROVE  ClientsWait'
<1> SUFFICES ASSUME NEW h \in Handlers, handler[h].client # None
             PROVE  handler[h].at # "idle" /\ Undisturbed(handler[h].client)
  BY ClientsStay
<1>1. handler[h].client \in Clients \ {p} /\ handler[h].at # "idle"
  BY DEF UploadsInv, ClientsWait, ClientWaits, Nobody, ServerIsSound, ServerTypeOK
<1> QED
  BY <1>1

\* A request that a handler has taken.
LEMMA NewHandler ==
  ASSUME UploadsInv, NEW p \in Web \cup Runs, NEW h \in Handlers, NEW s, Nobody(p), Accepted(p, h, s),
         \A q \in Clients \ {p} : Undisturbed(q),
         p \in Web => web'[p].at = "wait" /\ s = p,
         p \in Runs => run'[p].at = "wait" /\ s = run'[p].session
  PROVE  ClientsWait'
<1> SUFFICES ASSUME NEW g \in Handlers, handler'[g].client # None PROVE ClientWaits(g)'
  BY DEF ClientsWait, ClientWaits
<1>1. p \in Clients /\ p # None
  BY UploadAssumption, WebAssumption, MobileAssumption
<1>2. CASE g = h
  BY <1>1, <1>2 DEF Accepted, Nobody, ClientWaits, Waiting, Refusal
<1>3. CASE g # h
  <2> DEFINE q == handler[g].client
  <2>1. handler'[g] = handler[g] /\ q # None /\ q # p /\ q \in Clients
    BY <1>3 DEF Accepted, Nobody, UploadsInv, ServerIsSound, ServerTypeOK
  <2>2. ClientWaits(g) /\ Waiting' = Waiting /\ Undisturbed(q)
    BY <2>1 DEF UploadsInv, ClientsWait, Waiting, Refusal
  <2>3. \A f \in Handlers : handler'[f].client = q => f = g
    BY <1>3, <2>1, <2>2 DEF ClientWaits, Accepted
  <2> QED
    BY <2>1, <2>2, <2>3 DEF ClientWaits, Undisturbed
<1> QED
  BY <1>2, <1>3

\* What a step of others may tell a client: nothing, no success, or that the
\* session its handler is at is stored.
Told(p) ==
  \/ reply'[p] = reply[p]
  \/ reply'[p].code # "ok" /\ reply'[p].status = "none"
  \/ /\ reply'[p] = Ok(Size, "complete")
     /\ \E h \in Handlers : handler[h].client = p /\ Content(h) \in assets

LEMMA PageStays ==
  ASSUME UploadsInv, NEW w \in Web, web'[w] = web[w], SessionGrows(w), BytesGrow, Told(w)
  PROVE  PageKnows(w)'
<1>1. PageKnows(w) /\ w \in Sessions /\ w \in Clients /\ w # None /\ assets \subseteq assets'
  BY WebAssumption, UploadAssumption DEF UploadsInv, WebKnows, BytesGrow
<1>2. /\ reply'[w].code = "ok" => reply'[w].status # "none"
      /\ reply'[w].status = "complete" => WebFile[w] \in assets
  <2>1. CASE reply'[w] = reply[w]
    BY <1>1, <2>1 DEF PageKnows
  <2>2. CASE reply'[w].code # "ok" /\ reply'[w].status = "none"
    BY <2>2
  <2>3. CASE reply'[w] = Ok(Size, "complete") /\ \E h \in Handlers : handler[h].client = w /\ Content(h) \in assets
    <3>1. PICK h \in Handlers : handler[h].client = w /\ Content(h) \in assets
      BY <2>3
    <3>2. handler[h].session = w /\ handler[h].at # "idle"
      BY <1>1, <3>1 DEF UploadsInv, ClientsWait, ClientWaits
    <3>3. Content(h) = session[w].content /\ session[w].status # "none"
      BY <3>2, HandlerHas DEF UploadsInv
    <3> QED
      BY <1>1, <2>3, <3>1, <3>3 DEF PageKnows, Ok
  <2> QED
    BY <2>1, <2>2, <2>3 DEF Told
<1> QED
  BY <1>1, <1>2 DEF PageKnows, SessionGrows

\* A session that is full stays full.
LEMMA FullStays ==
  ASSUME ServerIsSound, ServerIsSound', NEW s \in Sessions, SessionGrows(s), session[s].offset = Size
  PROVE  session'[s].offset = Size
<1>1. session'[s].offset \in 0 .. Size
  BY DEF ServerIsSound, ServerTypeOK, Uploads
<1> QED
  BY <1>1, UploadAssumption DEF SessionGrows

\* A session that a row or a run of the phone has.
LEMMA PhoneSessions ==
  ASSUME UploadsInv
  PROVE  /\ \A v \in Versions : queue[v].session # None => queue[v].session \in MobileSessions
         /\ \A r \in Runs : run[r].session # None => run[r].session \in MobileSessions
         /\ MobileSessions \subseteq Sessions
BY MobileAssumption DEF UploadsInv, MobileIsSound, MobileTypeOK, Transfers

LEMMA RowStays ==
  ASSUME UploadsInv, ServerIsSound', NEW v \in Versions, queue'[v] = queue[v],
         queue[v].session # None => SessionGrows(queue[v].session)
  PROVE  RowIsSound(v)'
<1>1. RowIsSound(v) /\ (queue[v].session # None => queue[v].session \in Sessions)
  BY PhoneSessions DEF UploadsInv, MobileIsSound, QueueIsSound
<1>2. CASE queue[v].session = None
  BY <1>1, <1>2 DEF RowIsSound
<1>3. CASE queue[v].session # None
  <2>1. session[queue[v].session].offset = Size => session'[queue[v].session].offset = Size
    BY <1>1, <1>3, FullStays DEF UploadsInv
  <2> QED
    BY <1>1, <1>3, <2>1 DEF RowIsSound, Names, SessionGrows
<1> QED
  BY <1>2, <1>3

LEMMA RunStays ==
  ASSUME UploadsInv, ServerIsSound', NEW r \in Runs, run'[r] = run[r], Told(r),
         run[r].session # None => SessionGrows(run[r].session)
  PROVE  RunKnows(r)'
<1> DEFINE s == run[r].session
           o == run[r].offset
<1>1. /\ RunKnows(r) /\ o \in 0 .. Size /\ Size \in Nat /\ r # None /\ (s # None => s \in Sessions)
  BY MobileAssumption, UploadAssumption, PhoneSessions DEF UploadsInv, MobileIsSound, RunsKnow, MobileTypeOK
<1>2. s # None => /\ session[s].offset \in 0 .. Size /\ session'[s].offset \in 0 .. Size
                  /\ session[s].offset <= session'[s].offset
                  /\ session'[s].content = session[s].content
                  /\ session'[s].status = "none" <=> session[s].status = "none"
  BY <1>1 DEF UploadsInv, ServerIsSound, ServerTypeOK, Uploads, SessionGrows
<1>3. run[r].at \in {"send", "wait"} => o <= session'[s].offset
  BY <1>1, <1>2 DEF RunKnows
<1>4. ASSUME run[r].at = "wait", reply'[r].code = "ok" PROVE reply'[r].offset <= session'[s].offset
  <2>1. CASE reply'[r] = reply[r]
    <3>1. reply[r].offset \in 0 .. Size
      BY MobileAssumption DEF UploadsInv, ServerIsSound, ServerTypeOK
    <3> QED
      BY <1>1, <1>2, <1>4, <2>1, <3>1 DEF RunKnows
  <2>2. CASE reply'[r] = Ok(Size, "complete") /\ \E h \in Handlers : handler[h].client = r
    <3>1. PICK h \in Handlers : handler[h].client = r
      BY <2>2
    <3>2. handler[h].at # "idle" /\ handler[h].session = s
      BY <1>1, <3>1 DEF UploadsInv, ClientsWait, ClientWaits
    <3>3. session[s].offset = Size /\ s # None
      BY <1>1, <1>4, <3>2, HandlerHas DEF UploadsInv, RunKnows
    <3> QED
      BY <1>1, <1>2, <2>2, <3>3 DEF Ok
  <2> QED
    BY <1>4, <2>1, <2>2 DEF Told
<1> QED
  BY <1>1, <1>2, <1>3, <1>4 DEF RunKnows, Names

\* The phone while others act.
LEMMA PhoneStays ==
  ASSUME UploadsInv, ServerIsSound', UNCHANGED mobile,
         \A s \in MobileSessions : SessionGrows(s), \A r \in Runs : Told(r)
  PROVE  MobileIsSound'
<1>1. queue' = queue /\ run' = run /\ runLock' = runLock
  BY DEF mobile
<1>2. QueueIsSound'
  BY <1>1, RowStays, PhoneSessions DEF QueueIsSound
<1>3. RunsKnow'
  BY <1>1, RunStays, PhoneSessions DEF RunsKnow
<1>4. OwnersHold' /\ MobileTypeOK'
  BY <1>1 DEF UploadsInv, MobileIsSound, OwnersHold, OwnerHolds, MobileTypeOK
<1> QED
  BY <1>2, <1>3, <1>4 DEF MobileIsSound

\* A step of the server disturbs no page and no run.
LEMMA ServerKeepsInv ==
  ASSUME UploadsInv, ServerNext, UNCHANGED << web, mobile >>
  PROVE  UploadsInv'
<1>a. /\ ServerIsSound /\ web' = web /\ run' = run /\ UNCHANGED mobile
      /\ Web \subseteq Sessions /\ Web \subseteq Clients /\ MobileSessions \subseteq Sessions /\ Runs \subseteq Clients
  BY WebAssumption, MobileAssumption DEF UploadsInv, mobile
<1>1. ASSUME ServerIsSound', ClientsWait', BytesGrow, \A s \in Sessions : SessionGrows(s),
             \A p \in Clients : Told(p)
      PROVE  UploadsInv'
  <2>1. WebKnows' /\ WebTypeOK'
    BY <1>a, <1>1, PageStays DEF WebKnows, UploadsInv, WebTypeOK
  <2>2. MobileIsSound'
    BY <1>a, <1>1, PhoneStays
  <2> QED
    BY <1>1, <2>1, <2>2 DEF UploadsInv
<1>2. ASSUME NEW h \in Handlers, HandlerStep(h) \/ HandlerFails(h) \/ HandlerKilledBetween(h)
      PROVE  UploadsInv'
  <2>1. HandlerMoves(h)
    BY <1>a, <1>2, HandlerStepIsSound
  <2>2. ASSUME NEW p \in Clients PROVE Told(p)
    <3>1. CASE GoesOn(h)
      BY <3>1 DEF GoesOn, Told
    <3>2. ASSUME NEW answer \in {Refusal("error"), Ok(Size, "complete")}, Finishes(h, answer)
          PROVE  Told(p)
      <4>1. Refusal("error").code # "ok" /\ Refusal("error").status = "none"
        BY DEF Refusal
      <4> QED
        BY <3>2, <4>1 DEF Finishes, Told
    <3> QED
      BY <2>1, <3>1, <3>2 DEF HandlerMoves
  <2>3. ClientsWait'
    <3> SUFFICES ASSUME NEW g \in Handlers, handler'[g].client # None
                 PROVE  /\ handler'[g].client = handler[g].client /\ handler'[g].session = handler[g].session
                        /\ handler'[g].at # "idle" /\ Undisturbed(handler[g].client)
      BY ClientsStay
    <3>1. CASE GoesOn(h)
      BY <1>a, <3>1 DEF GoesOn, Undisturbed, UploadsInv, ClientsWait, ClientWaits
    <3>2. CASE \E answer \in {Refusal("error"), Ok(Size, "complete")} : Finishes(h, answer)
      <4>1. PICK answer \in {Refusal("error"), Ok(Size, "complete")} : Finishes(h, answer)
        BY <3>2
      <4>2. g # h /\ handler'[g] = handler[g]
        BY <4>1 DEF Finishes, Idle
      <4>3. ClientWaits(g) /\ handler[g].client \in Clients /\ handler[g].client # handler[h].client
        BY <4>2 DEF UploadsInv, ClientsWait, ClientWaits, ServerIsSound, ServerTypeOK
      <4>4. reply'[handler[g].client] = reply[handler[g].client]
        BY <4>1, <4>3 DEF Finishes
      <4> QED
        BY <1>a, <4>2, <4>3, <4>4 DEF ClientWaits, Undisturbed
    <3> QED
      BY <2>1, <3>1, <3>2 DEF HandlerMoves
  <2> QED
    BY <1>1, <2>1, <2>2, <2>3 DEF HandlerMoves
<1>3. ASSUME NEW p \in Clients, LoseReply(p) PROVE UploadsInv'
  <2>1. Leaves(p, Refusal("error")) /\ faults' \in 0 .. MaxFaults
    BY <1>3, UploadAssumption DEF LoseReply, Leaves, Fault, UploadsInv, ServerIsSound, ServerTypeOK
  <2>2. /\ ServerIsSound' /\ BytesGrow /\ \A s \in Sessions : SessionGrows(s)
        /\ reply'[p].code # "ok" /\ reply'[p].status = "none"
        /\ \A q \in Clients \ {p} : reply'[q] = reply[q]
        /\ \A h \in Handlers :
             /\ handler'[h].at = handler[h].at /\ handler'[h].session = handler[h].session
             /\ handler'[h].client = IF handler[h].client = p THEN None ELSE handler[h].client
    BY <1>a, <2>1, LeavingIsSound
  <2>3. \A q \in Clients : Told(q)
    BY <2>2 DEF Told
  <2>4. ClientsWait'
    <3> SUFFICES ASSUME NEW g \in Handlers, handler'[g].client # None
                 PROVE  /\ handler'[g].client = handler[g].client /\ handler'[g].session = handler[g].session
                        /\ handler'[g].at # "idle" /\ Undisturbed(handler[g].client)
      BY ClientsStay
    <3>1. /\ handler'[g].client = handler[g].client /\ handler[g].client # p
          /\ handler'[g].at = handler[g].at /\ handler'[g].session = handler[g].session
      BY <2>2
    <3>2. ClientWaits(g) /\ handler[g].client \in Clients
      BY <3>1 DEF UploadsInv, ClientsWait, ServerIsSound, ServerTypeOK
    <3> QED
      BY <1>a, <2>2, <3>1, <3>2 DEF ClientWaits, Undisturbed
  <2> QED
    BY <1>1, <2>2, <2>3, <2>4
<1>4. ASSUME NEW s \in Sessions, Expire(s) PROVE UploadsInv'
  <2>1. ServerIsSound' /\ BytesGrow /\ (\A x \in Sessions : SessionGrows(x))
          /\ UNCHANGED << handler, reply, assets >>
    BY <1>a, <1>4, ExpireIsSound
  <2>2. ClientsWait' /\ \A p \in Clients : Told(p)
    BY <1>a, <2>1 DEF UploadsInv, ClientsWait, ClientWaits, Told
  <2> QED
    BY <1>1, <2>1, <2>2
<1> QED
  BY <1>2, <1>3, <1>4 DEF ServerNext

(***************************************************************************)
(* The pages                                                               *)
(***************************************************************************)

\* A page's own step: the others are not disturbed.
LEMMA PageStep ==
  ASSUME UploadsInv, NEW w \in Web, UNCHANGED mobile, ServerIsSound', ClientsWait', BytesGrow,
         \A s \in Sessions \ {w} : SessionGrows(s),
         \A q \in Clients \ {w} : reply'[q] = reply[q],
         WebTypeOK', \A x \in Web \ {w} : web'[x] = web[x], PageKnows(w)'
  PROVE  UploadsInv'
<1>1. /\ Web \subseteq Sessions /\ Web \subseteq Clients
      /\ MobileSessions \subseteq Sessions \ {w} /\ Runs \subseteq Clients \ {w}
  BY WebAssumption, MobileAssumption, UploadsAssumption
<1>2. WebKnows'
  BY <1>1, PageStays DEF WebKnows, Told
<1>3. MobileIsSound'
  BY <1>1, PhoneStays DEF Told
<1> QED
  BY <1>2, <1>3 DEF UploadsInv

\* What a page makes of the progress it learns.
Learnt(w, status) ==
  /\ WebTypeOK' /\ \A x \in Web \ {w} : web'[x] = web[x]
  /\ web'[w].at \in {"send", "saved", "failed"} /\ web'[w].status \in {web[w].status, status}
  /\ web'[w].at = "send" => web'[w].stalls < MaxStalls
  /\ web'[w].at = "saved" => web'[w].status = "complete"

LEMMA ProgressIsLearnt ==
  ASSUME WebTypeOK, NEW w \in Web, NEW offset \in 0 .. Size, NEW status \in Status, NEW stalls \in 0 .. MaxStalls,
         Progress(w, offset, status, stalls)
  PROVE  Learnt(w, status)
<1> DEFINE at == CASE status = "complete" -> IF offset = Size THEN "saved" ELSE "failed"
                   [] status = "active" /\ stalls < MaxStalls -> "send"
                   [] OTHER -> "failed"
           new == [ at |-> at, offset |-> offset, status |-> status, stalls |-> stalls ]
<1>1. web' = [web EXCEPT ![w] = new]
  BY DEF Progress
<1>2. /\ at \in {"send", "saved", "failed"} /\ (at = "send" => stalls < MaxStalls)
      /\ at = "saved" => status = "complete"
  OBVIOUS
<1> HIDE DEF at
<1>3. /\ new \in WebTransfers /\ new.at = at /\ new.status = status /\ new.stalls = stalls
  BY <1>2 DEF WebTransfers
<1> HIDE DEF new
<1>4. web' \in [Web -> WebTransfers] /\ web'[w] = new /\ \A x \in Web \ {w} : web'[x] = web[x]
  BY <1>1, <1>3 DEF WebTypeOK
<1> QED
  BY <1>2, <1>3, <1>4 DEF Learnt, WebTypeOK

\* A page changes only where it is.
LEMMA PageGoesTo ==
  ASSUME WebTypeOK, NEW w \in Web, NEW at \in {"wait", "ask", "failed"},
         web' = [web EXCEPT ![w].at = at]
  PROVE  /\ WebTypeOK' /\ \A x \in Web \ {w} : web'[x] = web[x]
         /\ web'[w].at = at /\ web'[w].status = web[w].status /\ web'[w].stalls = web[w].stalls
         /\ web'[w].offset = web[w].offset
<1> DEFINE new == [web[w] EXCEPT !.at = at]
<1>1. web' = [web EXCEPT ![w] = new] /\ web[w] \in WebTransfers
  BY DEF WebTypeOK
<1>2. /\ new \in WebTransfers /\ new.at = at /\ new.status = web[w].status /\ new.stalls = web[w].stalls
      /\ new.offset = web[w].offset
  BY <1>1 DEF WebTransfers
<1> HIDE DEF new
<1> QED
  BY <1>1, <1>2 DEF WebTypeOK

LEMMA LearnIsLearnt ==
  ASSUME WebTypeOK, NEW w \in Web, NEW offset \in 0 .. Size, NEW status \in Status,
         web[w].stalls < MaxStalls, Learn(w, offset, status)
  PROVE  Learnt(w, status)
<1>1. web[w] \in WebTransfers /\ web[w].stalls \in 0 .. MaxStalls /\ MaxStalls \in Nat
  BY WebAssumption DEF WebTypeOK, WebTransfers
<1>2. CASE offset < web[w].offset
  <2>1. web' = [web EXCEPT ![w].at = "failed"]
    BY <1>2 DEF Learn
  <2> QED
    BY <2>1, PageGoesTo DEF Learnt
<1>3. CASE ~(offset < web[w].offset)
  <2> DEFINE stalls == IF offset > web[w].offset THEN 0 ELSE web[w].stalls + 1
  <2>1. stalls \in 0 .. MaxStalls
    BY <1>1
  <2>2. Progress(w, offset, status, stalls)
    BY <1>3 DEF Learn
  <2> HIDE DEF stalls
  <2> QED
    BY <2>1, <2>2, ProgressIsLearnt
<1> QED
  BY <1>2, <1>3

\* A page that learns what is so knows it.
LEMMA LearntIsKnown ==
  ASSUME UploadsInv, NEW w \in Web, NEW status \in Status, Learnt(w, status),
         session' = session, assets' = assets, web[w].status # "none", status # "none",
         status = "complete" => WebFile[w] \in assets,
         reply'[w] = reply[w] \/ reply'[w] = NoReply
  PROVE  PageKnows(w)'
<1>1. PageKnows(w)
  BY DEF UploadsInv, WebKnows
<1>2. reply'[w].code = "ok" => reply'[w].status # "none"
  BY <1>1 DEF PageKnows, NoReply, Refusal
<1>3. reply'[w].status = "complete" => WebFile[w] \in assets
  BY <1>1 DEF PageKnows, NoReply, Refusal
<1> QED
  BY <1>1, <1>2, <1>3 DEF PageKnows, Learnt

\* Of runUpload and finishTransfer.
LEMMA WebKeepsInv ==
  ASSUME UploadsInv, NEW w \in Web, WebStep(w) \/ WebRetry(w), UNCHANGED mobile
  PROVE  UploadsInv'
<1>a. /\ ServerIsSound /\ ClientsWait /\ WebTypeOK /\ PageKnows(w) /\ w \in Sessions /\ w \in Clients
      /\ w \notin Runs /\ WebFile[w] \in Contents /\ web[w] \in WebTransfers
      /\ Web \subseteq Clients /\ Runs \subseteq Clients /\ run' = run
  BY WebAssumption, MobileAssumption, UploadsAssumption DEF UploadsInv, WebKnows, WebTypeOK, mobile
<1>b. /\ session[w].offset \in 0 .. Size /\ session[w].status \in Status
      /\ reply[w].offset \in 0 .. Size /\ reply[w].status \in Status /\ SessionIsSound(w)
      /\ web[w].offset \in 0 .. Size /\ web[w].status \in Status /\ web[w].stalls \in 0 .. MaxStalls
      /\ 0 \in 0 .. MaxStalls /\ 0 \in 0 .. Size /\ 0 < MaxStalls /\ MaxStalls \in Nat
      /\ faults \in 0 .. MaxFaults /\ (Fault => faults' \in 0 .. MaxFaults)
  BY <1>a, UploadAssumption, WebAssumption
     DEF ServerIsSound, ServerTypeOK, Uploads, WebTransfers, Fault
<1>c. session[w].status = "complete" => WebFile[w] \in assets
  BY <1>a, <1>b DEF PageKnows, SessionIsSound
<1>1. CASE WebCreate(w)
  <2>1. /\ web[w].status = "none" /\ session[w].status = "none" /\ Nobody(w)
        /\ UNCHANGED << key, original, assets, handler, reply >>
    BY <1>a, <1>1, NobodyServes DEF WebCreate, PageKnows
  <2>2. ASSUME \A x \in Web \ {w} : web'[x] = web[x] PROVE ClientsWait'
    <3>1. \A q \in Clients \ {w} : Undisturbed(q)
      BY <1>a, <2>1, <2>2 DEF Undisturbed
    <3> QED
      BY <1>a, <2>1, <3>1, OwnStep
  <2>3. CASE /\ Create(w, WebFile[w]) /\ UNCHANGED faults
             /\ web' = [web EXCEPT ![w] = [ at |-> "send", offset |-> 0, status |-> "active", stalls |-> 0 ]]
    <3> DEFINE new == [ at |-> "send", offset |-> 0, status |-> "active", stalls |-> 0 ]
    <3>1. new \in WebTransfers /\ new.at = "send" /\ new.status = "active" /\ new.stalls = 0
      BY <1>b DEF WebTransfers, Status
    <3> HIDE DEF new
    <3>2. web'[w] = new /\ WebTypeOK' /\ \A x \in Web \ {w} : web'[x] = web[x]
      BY <1>a, <2>3, <3>1 DEF WebTypeOK, new
    <3>3. \A h \in Handlers : handler[h].session # w
      <4>1. w # None
        BY <1>a, UploadAssumption
      <4> QED
        BY <1>a, <2>1, <4>1 DEF ServerIsSound, HandlerIsSound, Idle
    <3>4. /\ ServerIsSound' /\ BytesGrow
          /\ \A x \in Sessions \ {w} : SessionGrows(x)
          /\ session'[w].status = "active" /\ session'[w].content = WebFile[w]
      BY <1>a, <2>1, <2>3, <3>3, CreateIsSound
    <3>5. PageKnows(w)'
      BY <1>a, <1>b, <2>1, <3>1, <3>2, <3>4 DEF PageKnows
    <3> QED
      BY <2>1, <2>2, <3>2, <3>4, <3>5, PageStep
  <2>4. CASE Fault /\ web' = [web EXCEPT ![w].at = "failed"] /\ UNCHANGED session
    <3>1. /\ WebTypeOK' /\ \A x \in Web \ {w} : web'[x] = web[x]
          /\ web'[w].at = "failed" /\ web'[w].status = web[w].status
      BY <1>a, <2>4, PageGoesTo
    <3>2. ServerTypeOK' /\ \A h \in Handlers : HandlerStays(h)
      BY <1>a, <1>b, <2>1, <2>4 DEF ServerIsSound, ServerTypeOK, HandlerStays
    <3>3. ServerIsSound' /\ BytesGrow /\ \A s \in Sessions : SessionGrows(s)
      BY <1>a, <2>1, <2>4, <3>2, OnlyClientsMove
    <3>4. PageKnows(w)'
      BY <1>a, <2>1, <2>4, <3>1 DEF PageKnows
    <3> QED
      BY <2>1, <2>2, <3>1, <3>3, <3>4, PageStep
  <2> QED
    BY <1>1, <2>3, <2>4 DEF WebCreate
<1>2. CASE WebSend(w)
  <2>1. PICK h \in Handlers : Patch(w, h, w, web[w].offset)
    BY <1>2 DEF WebSend
  <2>2. /\ web[w].at = "send" /\ web' = [web EXCEPT ![w].at = "wait"]
        /\ UNCHANGED << key, original, assets >>
    BY <1>2 DEF WebSend
  <2>3. Patched(w, h, w)
    BY <1>a, <1>b, <2>1, <2>2, PatchIsSound
  <2>4. /\ WebTypeOK' /\ \A x \in Web \ {w} : web'[x] = web[x]
        /\ web'[w].at = "wait" /\ web'[w].status = web[w].status /\ web'[w].stalls = web[w].stalls
    BY <1>a, <2>2, PageGoesTo
  <2>5. Nobody(w) /\ \A q \in Clients \ {w} : Undisturbed(q)
    BY <1>a, <2>2, <2>3, <2>4, NobodyServes DEF Patched, Undisturbed
  <2>6. ClientsWait'
    <3>1. CASE Answered(w, h, w)
      BY <1>a, <2>5, <3>1, OwnStep DEF Answered
    <3>2. CASE Accepted(w, h, w)
      BY <1>a, <2>4, <2>5, <3>2, NewHandler
    <3> QED
      BY <2>3, <3>1, <3>2 DEF Patched
  <2>7. SessionGrows(w) /\ BytesGrow
    BY <1>a, <2>3 DEF Patched
  <2>8. /\ reply'[w].code = "ok" => reply'[w].status # "none"
        /\ reply'[w].status # "complete"
    BY <2>3 DEF Patched, Answered, Accepted, Waiting, Refusal
  <2>9. PageKnows(w)'
    BY <1>a, <2>2, <2>4, <2>7, <2>8 DEF PageKnows, SessionGrows, BytesGrow
  <2> QED
    BY <2>3, <2>4, <2>6, <2>9, PageStep DEF Patched
<1>3. CASE WebAnswer(w)
  <2>1. /\ web[w].at = "wait" /\ reply[w].code \notin {"none", "waiting"} /\ Answer(w, NoReply)
        /\ UNCHANGED << session, key, original, assets, handler, faults >>
    BY <1>3 DEF WebAnswer
  <2>2. Nobody(w)
    BY <1>a, <2>1, NobodyServes DEF Waiting, Refusal
  <2>3. /\ reply'[w] = NoReply /\ \A q \in Clients \ {w} : reply'[q] = reply[q]
        /\ reply' \in [Clients -> [ code : {"none", "waiting", "ok", "conflict", "gone", "error"},
                                    offset : 0..Size, status : Status ]]
    BY <1>a, <2>1, Answers
  <2>4. ServerTypeOK' /\ \A h \in Handlers : HandlerStays(h)
    BY <1>a, <2>1, <2>3 DEF ServerIsSound, ServerTypeOK, HandlerStays
  <2>5. ServerIsSound' /\ BytesGrow /\ \A s \in Sessions : SessionGrows(s)
    BY <1>a, <2>1, <2>4, OnlyClientsMove
  <2>6. /\ WebTypeOK' /\ \A x \in Web \ {w} : web'[x] = web[x]
        /\ PageKnows(w)'
    <3>1. CASE reply[w].code = "ok"
      <4>1. Learn(w, reply[w].offset, reply[w].status) /\ web[w].stalls < MaxStalls
            /\ web[w].status # "none" /\ reply[w].status # "none"
        BY <1>3, <1>a, <2>1, <3>1 DEF WebAnswer, PageKnows
      <4>2. Learnt(w, reply[w].status)
        BY <1>a, <1>b, <4>1, LearnIsLearnt
      <4>3. reply[w].status = "complete" => WebFile[w] \in assets
        BY <1>a DEF PageKnows
      <4>4. PageKnows(w)'
        BY <1>b, <2>1, <2>3, <4>1, <4>2, <4>3, LearntIsKnown
      <4> QED
        BY <4>2, <4>4 DEF Learnt
    <3>2. CASE reply[w].code # "ok"
      <4>1. web' = [web EXCEPT ![w].at = "ask"]
        BY <1>3, <3>2 DEF WebAnswer
      <4>2. /\ WebTypeOK' /\ \A x \in Web \ {w} : web'[x] = web[x]
            /\ web'[w].at = "ask" /\ web'[w].status = web[w].status /\ web'[w].stalls = web[w].stalls
        BY <1>a, <4>1, PageGoesTo
      <4>3. NoReply.code # "ok" /\ NoReply.status = "none"
        BY DEF NoReply, Refusal
      <4>4. PageKnows(w)'
        BY <1>a, <2>1, <2>3, <4>2, <4>3 DEF PageKnows
      <4> QED
        BY <4>2, <4>4
    <3> QED
      BY <3>1, <3>2
  <2>7. \A q \in Clients \ {w} : Undisturbed(q)
    BY <1>a, <2>3, <2>6 DEF Undisturbed
  <2>8. ClientsWait'
    BY <1>a, <2>1, <2>2, <2>7, OwnStep
  <2> QED
    BY <2>3, <2>5, <2>6, <2>8, PageStep
<1>4. CASE WebAsk(w) \/ WebRetry(w)
  <2>1. /\ web[w].at \in {"ask", "failed"} /\ UNCHANGED << server, reply >> /\ faults' \in 0 .. MaxFaults
        /\ web[w].status # "none"
    BY <1>4, <1>a, <1>b DEF WebAsk, WebRetry, PageKnows
  <2>2. UNCHANGED << session, key, original, assets, handler, reply >>
    BY <2>1 DEF server
  <2>3. PICK status \in {session[w].status, web[w].status} : Learnt(w, status)
    <3>1. CASE WebAsk(w)
      <4>1. /\ web[w].stalls < MaxStalls
            /\ Learn(w, session[w].offset, session[w].status) \/ Learn(w, web[w].offset, web[w].status)
        BY <3>1, <1>a DEF WebAsk, PageKnows
      <4> QED
        BY <1>a, <1>b, <4>1, LearnIsLearnt
    <3>2. CASE WebRetry(w)
      <4>1. Progress(w, session[w].offset, session[w].status, 0)
        BY <3>2 DEF WebRetry
      <4> QED
        BY <1>a, <1>b, <4>1, ProgressIsLearnt
    <3> QED
      BY <1>4, <3>1, <3>2
  <2>4. /\ status \in Status /\ status # "none" /\ (status = "complete" => WebFile[w] \in assets)
    BY <1>a, <1>b, <1>c, <2>1, <2>3 DEF PageKnows
  <2>5. PageKnows(w)'
    BY <2>1, <2>2, <2>3, <2>4, LearntIsKnown
  <2>6. Nobody(w) /\ \A q \in Clients \ {w} : Undisturbed(q)
    BY <1>a, <2>1, <2>2, <2>3, NobodyServes DEF Undisturbed, Learnt
  <2>7. ServerTypeOK' /\ \A h \in Handlers : HandlerStays(h)
    BY <1>a, <2>1, <2>2 DEF ServerIsSound, ServerTypeOK, HandlerStays
  <2>8. ServerIsSound' /\ BytesGrow /\ \A s \in Sessions : SessionGrows(s)
    BY <1>a, <2>2, <2>7, OnlyClientsMove
  <2>9. ClientsWait'
    BY <1>a, <2>2, <2>6, OwnStep
  <2> QED
    BY <2>2, <2>3, <2>5, <2>8, <2>9, PageStep DEF Learnt
<1> QED
  BY <1>1, <1>2, <1>3, <1>4 DEF WebStep

(***************************************************************************)
(* The phone                                                               *)
(***************************************************************************)

\* A step of the phone leaves the pages alone.
LEMMA PhoneStep ==
  ASSUME UploadsInv, web' = web, ServerIsSound', ClientsWait', BytesGrow, MobileIsSound',
         \A w \in Web : SessionGrows(w) /\ reply'[w] = reply[w]
  PROVE  UploadsInv'
<1>1. WebKnows' /\ WebTypeOK'
  BY PageStays DEF WebKnows, UploadsInv, WebTypeOK, Told
<1> QED
  BY <1>1 DEF UploadsInv

\* A step without a request: of time and the user, or of a run that nobody
\* serves, which may take its answer.
TimeMoves == web' = web /\ UNCHANGED server /\ reply' = reply /\ run' = run /\ faults' \in 0 .. MaxFaults

RunMoves(r) ==
  /\ web' = web /\ UNCHANGED server /\ Nobody(r) /\ faults' \in 0 .. MaxFaults
  /\ \/ reply' = reply
     \/ Answer(r, NoReply)
  /\ \A q \in Runs \ {r} : run'[q] = run[q]

LEMMA TimeStep ==
  ASSUME UploadsInv, TimeMoves
  PROVE  /\ ServerIsSound' /\ \A s \in Sessions : SessionGrows(s)
         /\ MobileIsSound' => UploadsInv'
<1>1. /\ ServerIsSound /\ UNCHANGED << session, key, original, assets, handler, reply >>
      /\ Web \subseteq Clients /\ Web \subseteq Sessions
  BY WebAssumption DEF UploadsInv, TimeMoves, server
<1>2. ServerTypeOK' /\ \A h \in Handlers : HandlerStays(h)
  BY <1>1 DEF ServerIsSound, ServerTypeOK, HandlerStays, TimeMoves
<1>3. ServerIsSound' /\ BytesGrow /\ \A s \in Sessions : SessionGrows(s)
  BY <1>1, <1>2, OnlyClientsMove
<1>4. ClientsWait'
  BY <1>1 DEF UploadsInv, ClientsWait, ClientWaits, TimeMoves
<1> QED
  BY <1>1, <1>3, <1>4, PhoneStep DEF TimeMoves

LEMMA RunStepIsQuiet ==
  ASSUME UploadsInv, NEW r \in Runs, RunMoves(r)
  PROVE  /\ ServerIsSound' /\ \A s \in Sessions : SessionGrows(s)
         /\ \A q \in Runs \ {r} : run'[q] = run[q] /\ reply'[q] = reply[q]
         /\ reply' = reply \/ reply'[r] = NoReply
         /\ MobileIsSound' => UploadsInv'
<1>1. /\ ServerIsSound /\ Web \subseteq Clients /\ Web \subseteq Sessions /\ Runs \subseteq Clients
      /\ \A w \in Web : w \notin Runs
      /\ UNCHANGED << session, key, original, assets, handler >>
  BY WebAssumption, MobileAssumption, UploadsAssumption DEF UploadsInv, RunMoves, server
<1>2. /\ reply' \in [Clients -> [ code : {"none", "waiting", "ok", "conflict", "gone", "error"},
                                  offset : 0..Size, status : Status ]]
      /\ \A q \in Clients \ {r} : reply'[q] = reply[q]
      /\ reply' = reply \/ reply'[r] = NoReply
  <2>1. CASE reply' = reply
    BY <1>1, <2>1 DEF ServerIsSound, ServerTypeOK
  <2>2. CASE Answer(r, NoReply)
    BY <1>1, <2>2, Answers
  <2> QED
    BY <2>1, <2>2 DEF RunMoves
<1>3. ServerTypeOK' /\ \A h \in Handlers : HandlerStays(h)
  BY <1>1, <1>2 DEF ServerIsSound, ServerTypeOK, HandlerStays, RunMoves
<1>4. ServerIsSound' /\ BytesGrow /\ \A s \in Sessions : SessionGrows(s)
  BY <1>1, <1>3, OnlyClientsMove
<1>5. \A q \in Clients \ {r} : Undisturbed(q)
  BY <1>2 DEF Undisturbed, RunMoves
<1>6. ClientsWait'
  BY <1>1, <1>5, OwnStep DEF RunMoves
<1>7. MobileIsSound' => UploadsInv'
  BY <1>1, <1>2, <1>4, <1>6, PhoneStep DEF RunMoves
<1> QED
  BY <1>1, <1>2, <1>4, <1>7 DEF RunMoves

\* What a row may become without an upload: it keeps its session or forgets it.
RowMoves(v) ==
  /\ queue'[v].session \in {queue[v].session, None}
  /\ queue'[v].state \in {"queued", "uploading", "retry"} => queue'[v].attempts < MaxAttempts
  /\ queue'[v].state = "complete" =>
       queue[v].state = "complete" /\ queue'[v].session = queue[v].session

\* The phone's records stay sound if those of the run that moves do, and the
\* rows of others are left alone.
LEMMA MobileMoves ==
  ASSUME UploadsInv, ServerIsSound', MobileTypeOK', NEW r,
         \A s \in MobileSessions : SessionGrows(s) \/ FreeSession(s),
         \A v \in Versions : RowMoves(v) \/ RowIsSound(v)',
         \A q \in Runs \ {r} : run'[q] = run[q] /\ reply'[q] = reply[q],
         r \in Runs => RunKnows(r)',
         \A v \in Versions, q \in Runs \ {r} : queue'[v].owner = q =>
           queue[v].owner = q /\ queue'[v].state = queue[v].state /\ queue'[v].session = queue[v].session,
         r \in Runs => \A v \in Versions : OwnerHolds(v, r)'
  PROVE  MobileIsSound'
<1>1. ASSUME NEW v \in Versions PROVE RowIsSound(v)'
  <2>1. CASE RowMoves(v)
    <3> DEFINE s == queue[v].session
    <3>1. CASE s = None
      BY <2>1, <3>1 DEF RowMoves, RowIsSound, UploadsInv, MobileIsSound, QueueIsSound
    <3>2. CASE s # None
      <4>1. s \in Sessions /\ SessionGrows(s)
        BY <3>2, PhoneSessions DEF FreeSession
      <4>2. session[s].offset = Size => session'[s].offset = Size
        BY <4>1, FullStays DEF UploadsInv
      <4>3. RowIsSound(v)
        BY DEF UploadsInv, MobileIsSound, QueueIsSound
      <4> QED
        BY <2>1, <3>2, <4>1, <4>2, <4>3 DEF RowMoves, RowIsSound, Names, SessionGrows
    <3> QED
      BY <3>1, <3>2
  <2> QED
    BY <2>1
<1>2. ASSUME NEW q \in Runs PROVE RunKnows(q)'
  <2>1. CASE q # r
    <3>1. run[q].session # None => SessionGrows(run[q].session)
      BY PhoneSessions DEF FreeSession
    <3> QED
      BY <2>1, <3>1, RunStays DEF Told
  <2> QED
    BY <2>1
<1>3. ASSUME NEW v \in Versions, NEW q \in Runs PROVE OwnerHolds(v, q)'
  <2>1. CASE q # r
    BY <2>1 DEF OwnerHolds, UploadsInv, MobileIsSound, OwnersHold
  <2> QED
    BY <2>1
<1> QED
  BY <1>1, <1>2, <1>3 DEF MobileIsSound, QueueIsSound, RunsKnow, OwnersHold

\* Time and the user only move rows.
LEMMA TimeKeepsInv ==
  ASSUME UploadsInv, TimeMoves, queue' \in [Versions -> Transfers],
         runLock' \in [ owner : Owners, live : BOOLEAN ],
         \A v \in Versions : RowMoves(v),
         \A v \in Versions : queue'[v].owner \in Runs =>
           /\ queue'[v].owner = queue[v].owner
           /\ queue'[v].state = queue[v].state /\ queue'[v].session = queue[v].session
  PROVE  UploadsInv'
<1>1. /\ ServerIsSound' /\ \A s \in Sessions : SessionGrows(s)
      /\ MobileIsSound' => UploadsInv'
  BY TimeStep
<1>2. None \notin Runs /\ MobileSessions \subseteq Sessions
  BY UploadAssumption, MobileAssumption
<1>3. MobileTypeOK'
  BY DEF UploadsInv, MobileIsSound, MobileTypeOK, TimeMoves
<1>4. \A q \in Runs \ {None} : run'[q] = run[q] /\ reply'[q] = reply[q]
  BY DEF TimeMoves
<1>5. MobileIsSound'
  BY <1>1, <1>2, <1>3, <1>4, MobileMoves
<1> QED
  BY <1>1, <1>5

\* What the phone writes into a row: it gives the row up, or changes a field.
RowStates == {"absent", "queued", "uploading", "retry", "complete", "failed"}

LEMMA ReleasedRow ==
  ASSUME NEW row \in Transfers, NEW state \in RowStates
  PROVE  LET new == [Unclaimed(row) EXCEPT !.state = state] IN
           /\ new \in Transfers /\ new.state = state /\ new.session = row.session
           /\ new.owner = None /\ new.attempts = row.attempts
BY DEF Transfers, Owners, Unclaimed, RowStates

LEMMA PausedRow ==
  ASSUME NEW row \in Transfers, NEW state \in RowStates
  PROVE  LET new == [Unclaimed(row) EXCEPT !.state = state, !.due = TRUE] IN
           /\ new \in Transfers /\ new.state = state /\ new.session = row.session
           /\ new.owner = None /\ new.attempts = row.attempts
BY DEF Transfers, Owners, Unclaimed, RowStates

LEMMA RenewedAttempts ==
  ASSUME NEW row \in Transfers, NEW state \in RowStates
  PROVE  LET new == [Unclaimed(row) EXCEPT !.state = state, !.attempts = 0, !.due = TRUE] IN
           /\ new \in Transfers /\ new.state = state /\ new.session = row.session
           /\ new.owner = None /\ new.attempts = 0
<1>1. 0 \in 0 .. MaxAttempts
  BY MobileAssumption
<1> QED
  BY <1>1 DEF Transfers, Owners, Unclaimed, RowStates

LEMMA LeaseField ==
  ASSUME NEW row \in Transfers, NEW live \in BOOLEAN
  PROVE  LET new == [row EXCEPT !.live = live] IN
           /\ new \in Transfers /\ new.state = row.state /\ new.session = row.session
           /\ new.owner = row.owner /\ new.attempts = row.attempts
BY DEF Transfers

LEMMA DueField ==
  ASSUME NEW row \in Transfers
  PROVE  LET new == [row EXCEPT !.due = TRUE] IN
           /\ new \in Transfers /\ new.state = row.state /\ new.session = row.session
           /\ new.owner = row.owner /\ new.attempts = row.attempts
BY DEF Transfers

LEMMA SessionField ==
  ASSUME NEW row \in Transfers, NEW s \in MobileSessions \cup {None}
  PROVE  LET new == [row EXCEPT !.session = s] IN
           /\ new \in Transfers /\ new.state = row.state /\ new.session = s
           /\ new.owner = row.owner /\ new.attempts = row.attempts
BY DEF Transfers

LEMMA OwnerField ==
  ASSUME NEW row \in Transfers, NEW r \in Owners
  PROVE  LET new == [row EXCEPT !.owner = r] IN
           /\ new \in Transfers /\ new.state = row.state /\ new.session = row.session
           /\ new.owner = r /\ new.attempts = row.attempts
BY DEF Transfers

LEMMA ClaimedRow ==
  ASSUME NEW row \in Transfers, NEW r \in Owners
  PROVE  LET new == [row EXCEPT !.state = "uploading", !.owner = r, !.live = TRUE] IN
           /\ new \in Transfers /\ new.state = "uploading" /\ new.session = row.session
           /\ new.owner = r /\ new.attempts = row.attempts
BY DEF Transfers

\* A row that is left alone moves nowhere.
LEMMA SameRowMoves ==
  ASSUME UploadsInv, NEW v \in Versions, queue'[v].state = queue[v].state,
         queue'[v].session = queue[v].session, queue'[v].attempts = queue[v].attempts
  PROVE  RowMoves(v)
BY DEF UploadsInv, MobileIsSound, QueueIsSound, RowIsSound, RowMoves

LEMMA TimeIsSound ==
  ASSUME UploadsInv, web' = web,
         \/ RetryFailed \/ CancelPending \/ LeaseEnds
         \/ \E v \in Versions : RetryBecomesDue(v)
         \/ \E r \in Runs : Suspend(r)
  PROVE  UploadsInv'
<1>a. /\ queue \in [Versions -> Transfers] /\ runLock \in [ owner : Owners, live : BOOLEAN ]
      /\ None \notin Runs /\ MaxAttempts \in Nat \ {0} /\ MaxFaults \in Nat /\ faults \in 0 .. MaxFaults
      /\ \A v \in Versions : RowIsSound(v)
      /\ \A v \in Versions : queue[v].owner \in Runs => queue[v].state = "uploading"
  BY UploadAssumption, MobileAssumption
     DEF UploadsInv, MobileIsSound, MobileTypeOK, QueueIsSound, ServerIsSound, ServerTypeOK,
         OwnersHold, OwnerHolds
<1> DEFINE Keeps(v) ==
      /\ queue'[v] \in Transfers /\ RowMoves(v)
      /\ queue'[v].owner \in Runs =>
           /\ queue'[v].owner = queue[v].owner
           /\ queue'[v].state = queue[v].state /\ queue'[v].session = queue[v].session
<1>b. ASSUME NEW v \in Versions, queue'[v].state = queue[v].state, queue'[v] \in Transfers,
             queue'[v].session = queue[v].session, queue'[v].attempts = queue[v].attempts,
             queue'[v].owner = queue[v].owner
      PROVE  Keeps(v)
  BY <1>b, SameRowMoves
<1>c. ASSUME NEW v \in Versions, queue'[v] = queue[v] PROVE Keeps(v)
  BY <1>a, <1>b, <1>c
<1>d. ASSUME TimeMoves, \A v \in Versions : Keeps(v), queue' = [v \in Versions |-> queue'[v]],
             runLock' \in [ owner : Owners, live : BOOLEAN ]
      PROVE  UploadsInv'
  BY <1>d, TimeKeepsInv
<1> HIDE DEF Keeps
<1>1. CASE RetryFailed
  <2>1. ASSUME NEW v \in Versions PROVE Keeps(v)
    <3>1. CASE queue[v].state = "failed"
      <4> DEFINE new == [Unclaimed(queue[v]) EXCEPT !.state = "retry", !.attempts = 0, !.due = TRUE]
      <4>1. new \in Transfers /\ new.state = "retry" /\ new.session = queue[v].session
            /\ new.owner = None /\ new.attempts = 0
        BY <1>a, RenewedAttempts DEF RowStates
      <4>2. queue'[v] = new
        BY <1>1, <3>1 DEF RetryFailed
      <4> HIDE DEF new
      <4> QED
        BY <1>a, <4>1, <4>2 DEF Keeps, RowMoves
    <3> QED
      BY <1>1, <1>c, <3>1 DEF RetryFailed
  <2> QED
    BY <1>1, <1>a, <1>d, <2>1 DEF RetryFailed, TimeMoves
<1>2. CASE CancelPending
  <2>1. NoTransfer \in Transfers /\ NoTransfer.session = None /\ NoTransfer.owner = None
        /\ NoTransfer.state = "absent"
    BY <1>a DEF NoTransfer, Transfers, Owners
  <2>2. \A v \in Versions : queue'[v] = NoTransfer \/ queue'[v] = queue[v]
    BY <1>2 DEF CancelPending
  <2>3. ASSUME NEW v \in Versions PROVE Keeps(v)
    BY <1>a, <1>c, <2>1, <2>2 DEF Keeps, RowMoves
  <2>4. queue' = [v \in Versions |-> queue'[v]]
    BY <1>2 DEF CancelPending
  <2> QED
    BY <1>2, <1>a, <1>d, <2>3, <2>4 DEF CancelPending, TimeMoves
<1>3. CASE LeaseEnds
  <2>1. runLock' \in [ owner : Owners, live : BOOLEAN ] /\ TimeMoves
    BY <1>3, <1>a DEF LeaseEnds, TimeMoves
  <2>2. CASE queue' = queue
    BY <1>a, <1>c, <1>d, <2>1, <2>2
  <2>3. ASSUME NEW x \in Versions, queue' = [queue EXCEPT ![x].live = FALSE]
        PROVE  UploadsInv'
    <3> DEFINE new == [queue[x] EXCEPT !.live = FALSE]
    <3>1. new \in Transfers /\ new.state = queue[x].state /\ new.session = queue[x].session
          /\ new.owner = queue[x].owner /\ new.attempts = queue[x].attempts
      BY <1>a, LeaseField
    <3>2. queue' = [queue EXCEPT ![x] = new]
      BY <2>3
    <3> HIDE DEF new
    <3>3. ASSUME NEW v \in Versions PROVE Keeps(v)
      BY <1>a, <1>b, <1>c, <3>1, <3>2
    <3> QED
      BY <1>a, <1>d, <2>1, <3>2, <3>3
  <2> QED
    BY <1>3, <2>2, <2>3 DEF LeaseEnds
<1>4. ASSUME NEW x \in Versions, RetryBecomesDue(x)
      PROVE  UploadsInv'
  <2> DEFINE new == [queue[x] EXCEPT !.due = TRUE]
  <2>1. new \in Transfers /\ new.state = queue[x].state /\ new.session = queue[x].session
        /\ new.owner = queue[x].owner /\ new.attempts = queue[x].attempts
    BY <1>a, DueField
  <2>2. queue' = [queue EXCEPT ![x] = new]
    BY <1>4 DEF RetryBecomesDue
  <2> HIDE DEF new
  <2>3. ASSUME NEW v \in Versions PROVE Keeps(v)
    BY <1>a, <1>b, <1>c, <2>1, <2>2
  <2> QED
    BY <1>4, <1>a, <1>d, <2>2, <2>3 DEF RetryBecomesDue, TimeMoves
<1>5. ASSUME NEW r \in Runs, Suspend(r)
      PROVE  UploadsInv'
  <2>1. ASSUME NEW v \in Versions PROVE Keeps(v)
    <3> DEFINE live == queue[v].live /\ queue[v].owner # r
               new == [queue[v] EXCEPT !.live = live]
    <3>1. new \in Transfers /\ new.state = queue[v].state /\ new.session = queue[v].session
          /\ new.owner = queue[v].owner /\ new.attempts = queue[v].attempts
      <4>1. live \in BOOLEAN
        BY <1>a DEF Transfers
      <4> QED
        BY <1>a, <4>1, LeaseField
    <3>2. queue'[v] = new
      BY <1>5 DEF Suspend
    <3> HIDE DEF new
    <3> QED
      BY <1>b, <3>1, <3>2
  <2>2. /\ runLock' \in [ owner : Owners, live : BOOLEAN ] /\ TimeMoves
        /\ queue' = [v \in Versions |-> queue'[v]]
    <3>1. TimeMoves /\ queue' = [v \in Versions |-> queue'[v]]
      BY <1>5, <1>a DEF Suspend, TimeMoves, Fault
    <3>2. (runLock.live /\ runLock.owner # r) \in BOOLEAN
      BY <1>a
    <3>3. runLock' = [runLock EXCEPT !.live = runLock.live /\ runLock.owner # r]
      BY <1>5 DEF Suspend
    <3>4. runLock' \in [ owner : Owners, live : BOOLEAN ]
      BY <1>a, <3>2, <3>3
    <3> QED
      BY <3>1, <3>4
  <2> QED
    BY <1>d, <2>1, <2>2
<1> QED
  BY <1>1, <1>2, <1>3, <1>4, <1>5

RunRows == [ at : {"idle", "scan", "claim", "open", "create", "send", "wait", "release"},
             v : Versions \cup {None}, session : MobileSessions \cup {None},
             offset : 0..Size, attempts : 0..MaxAttempts ]

\* A run writes the row it has claimed, or finds that it has lost it.
Writes(r, row, new) ==
  /\ queue' = UpdateTransfer(r, row) /\ row \in Transfers
  /\ run' = [run EXCEPT ![r] = new] /\ new \in RunRows
  /\ runLock' \in [ owner : Owners, live : BOOLEAN ]

LEMMA RunWrites ==
  ASSUME UploadsInv, ServerIsSound', NEW r \in Runs, NEW x \in Versions, run[r].v = x,
         NEW row, NEW new, Writes(r, row, new),
         \A s \in MobileSessions : SessionGrows(s) \/ FreeSession(s),
         \A q \in Runs \ {r} : reply'[q] = reply[q],
         RunKnows(r)',
         Owned(r) =>
           /\ row.owner \in {r, None}
           /\ queue'[x] = row => RowMoves(x) \/ RowIsSound(x)'
           /\ queue'[x] = row /\ row.owner = r => OwnerHolds(x, r)'
  PROVE  MobileIsSound'
<1>a. /\ queue \in [Versions -> Transfers] /\ run \in [Runs -> RunRows] /\ None \notin Runs
      /\ \A v \in Versions : OwnerHolds(v, r)
  BY UploadAssumption, MobileAssumption DEF UploadsInv, MobileIsSound, MobileTypeOK, RunRows, OwnersHold
<1>1. MobileTypeOK'
  BY <1>a DEF Writes, UpdateTransfer, MobileTypeOK, RunRows
<1>2. \A q \in Runs \ {r} : run'[q] = run[q] /\ reply'[q] = reply[q]
  BY <1>a DEF Writes
<1>3. ASSUME NEW v \in Versions
      PROVE  /\ v = x /\ Owned(r) => queue'[v] = row
             /\ v # x \/ ~Owned(r) => queue'[v] = queue[v]
  <2>1. CASE Owned(r)
    <3>1. queue' = [queue EXCEPT ![x] = row]
      BY <2>1 DEF Writes, UpdateTransfer
    <3> QED
      BY <1>a, <2>1, <3>1
  <2>2. CASE ~Owned(r)
    BY <2>2 DEF Writes, UpdateTransfer
  <2> QED
    BY <2>1, <2>2
<1>4. \A v \in Versions : RowMoves(v) \/ RowIsSound(v)'
  BY <1>3, SameRowMoves
<1>5. \A v \in Versions, q \in Runs \ {r} : queue'[v].owner = q =>
         queue[v].owner = q /\ queue'[v].state = queue[v].state /\ queue'[v].session = queue[v].session
  BY <1>a, <1>3
<1>6. ASSUME NEW v \in Versions PROVE OwnerHolds(v, r)'
  <2>1. CASE v = x /\ Owned(r)
    <3>1. CASE row.owner = r
      BY <1>3, <2>1, <3>1
    <3>2. CASE row.owner # r
      BY <1>3, <2>1, <3>2 DEF OwnerHolds
    <3> QED
      BY <3>1, <3>2
  <2>2. CASE v # x
    BY <1>a, <1>3, <2>2 DEF OwnerHolds
  <2>3. CASE v = x /\ ~Owned(r)
    BY <1>3, <2>3 DEF OwnerHolds, Owned
  <2> QED
    BY <2>1, <2>2, <2>3
<1> QED
  BY <1>1, <1>2, <1>4, <1>5, <1>6, MobileMoves

\* A run that goes back to its queue knows nothing of a transfer.
LEMMA RunGoesBack ==
  ASSUME UploadsInv, NEW r \in Runs, NEW at \in {"idle", "scan", "claim", "release"},
         run' = [run EXCEPT ![r] = [IdleRun EXCEPT !.at = at]]
  PROVE  [IdleRun EXCEPT !.at = at] \in RunRows /\ RunKnows(r)'
<1> DEFINE new == [IdleRun EXCEPT !.at = at]
<1>a. IdleRun \in RunRows /\ IdleRun.attempts = 0
  BY UploadAssumption, MobileAssumption DEF RunRows, IdleRun
<1>1. new \in RunRows /\ new.at = at /\ new.attempts = 0
  BY <1>a DEF RunRows
<1> HIDE DEF new
<1>2. run'[r] = new
  BY DEF UploadsInv, MobileIsSound, MobileTypeOK, new
<1>3. /\ run'[r].attempts < MaxAttempts
      /\ run'[r].at \notin {"open", "create", "send", "wait"}
  <2>1. 0 < MaxAttempts
    BY MobileAssumption
  <2>2. run'[r].attempts = 0 /\ run'[r].at = at
    BY <1>1, <1>2
  <2> QED
    BY <2>1, <2>2
<1>4. RunKnows(r)'
  BY <1>3 DEF RunKnows
<1> QED
  BY <1>1, <1>4 DEF new

\* A failed transfer is tried again, or has failed after its attempts.
LEMMA FailIsSound ==
  ASSUME UploadsInv, ServerIsSound', NEW r \in Runs, run[r].v \in Versions,
         NEW row \in {queue[run[r].v], [queue[run[r].v] EXCEPT !.session = None]},
         NEW retryable \in BOOLEAN, NEW pause \in BOOLEAN, FailWith(r, row, retryable, pause),
         \A s \in MobileSessions : SessionGrows(s),
         \A q \in Runs \ {r} : reply'[q] = reply[q]
  PROVE  MobileIsSound'
<1> DEFINE v == run[r].v
           attempts == run[r].attempts + 1
           final == ~retryable \/ attempts >= MaxAttempts
           state == IF final THEN "failed" ELSE "retry"
           at == IF pause THEN "release" ELSE "claim"
           new == [Unclaimed(row) EXCEPT !.attempts = attempts, !.due = final, !.state = state]
<1>a. /\ queue[v] \in Transfers /\ run[r].attempts \in Nat /\ run[r].attempts < MaxAttempts
      /\ MaxAttempts \in Nat /\ runLock \in [ owner : Owners, live : BOOLEAN ]
  BY MobileAssumption DEF UploadsInv, MobileIsSound, MobileTypeOK, RunsKnow, RunKnows
<1>1. row \in Transfers /\ row.session \in {queue[v].session, None}
  <2> DEFINE forgotten == [queue[v] EXCEPT !.session = None]
  <2>1. forgotten \in Transfers /\ forgotten.session = None
    BY <1>a, SessionField
  <2>2. row = queue[v] \/ row = forgotten
    OBVIOUS
  <2> HIDE DEF forgotten, v
  <2> QED
    BY <1>a, <2>1, <2>2
<1>2. attempts \in 0 .. MaxAttempts /\ final \in BOOLEAN /\ state \in RowStates
  BY <1>a DEF RowStates
<1>3. state # "complete" /\ (state = "retry" => attempts < MaxAttempts) /\ state \notin {"queued", "uploading"}
  BY <1>a
<1>4. queue' = UpdateTransfer(r, new) /\ run' = [run EXCEPT ![r] = [IdleRun EXCEPT !.at = at]]
      /\ runLock' = runLock
  BY DEF FailWith
<1>5. at \in {"idle", "scan", "claim", "release"}
  OBVIOUS
<1> HIDE DEF final, state, attempts, at
<1>6. new \in Transfers /\ new.state = state /\ new.session = row.session
      /\ new.owner = None /\ new.attempts = attempts
  <2> DEFINE Given(given) ==
        /\ given \in Transfers /\ given.session = row.session /\ given.owner = None
        /\ given.state = state /\ given.attempts = attempts
  <2>1. ASSUME NEW due \in BOOLEAN
        PROVE  Given([Unclaimed(row) EXCEPT !.attempts = attempts, !.due = due, !.state = state])
    <3>1. row \in Transfers /\ attempts \in 0 .. MaxAttempts /\ state \in RowStates
      BY <1>1, <1>2
    <3> QED
      BY ONLY <3>1, due \in BOOLEAN DEF Given, Transfers, Owners, Unclaimed, RowStates
  <2> HIDE DEF Given
  <2>2. Given(new)
    BY <1>2, <2>1, Zenon
  <2> QED
    BY <2>2 DEF Given
<1> HIDE DEF new
<1>7. [IdleRun EXCEPT !.at = at] \in RunRows /\ RunKnows(r)'
  BY <1>4, <1>5, RunGoesBack
<1>8. Writes(r, new, [IdleRun EXCEPT !.at = at])
  BY <1>a, <1>4, <1>6, <1>7 DEF Writes
<1>9. queue'[v] = new => RowMoves(v)
  BY <1>1, <1>3, <1>6 DEF RowMoves
<1>10. new.owner # r
  BY <1>6, UploadAssumption, MobileAssumption
<1> QED
  BY <1>6, <1>7, <1>8, <1>9, <1>10, RunWrites

\* A run that leaves its transfer, or has none.
LEMMA GoesTo ==
  ASSUME UploadsInv, NEW r \in Runs, NEW at \in {"scan", "claim", "release"}, Goto(r, at)
  PROVE  /\ [run[r] EXCEPT !.at = at] \in RunRows
         /\ run' = [run EXCEPT ![r] = [run[r] EXCEPT !.at = at]]
         /\ run'[r].at = at /\ run'[r].v = run[r].v
         /\ RunKnows(r)'
<1> DEFINE new == [run[r] EXCEPT !.at = at]
<1>a. run \in [Runs -> RunRows] /\ run[r].attempts < MaxAttempts
  BY DEF UploadsInv, MobileIsSound, MobileTypeOK, RunRows, RunsKnow, RunKnows
<1>1. new \in RunRows /\ new.at = at /\ new.attempts = run[r].attempts /\ new.v = run[r].v
  BY <1>a DEF RunRows
<1>2. run' = [run EXCEPT ![r] = new]
  BY DEF Goto
<1> HIDE DEF new
<1>3. run'[r] = new
  BY <1>a, <1>2
<1>4. /\ run'[r].attempts < MaxAttempts
      /\ run'[r].at \notin {"open", "create", "send", "wait"}
  BY <1>a, <1>1, <1>3
<1>5. RunKnows(r)'
  BY <1>4 DEF RunKnows
<1> QED
  BY <1>1, <1>2, <1>3, <1>5 DEF new

\* A run's steps between transfers: it owns no row, but for one it leaves behind
\* or the one it claims.
LEMMA QueueStepIsSound ==
  ASSUME UploadsInv, NEW r \in Runs, web' = web,
         Acquire(r) \/ Scan(r) \/ Claim(r) \/ Release(r)
  PROVE  UploadsInv'
<1>a. /\ queue \in [Versions -> Transfers] /\ run \in [Runs -> RunRows] /\ None \notin Runs
      /\ runLock \in [ owner : Owners, live : BOOLEAN ] /\ r \in Owners /\ None \in Owners
      /\ Runs \subseteq Clients /\ faults \in 0 .. MaxFaults
      /\ \A v \in Versions : RowIsSound(v) /\ OwnerHolds(v, r)
      /\ \A v \in Versions : queue[v].owner \in Runs => queue[v].state = "uploading"
      /\ RunKnows(r)
  BY UploadAssumption, MobileAssumption
     DEF UploadsInv, MobileIsSound, MobileTypeOK, QueueIsSound, ServerIsSound, ServerTypeOK,
         OwnersHold, OwnerHolds, RunRows, Owners, RunsKnow
<1>b. /\ run[r].at \in {"idle", "scan", "claim", "release"}
      /\ UNCHANGED << server, reply, faults >>
  BY DEF Acquire, Scan, Claim, Release
<1>c. run[r].at # "wait"
  BY <1>b
<1>d. Nobody(r)
  BY <1>a, <1>c, NobodyServes
<1> DEFINE Others(v) == queue'[v].owner \in Runs \ {r} =>
             /\ queue'[v].owner = queue[v].owner
             /\ queue'[v].state = queue[v].state /\ queue'[v].session = queue[v].session
<1>e. ASSUME queue' \in [Versions -> Transfers], runLock' \in [ owner : Owners, live : BOOLEAN ],
             NEW new \in RunRows, run' = [run EXCEPT ![r] = new], RunKnows(r)',
             \A v \in Versions : RowMoves(v) /\ Others(v) /\ OwnerHolds(v, r)'
      PROVE  UploadsInv'
  <2>1. RunMoves(r)
    BY <1>a, <1>b, <1>d, <1>e DEF RunMoves
  <2>2. /\ ServerIsSound' /\ \A s \in Sessions : SessionGrows(s)
        /\ \A q \in Runs \ {r} : run'[q] = run[q] /\ reply'[q] = reply[q]
        /\ MobileIsSound' => UploadsInv'
    BY <2>1, RunStepIsQuiet
  <2>3. MobileTypeOK' /\ MobileSessions \subseteq Sessions
    BY <1>a, <1>e, MobileAssumption DEF MobileTypeOK, RunRows
  <2>4. \A v \in Versions, q \in Runs \ {r} : queue'[v].owner = q =>
           queue[v].owner = q /\ queue'[v].state = queue[v].state /\ queue'[v].session = queue[v].session
    BY <1>e
  <2>5. MobileIsSound'
    BY <1>e, <2>2, <2>3, <2>4, MobileMoves
  <2> QED
    BY <2>2, <2>5
<1>f. ASSUME NEW v \in Versions, queue'[v] = queue[v]
      PROVE  RowMoves(v) /\ Others(v)
  BY <1>f, SameRowMoves
<1>g. ASSUME NEW at \in {"scan", "claim", "release"}, Goto(r, at)
      PROVE  /\ [run[r] EXCEPT !.at = at] \in RunRows /\ run'[r].at = at
             /\ run' = [run EXCEPT ![r] = [run[r] EXCEPT !.at = at]]
             /\ RunKnows(r)'
  BY <1>g, GoesTo
<1> HIDE DEF Others
<1>1. CASE Acquire(r)
  <2>1. /\ Goto(r, "scan") /\ queue' = queue /\ runLock' = [ owner |-> r, live |-> TRUE ]
        /\ run[r].at = "idle"
    BY <1>1 DEF Acquire
  <2>2. \A v \in Versions : OwnerHolds(v, r)'
    BY <1>a, <2>1 DEF OwnerHolds
  <2> QED
    BY <1>a, <1>e, <1>f, <1>g, <2>1, <2>2
<1>2. CASE Scan(r)
  <2> DEFINE entry == [NoTransfer EXCEPT !.state = "queued"]
  <2>1. entry \in Transfers /\ entry.state = "queued" /\ entry.session = None /\ entry.owner = None
        /\ entry.attempts = 0
    <3>1. NoTransfer \in Transfers /\ NoTransfer.session = None /\ NoTransfer.owner = None
          /\ NoTransfer.attempts = 0
      BY <1>a, MobileAssumption DEF NoTransfer, Transfers
    <3> QED
      BY <3>1 DEF Transfers
  <2>2. /\ run[r].at = "scan"
        /\ queue' = [v \in Versions |-> IF queue[v].state = "absent" THEN entry ELSE queue[v]]
    BY <1>2 DEF Scan
  <2> HIDE DEF entry
  <2>3. PICK at \in {"scan", "claim", "release"} : Goto(r, at)
    BY <1>2 DEF Scan
  <2>4. runLock' \in [ owner : Owners, live : BOOLEAN ]
    <3>1. runLock' = [ owner |-> r, live |-> TRUE ] \/ runLock' = runLock
      BY <1>2 DEF Scan
    <3>2. r \in Owners
      BY <1>a
    <3>3. [ owner |-> r, live |-> TRUE ] \in [ owner : Owners, live : BOOLEAN ]
      BY ONLY <3>2
    <3> QED
      BY <1>a, <3>1, <3>3
  <2>5. 0 < MaxAttempts
    BY MobileAssumption
  <2>6. ASSUME NEW v \in Versions PROVE RowMoves(v) /\ Others(v) /\ OwnerHolds(v, r)'
    <3>1. CASE queue[v].state = "absent"
      <4>1. queue'[v] = entry
        BY <2>2, <3>1
      <4> QED
        BY <1>a, <2>1, <2>5, <4>1 DEF RowMoves, Others, OwnerHolds
    <3>2. CASE queue[v].state # "absent"
      <4>1. queue'[v] = queue[v] /\ queue[v].owner # r
        BY <1>a, <2>2, <3>2 DEF OwnerHolds
      <4> QED
        BY <1>f, <4>1 DEF OwnerHolds
    <3> QED
      BY <3>1, <3>2
  <2>7. queue' \in [Versions -> Transfers]
    BY <1>a, <2>1, <2>2
  <2> QED
    BY <1>e, <1>g, <2>3, <2>4, <2>6, <2>7
<1>3. CASE Claim(r)
  <2>a. runLock' = runLock /\ run[r].at = "claim" /\ \A v \in Versions : queue[v].owner # r
    BY <1>3, <1>a DEF Claim, OwnerHolds
  <2>b. ASSUME NEW v \in Versions
        PROVE  /\ Freed[v] \in Transfers /\ Freed[v].session = queue[v].session
               /\ Freed[v].attempts = queue[v].attempts
               /\ Freed[v].owner \in {queue[v].owner, None}
               /\ Freed[v].state \in {queue[v].state, "retry"}
               /\ Freed[v].owner \in Runs => Freed[v].state = queue[v].state
               /\ Freed[v].state # queue[v].state => queue[v].state = "uploading"
    <3> DEFINE new == [Unclaimed(queue[v]) EXCEPT !.state = "retry"]
    <3>1. new \in Transfers /\ new.state = "retry" /\ new.session = queue[v].session
          /\ new.owner = None /\ new.attempts = queue[v].attempts
      BY <1>a, ReleasedRow DEF RowStates
    <3>2. IF queue[v].state = "uploading" /\ ~queue[v].live THEN Freed[v] = new ELSE Freed[v] = queue[v]
      BY DEF Freed
    <3> HIDE DEF new
    <3> QED
      BY <1>a, <3>1, <3>2
  <2>c. Freed \in [Versions -> Transfers]
    BY <2>b DEF Freed
  <2>d. ASSUME NEW v \in Versions, queue'[v] = Freed[v]
        PROVE  RowMoves(v) /\ Others(v) /\ OwnerHolds(v, r)'
    <3>1. OwnerHolds(v, r)'
      BY <1>a, <2>a, <2>b, <2>d DEF OwnerHolds
    <3>2. Others(v)
      BY <1>a, <2>b, <2>d DEF Others
    <3>3. RowMoves(v)
      BY <1>a, <2>b, <2>d DEF RowMoves, RowIsSound
    <3> QED
      BY <3>1, <3>2, <3>3
  <2>1. CASE queue' = Freed /\ Goto(r, "release")
    BY <1>a, <1>e, <1>g, <2>a, <2>c, <2>d, <2>1
  <2>2. ASSUME NEW v \in NextTransfers(Freed),
               queue' = [Freed EXCEPT ![v].state = "uploading", ![v].owner = r, ![v].live = TRUE],
               run' = [run EXCEPT ![r] = [ at |-> "open", v |-> v, session |-> queue[v].session,
                                           offset |-> 0, attempts |-> queue[v].attempts ]]
        PROVE  UploadsInv'
    <3> DEFINE row == [Freed[v] EXCEPT !.state = "uploading", !.owner = r, !.live = TRUE]
               new == [ at |-> "open", v |-> v, session |-> queue[v].session,
                        offset |-> 0, attempts |-> queue[v].attempts ]
    <3>1. v \in Versions /\ Freed[v].state \in {"retry", "queued"}
      BY <2>2 DEF NextTransfers
    <3>2. /\ row \in Transfers /\ row.state = "uploading" /\ row.session = queue[v].session
          /\ row.owner = r /\ row.attempts = queue[v].attempts
      <4>1. /\ Freed[v] \in Transfers /\ Freed[v].session = queue[v].session
            /\ Freed[v].attempts = queue[v].attempts
        BY <2>b, <3>1
      <4>2. r \in Owners
        BY <1>a
      <4> QED
        BY <4>1, <4>2, ClaimedRow
    <3>3. queue' = [Freed EXCEPT ![v] = row]
      BY <2>2
    <3>4. queue[v] \in Transfers /\ queue[v].attempts < MaxAttempts
      BY <1>a, <2>b, <3>1 DEF RowIsSound
    <3>5. new \in RunRows
      BY <3>1, <3>4, UploadAssumption DEF RunRows, Transfers
    <3> HIDE DEF row
    <3>6. queue'[v] = row /\ \A x \in Versions \ {v} : queue'[x] = Freed[x]
      BY <2>c, <3>1, <3>3
    <3>7. queue' \in [Versions -> Transfers]
      BY <2>c, <3>2, <3>3
    <3>8. run'[r] = new
      BY <1>a, <2>2
    <3>9. RowMoves(v) /\ Others(v) /\ OwnerHolds(v, r)'
      BY <3>1, <3>2, <3>4, <3>6, <3>8 DEF RowMoves, Others, OwnerHolds
    <3>10. RunKnows(r)'
      <4>1. /\ run'[r].at = "open" /\ run'[r].v = v /\ run'[r].session = queue[v].session
            /\ run'[r].attempts = queue[v].attempts
        BY <3>8
      <4>2. session' = session
        BY <1>b DEF server
      <4>3. queue[v].session # None => Names(v, queue[v].session)
        BY <1>a, <3>1 DEF RowIsSound
      <4> QED
        BY <3>1, <3>4, <4>1, <4>2, <4>3 DEF RunKnows, Names
    <3> QED
      BY <1>a, <1>e, <2>2, <2>a, <2>d, <3>5, <3>6, <3>7, <3>9, <3>10
  <2> QED
    BY <1>3, <2>1, <2>2 DEF Claim
<1>4. CASE Release(r)
  <2>1. /\ queue' = [v \in Versions |->
                      IF queue[v].state = "uploading" /\ queue[v].owner = r
                      THEN [Unclaimed(queue[v]) EXCEPT !.state = "retry"] ELSE queue[v]]
        /\ run' = [run EXCEPT ![r] = IdleRun]
        /\ runLock' \in [ owner : Owners, live : BOOLEAN ]
    BY <1>4, <1>a DEF Release
  <2>2. run' = [run EXCEPT ![r] = [IdleRun EXCEPT !.at = "idle"]]
    BY <2>1 DEF IdleRun
  <2>3. [IdleRun EXCEPT !.at = "idle"] \in RunRows /\ RunKnows(r)'
    BY <2>2, RunGoesBack
  <2>4. ASSUME NEW v \in Versions
        PROVE  queue'[v] \in Transfers /\ RowMoves(v) /\ Others(v) /\ OwnerHolds(v, r)'
    <3> DEFINE new == [Unclaimed(queue[v]) EXCEPT !.state = "retry"]
    <3>1. new \in Transfers /\ new.state = "retry" /\ new.session = queue[v].session
          /\ new.owner = None /\ new.attempts = queue[v].attempts
      BY <1>a, ReleasedRow DEF RowStates
    <3>2. IF queue[v].state = "uploading" /\ queue[v].owner = r THEN queue'[v] = new ELSE queue'[v] = queue[v]
      BY <2>1
    <3> HIDE DEF new
    <3>3. CASE queue[v].owner = r
      <4>1. queue'[v] = new /\ queue[v].attempts < MaxAttempts
        BY <1>a, <3>2, <3>3 DEF OwnerHolds, RowIsSound
      <4> QED
        BY <1>a, <3>1, <4>1 DEF RowMoves, Others, OwnerHolds
    <3>4. CASE queue[v].owner # r
      BY <1>a, <1>f, <3>2, <3>4 DEF OwnerHolds
    <3> QED
      BY <3>3, <3>4
  <2>5. queue' \in [Versions -> Transfers]
    BY <2>1, <2>4
  <2> QED
    BY <1>e, <2>1, <2>2, <2>3, <2>4, <2>5
<1> QED
  BY <1>1, <1>2, <1>3, <1>4

\* A run's step at a transfer, without a request.
LEMMA QuietWrites ==
  ASSUME UploadsInv, NEW r \in Runs, NEW x \in Versions, run[r].v = x,
         NEW row, NEW new, Writes(r, row, new), RunMoves(r), RunKnows(r)',
         Owned(r) =>
           /\ row.owner \in {r, None}
           /\ queue'[x] = row => RowMoves(x) \/ RowIsSound(x)'
           /\ queue'[x] = row /\ row.owner = r => OwnerHolds(x, r)'
  PROVE  UploadsInv'
<1>1. /\ ServerIsSound' /\ \A s \in Sessions : SessionGrows(s)
      /\ \A q \in Runs \ {r} : run'[q] = run[q] /\ reply'[q] = reply[q]
      /\ MobileIsSound' => UploadsInv'
  BY RunStepIsQuiet
<1>2. MobileSessions \subseteq Sessions
  BY MobileAssumption
<1>3. MobileIsSound'
  BY <1>1, <1>2, RunWrites
<1> QED
  BY <1>1, <1>3

LEMMA QuietFail ==
  ASSUME UploadsInv, NEW r \in Runs, run[r].v \in Versions,
         NEW row \in {queue[run[r].v], [queue[run[r].v] EXCEPT !.session = None]},
         NEW retryable \in BOOLEAN, NEW pause \in BOOLEAN, FailWith(r, row, retryable, pause),
         RunMoves(r)
  PROVE  UploadsInv'
<1>1. /\ ServerIsSound' /\ \A s \in Sessions : SessionGrows(s)
      /\ \A q \in Runs \ {r} : run'[q] = run[q] /\ reply'[q] = reply[q]
      /\ MobileIsSound' => UploadsInv'
  BY RunStepIsQuiet
<1>2. MobileSessions \subseteq Sessions
  BY MobileAssumption
<1>3. MobileIsSound'
  BY <1>1, <1>2, FailIsSound
<1> QED
  BY <1>1, <1>3

\* What a run at a transfer has in hand.
LEMMA RunHas ==
  ASSUME UploadsInv, NEW r \in Runs, run[r].at \in {"open", "create", "send", "wait"}
  PROVE  /\ queue \in [Versions -> Transfers] /\ run \in [Runs -> RunRows] /\ r # None
         /\ r \in Clients /\ r \in Owners /\ runLock \in [ owner : Owners, live : BOOLEAN ]
         /\ run[r].v \in Versions /\ RunKnows(r) /\ run[r].attempts < MaxAttempts
         /\ Owned(r) => /\ queue[run[r].v].state = "uploading"
                        /\ queue[run[r].v].attempts < MaxAttempts
                        /\ run[r].at # "create" => queue[run[r].v].session = run[r].session
         /\ faults \in 0 .. MaxFaults /\ MaxFaults \in Nat
<1>1. /\ queue \in [Versions -> Transfers] /\ run \in [Runs -> RunRows] /\ r # None
      /\ r \in Clients /\ r \in Owners /\ runLock \in [ owner : Owners, live : BOOLEAN ]
      /\ faults \in 0 .. MaxFaults /\ MaxFaults \in Nat
  BY UploadAssumption, MobileAssumption
     DEF UploadsInv, MobileIsSound, MobileTypeOK, RunRows, Owners, ServerIsSound, ServerTypeOK
<1>2. RunKnows(r) /\ run[r].v \in Versions /\ run[r].attempts < MaxAttempts
  BY DEF UploadsInv, MobileIsSound, RunsKnow, RunKnows
<1>3. RowIsSound(run[r].v) /\ OwnerHolds(run[r].v, r)
  BY <1>2 DEF UploadsInv, MobileIsSound, QueueIsSound, OwnersHold
<1>4. Owned(r) => /\ queue[run[r].v].state = "uploading"
                  /\ queue[run[r].v].attempts < MaxAttempts
                  /\ run[r].at # "create" => queue[run[r].v].session = run[r].session
  BY <1>3 DEF Owned, RowIsSound, OwnerHolds
<1> QED
  BY <1>1, <1>2, <1>4

LEMMA BlockedIsSound ==
  ASSUME UploadsInv, NEW r \in Runs, web' = web, Blocked(r)
  PROVE  UploadsInv'
<1> DEFINE v == run[r].v
           at == run[r].at
           blocked == [Unclaimed(queue[v]) EXCEPT !.state = "retry", !.due = TRUE]
           new == [run[r] EXCEPT !.at = "release"]
<1>a. at \in {"open", "send"} /\ Fault /\ UNCHANGED << runLock, server, reply >> /\ Goto(r, "release")
  BY DEF Blocked
<1>b. /\ queue \in [Versions -> Transfers] /\ run \in [Runs -> RunRows] /\ r # None
      /\ r \in Clients /\ runLock \in [ owner : Owners, live : BOOLEAN ] /\ v \in Versions
      /\ Owned(r) => queue[v].state = "uploading" /\ queue[v].attempts < MaxAttempts
      /\ faults \in 0 .. MaxFaults /\ MaxFaults \in Nat
  BY <1>a, RunHas
<1>1. new \in RunRows /\ run' = [run EXCEPT ![r] = new] /\ run'[r].at = "release" /\ run'[r].v = v
      /\ RunKnows(r)'
  BY <1>a, GoesTo
<1> HIDE DEF new
<1>2. Nobody(r)
  BY <1>a, <1>b, NobodyServes
<1>3. faults' \in 0 .. MaxFaults
  BY <1>a, <1>b DEF Fault
<1>4. RunMoves(r)
  BY <1>a, <1>b, <1>1, <1>2, <1>3 DEF RunMoves
<1>5. CASE at = "open"
  <2>1. queue' = queue
    BY <1>5 DEF Blocked
  <2>2. queue' = UpdateTransfer(r, queue[v])
    BY <1>b, <2>1 DEF UpdateTransfer
  <2>3. Writes(r, queue[v], new)
    BY <1>a, <1>b, <1>1, <2>2 DEF Writes
  <2>4. RowMoves(v)
    BY <1>b, <2>1, SameRowMoves
  <2>5. ASSUME NEW x \in Versions, x = v, Owned(r) PROVE OwnerHolds(x, r)'
    BY <1>b, <1>1, <2>1, <2>5 DEF OwnerHolds
  <2> QED
    BY <1>b, <1>1, <1>4, <2>3, <2>4, <2>5, QuietWrites DEF Owned
<1>6. CASE at = "send"
  <2>1. queue' = UpdateTransfer(r, blocked)
    BY <1>6 DEF Blocked
  <2>2. blocked \in Transfers /\ blocked.state = "retry" /\ blocked.session = queue[v].session
        /\ blocked.owner = None /\ blocked.attempts = queue[v].attempts
    BY <1>b, PausedRow DEF RowStates
  <2> HIDE DEF blocked
  <2>3. Writes(r, blocked, new)
    BY <1>a, <1>b, <1>1, <2>1, <2>2 DEF Writes
  <2>4. Owned(r) /\ queue'[v] = blocked => RowMoves(v)
    BY <1>b, <2>2 DEF RowMoves
  <2> QED
    BY <1>b, <1>1, <1>4, <2>2, <2>3, <2>4, QuietWrites
<1> QED
  BY <1>a, <1>5, <1>6

\* A row is completed only with the session that its run has sent to the end.
LEMMA MarkCompleteIsSound ==
  ASSUME UploadsInv, NEW r \in Runs, web' = web, MarkComplete(r)
  PROVE  UploadsInv'
<1> DEFINE v == run[r].v
           s == run[r].session
           done == [Unclaimed(queue[v]) EXCEPT !.state = "complete", !.attempts = 0, !.due = TRUE]
           new == [IdleRun EXCEPT !.at = "claim"]
<1>a. /\ run[r].at = "send" /\ run[r].offset >= Size /\ queue' = UpdateTransfer(r, done)
      /\ run' = [run EXCEPT ![r] = new] /\ UNCHANGED << runLock, server, reply, faults >>
  BY DEF MarkComplete
<1>b. /\ queue \in [Versions -> Transfers] /\ run \in [Runs -> RunRows] /\ r # None
      /\ r \in Clients /\ runLock \in [ owner : Owners, live : BOOLEAN ] /\ v \in Versions
      /\ Owned(r) => queue[v].session = s
      /\ faults \in 0 .. MaxFaults /\ RunKnows(r)
  BY <1>a, RunHas
<1>1. new \in RunRows /\ RunKnows(r)'
  BY <1>a, RunGoesBack
<1>2. Nobody(r)
  BY <1>a, <1>b, NobodyServes
<1>4. RunMoves(r)
  BY <1>a, <1>b, <1>2 DEF RunMoves
<1>5. done \in Transfers /\ done.state = "complete" /\ done.session = queue[v].session
      /\ done.owner = None /\ done.attempts = 0
  BY <1>b, RenewedAttempts DEF RowStates
<1> HIDE DEF done, new
<1>6. Writes(r, done, new)
  BY <1>a, <1>b, <1>1, <1>5 DEF Writes
<1>7. /\ s # None /\ Names(v, s) /\ s \in Sessions /\ session[s].offset = Size
  <2>1. s # None /\ Names(v, s) /\ run[r].offset <= session[s].offset
    BY <1>a, <1>b DEF RunKnows
  <2>2. s \in Sessions
    BY <2>1, PhoneSessions
  <2>3. session[s].offset \in 0 .. Size /\ run[r].offset \in 0 .. Size
    BY <1>b, <2>2 DEF UploadsInv, ServerIsSound, ServerTypeOK, Uploads, RunRows
  <2> QED
    BY <1>a, <2>1, <2>2, <2>3, UploadAssumption
<1>8. ASSUME NEW x \in Versions, x = v, Owned(r), queue'[x] = done PROVE RowIsSound(x)'
  <2>1. session' = session
    BY <1>a DEF server
  <2>2. queue'[x].session = s /\ queue'[x].state = "complete"
    BY <1>b, <1>5, <1>8
  <2> QED
    BY <1>7, <1>8, <2>1, <2>2 DEF RowIsSound, Names
<1> QED
  BY <1>b, <1>1, <1>4, <1>5, <1>6, <1>8, QuietWrites

\* Where a run goes on to in its transfer.
LEMMA SendingRun ==
  ASSUME NEW old \in RunRows, NEW offset \in 0 .. Size
  PROVE  LET new == [old EXCEPT !.at = "send", !.offset = offset] IN
           /\ new \in RunRows /\ new.at = "send" /\ new.offset = offset
           /\ new.v = old.v /\ new.session = old.session /\ new.attempts = old.attempts
BY DEF RunRows

LEMMA CreatingRun ==
  ASSUME NEW old \in RunRows
  PROVE  LET new == [old EXCEPT !.at = "create", !.session = None] IN
           /\ new \in RunRows /\ new.at = "create" /\ new.session = None
           /\ new.v = old.v /\ new.attempts = old.attempts
BY DEF RunRows

LEMMA WaitingRun ==
  ASSUME NEW old \in RunRows
  PROVE  LET new == [old EXCEPT !.at = "wait"] IN
           /\ new \in RunRows /\ new.at = "wait" /\ new.offset = old.offset
           /\ new.v = old.v /\ new.session = old.session /\ new.attempts = old.attempts
BY DEF RunRows

\* A run that goes on sending, from an offset that the server has.
LEMMA SendsOn ==
  ASSUME UploadsInv, NEW r \in Runs, web' = web, UNCHANGED server, Nobody(r),
         faults' \in 0 .. MaxFaults,
         \/ reply' = reply
         \/ Answer(r, NoReply),
         run[r].at \in {"open", "send", "wait"}, run[r].session # None,
         NEW offset \in 0 .. Size, offset <= session[run[r].session].offset,
         run' = [run EXCEPT ![r].at = "send", ![r].offset = offset],
         \/ queue' = queue
         \/ queue' = UpdateTransfer(r, Renewed(queue[run[r].v])),
         runLock' \in [ owner : Owners, live : BOOLEAN ]
  PROVE  UploadsInv'
<1> DEFINE v == run[r].v
           s == run[r].session
           new == [run[r] EXCEPT !.at = "send", !.offset = offset]
<1>b. /\ queue \in [Versions -> Transfers] /\ run \in [Runs -> RunRows] /\ r # None
      /\ v \in Versions /\ RunKnows(r) /\ run[r].attempts < MaxAttempts
      /\ Owned(r) => /\ queue[v].state = "uploading" /\ queue[v].attempts < MaxAttempts
                     /\ queue[v].session = s
  BY RunHas
<1>1. /\ new \in RunRows /\ new.at = "send" /\ new.offset = offset
      /\ new.v = v /\ new.session = s /\ new.attempts = run[r].attempts
  <2>1. run[r] \in RunRows
    BY <1>b
  <2> QED
    BY <2>1, SendingRun
<1>2. run' = [run EXCEPT ![r] = new]
  OBVIOUS
<1> HIDE DEF new
<1>3. run'[r] = new /\ \A q \in Runs \ {r} : run'[q] = run[q]
  BY <1>b, <1>2
<1>4. RunMoves(r)
  BY <1>3 DEF RunMoves
<1>5. RunKnows(r)'
  <2>1. Names(v, s)
    BY <1>b DEF RunKnows
  <2>2. session' = session
    BY DEF server
  <2> QED
    BY <1>b, <1>1, <1>3, <2>1, <2>2 DEF RunKnows, Names
<1>6. PICK row : /\ queue' = UpdateTransfer(r, row) /\ row \in Transfers
                 /\ row.state = queue[v].state /\ row.session = queue[v].session
                 /\ row.owner = queue[v].owner /\ row.attempts = queue[v].attempts
  <2>1. CASE queue' = queue
    <3>1. queue' = UpdateTransfer(r, queue[v])
      BY <1>b, <2>1 DEF UpdateTransfer
    <3> QED
      BY <1>b, <3>1
  <2>2. CASE queue' = UpdateTransfer(r, Renewed(queue[v]))
    <3> DEFINE renewed == [queue[v] EXCEPT !.live = TRUE]
    <3>1. /\ renewed \in Transfers
          /\ renewed.state = queue[v].state /\ renewed.session = queue[v].session
          /\ renewed.owner = queue[v].owner /\ renewed.attempts = queue[v].attempts
      BY <1>b, LeaseField
    <3>2. queue' = UpdateTransfer(r, renewed)
      BY <2>2 DEF Renewed
    <3> HIDE DEF renewed
    <3> QED
      BY <3>1, <3>2
  <2> QED
    BY <2>1, <2>2
<1>7. Writes(r, row, new)
  BY <1>1, <1>2, <1>6 DEF Writes
<1>8. ASSUME NEW x \in Versions, x = v, Owned(r), queue'[x] = row
      PROVE  RowMoves(x) /\ OwnerHolds(x, r)'
  BY <1>b, <1>1, <1>3, <1>6, <1>8 DEF RowMoves, OwnerHolds
<1> QED
  BY <1>b, <1>4, <1>5, <1>6, <1>7, <1>8, QuietWrites DEF Owned

LEMMA OpenIsSound ==
  ASSUME UploadsInv, NEW r \in Runs, web' = web, Open(r)
  PROVE  UploadsInv'
<1> DEFINE v == run[r].v
           s == run[r].session
<1>a. run[r].at = "open" /\ UNCHANGED << server, reply >>
  BY DEF Open
<1>b. /\ queue \in [Versions -> Transfers] /\ run \in [Runs -> RunRows] /\ r # None
      /\ r \in Clients /\ r \in Owners /\ v \in Versions /\ RunKnows(r) /\ run[r].attempts < MaxAttempts
      /\ Owned(r) => queue[v].state = "uploading" /\ queue[v].attempts < MaxAttempts
      /\ faults \in 0 .. MaxFaults /\ MaxFaults \in Nat
  BY <1>a, RunHas
<1>c. Nobody(r)
  BY <1>a, <1>b, NobodyServes
<1>1. CASE \E retryable, pause \in BOOLEAN : Fail(r, retryable, pause) /\ (UNCHANGED faults \/ Fault)
  <2>1. PICK retryable \in BOOLEAN, pause \in BOOLEAN :
          FailWith(r, queue[v], retryable, pause) /\ (UNCHANGED faults \/ Fault)
    BY <1>1 DEF Fail
  <2>2. faults' \in 0 .. MaxFaults
    BY <1>b, <2>1 DEF Fault
  <2>3. \A q \in Runs \ {r} : run'[q] = run[q]
    BY <1>b, <2>1 DEF FailWith
  <2>4. RunMoves(r)
    BY <1>a, <1>c, <2>2, <2>3 DEF RunMoves
  <2> QED
    BY <1>b, <2>1, <2>4, QuietFail
<1>2. CASE /\ Holds(r) /\ RenewRun(r) /\ UNCHANGED faults /\ Resumable(s)
           /\ run' = [run EXCEPT ![r].at = "send", ![r].offset = session[s].offset]
           /\ queue' = [queue EXCEPT ![v] = Renewed(queue[v])]
  <2>1. s # None /\ s \in Sessions
    BY <1>2, PhoneSessions DEF Resumable
  <2>2. session[s].offset \in 0 .. Size /\ session[s].offset <= session[s].offset
    BY <2>1, UploadAssumption DEF UploadsInv, ServerIsSound, ServerTypeOK, Uploads
  <2>3. queue' = UpdateTransfer(r, Renewed(queue[v])) /\ runLock' \in [ owner : Owners, live : BOOLEAN ]
    BY <1>b, <1>2 DEF UpdateTransfer, Holds, RenewRun
  <2> QED
    BY <1>a, <1>b, <1>c, <1>2, <2>1, <2>2, <2>3, SendsOn
<1>3. CASE /\ Holds(r) /\ RenewRun(r) /\ UNCHANGED faults
           /\ run' = [run EXCEPT ![r].at = "create", ![r].session = None]
           /\ queue' = [queue EXCEPT ![v] = [Renewed(queue[v]) EXCEPT !.session = None]]
  <2> DEFINE renewed == [queue[v] EXCEPT !.live = TRUE]
             row == [renewed EXCEPT !.session = None]
             new == [run[r] EXCEPT !.at = "create", !.session = None]
  <2>1. renewed \in Transfers /\ renewed.state = queue[v].state /\ renewed.owner = queue[v].owner
        /\ renewed.attempts = queue[v].attempts
    BY <1>b, LeaseField
  <2>2. queue' = UpdateTransfer(r, row) /\ runLock' \in [ owner : Owners, live : BOOLEAN ]
    BY <1>b, <1>3 DEF UpdateTransfer, Holds, RenewRun, Renewed
  <2> HIDE DEF renewed
  <2>3. /\ row \in Transfers /\ row.session = None /\ row.state = queue[v].state
        /\ row.owner = queue[v].owner /\ row.attempts = queue[v].attempts
    BY <2>1, SessionField
  <2>4. run[r] \in RunRows
    BY <1>b
  <2>5. /\ new \in RunRows /\ new.at = "create" /\ new.session = None
        /\ new.v = v /\ new.attempts = run[r].attempts
    BY <2>4, CreatingRun
  <2>6. run' = [run EXCEPT ![r] = new]
    BY <1>3
  <2> HIDE DEF row, new
  <2>7. run'[r] = new /\ \A q \in Runs \ {r} : run'[q] = run[q]
    BY <1>b, <2>6
  <2>8. RunMoves(r)
    BY <1>a, <1>b, <1>c, <1>3, <2>7 DEF RunMoves
  <2>9. RunKnows(r)'
    BY <1>b, <2>5, <2>7 DEF RunKnows
  <2>10. Writes(r, row, new)
    BY <2>2, <2>3, <2>5, <2>6 DEF Writes
  <2>11. ASSUME NEW x \in Versions, x = v, Owned(r), queue'[x] = row
         PROVE  RowMoves(x) /\ OwnerHolds(x, r)'
    BY <1>b, <2>3, <2>5, <2>7, <2>11 DEF RowMoves, OwnerHolds
  <2> QED
    BY <1>b, <2>3, <2>8, <2>9, <2>10, <2>11, QuietWrites DEF Owned
<1>4. \/ ~Holds(r) /\ Fail(r, TRUE, TRUE) /\ UNCHANGED faults
      \/ Holds(r) /\ Fault /\ \E retryable \in BOOLEAN : Fail(r, retryable, retryable)
      \/ /\ Holds(r) /\ RenewRun(r) /\ UNCHANGED faults
         /\ \/ /\ Resumable(s)
               /\ run' = [run EXCEPT ![r].at = "send", ![r].offset = session[s].offset]
               /\ queue' = [queue EXCEPT ![v] = Renewed(queue[v])]
            \/ /\ ~Resumable(s)
               /\ run' = [run EXCEPT ![r].at = "create", ![r].session = None]
               /\ queue' = [queue EXCEPT ![v] = [Renewed(queue[v]) EXCEPT !.session = None]]
  BY DEF Open
<1>5. TRUE \in BOOLEAN
  OBVIOUS
<1> QED
  BY <1>1, <1>2, <1>3, <1>4, <1>5

\* The answer is behind the session, however late it comes.
LEMMA HearIsSound ==
  ASSUME UploadsInv, NEW r \in Runs, web' = web, Hear(r)
  PROVE  UploadsInv'
<1> DEFINE v == run[r].v
           s == run[r].session
           row == queue[v]
           code == reply[r].code
           forgotten == [row EXCEPT !.session = None]
<1>a. /\ run[r].at = "wait" /\ code \notin {"none", "waiting"}
      /\ Answer(r, NoReply) /\ UNCHANGED server
  BY DEF Hear
<1>b. /\ queue \in [Versions -> Transfers] /\ run \in [Runs -> RunRows] /\ r # None
      /\ r \in Clients /\ runLock \in [ owner : Owners, live : BOOLEAN ] /\ v \in Versions /\ RunKnows(r)
      /\ faults \in 0 .. MaxFaults /\ MaxFaults \in Nat
  BY <1>a, RunHas
<1>c. reply[r] # Waiting
  BY <1>a DEF Waiting, Refusal
<1>d. Nobody(r)
  BY <1>b, <1>c, NobodyServes
<1>e. s # None /\ s \in Sessions
  <2>1. s # None
    BY <1>a, <1>b DEF RunKnows
  <2> QED
    BY <2>1, PhoneSessions
<1>f. session[s].offset \in 0 .. Size /\ reply[r].offset \in 0 .. Size
  BY <1>b, <1>e DEF UploadsInv, ServerIsSound, ServerTypeOK, Uploads
<1>1. ASSUME NEW given \in {row, forgotten}, NEW retryable \in BOOLEAN, NEW pause \in BOOLEAN,
             FailWith(r, given, retryable, pause), UNCHANGED faults \/ Fault
      PROVE  UploadsInv'
  <2>2. faults' \in 0 .. MaxFaults
    BY <1>b, <1>1 DEF Fault
  <2>3. \A q \in Runs \ {r} : run'[q] = run[q]
    BY <1>b, <1>1 DEF FailWith
  <2>4. RunMoves(r)
    BY <1>a, <1>d, <2>2, <2>3 DEF RunMoves
  <2> QED
    BY <1>b, <1>1, <2>4, QuietFail
<1>2. CASE /\ code = "ok" /\ reply[r].offset > run[r].offset
           /\ run' = [run EXCEPT ![r].at = "send", ![r].offset = reply[r].offset]
           /\ queue' = UpdateTransfer(r, Renewed(row))
           /\ UNCHANGED << runLock, faults >>
  <2>1. reply[r].offset <= session[s].offset
    BY <1>a, <1>b, <1>2 DEF RunKnows
  <2> QED
    BY <1>a, <1>b, <1>d, <1>e, <1>f, <1>2, <2>1, SendsOn
<1>3. CASE /\ run' = [run EXCEPT ![r].at = "send", ![r].offset = session[s].offset]
           /\ UNCHANGED << queue, runLock, faults >>
  <2>1. session[s].offset <= session[s].offset
    BY <1>f
  <2> QED
    BY <1>a, <1>b, <1>d, <1>e, <1>f, <1>3, <2>1, SendsOn
<1>4. CASE Fail(r, TRUE, TRUE) /\ (UNCHANGED faults \/ Fault)
  BY <1>1, <1>4 DEF Fail
<1>5. CASE FailWith(r, forgotten, TRUE, FALSE) /\ UNCHANGED faults
  BY <1>1, <1>5
<1> QED
  BY <1>2, <1>3, <1>4, <1>5 DEF Hear

LEMMA CreatedRun ==
  ASSUME NEW old \in RunRows, NEW s \in MobileSessions
  PROVE  LET new == [old EXCEPT !.at = "send", !.session = s, !.offset = 0] IN
           /\ new \in RunRows /\ new.at = "send" /\ new.session = s /\ new.offset = 0
           /\ new.v = old.v /\ new.attempts = old.attempts
<1>1. 0 \in 0 .. Size
  BY UploadAssumption
<1> QED
  BY <1>1 DEF RunRows

LEMMA CreateSessionIsSound ==
  ASSUME UploadsInv, NEW r \in Runs, web' = web, CreateSession(r)
  PROVE  UploadsInv'
<1> DEFINE v == run[r].v
<1>a. run[r].at = "create" /\ UNCHANGED << key, original, assets, handler, reply >>
  BY DEF CreateSession
<1>b. /\ queue \in [Versions -> Transfers] /\ run \in [Runs -> RunRows] /\ r # None
      /\ r \in Clients /\ runLock \in [ owner : Owners, live : BOOLEAN ] /\ v \in Versions
      /\ run[r].attempts < MaxAttempts
      /\ Owned(r) => queue[v].state = "uploading" /\ queue[v].attempts < MaxAttempts
      /\ faults \in 0 .. MaxFaults /\ MaxFaults \in Nat
  BY <1>a, RunHas
<1>c. Nobody(r)
  BY <1>a, <1>b, NobodyServes
<1>d. /\ MobileSessions \subseteq Sessions /\ Photo[v] \in Contents
      /\ Web \subseteq Clients /\ Web \subseteq Sessions
      /\ \A w \in Web : w \notin MobileSessions
  BY <1>b, WebAssumption, MobileAssumption, UploadsAssumption
<1>1. CASE Fault /\ Fail(r, TRUE, TRUE) /\ UNCHANGED session
  <2>1. faults' \in 0 .. MaxFaults
    BY <1>b, <1>1 DEF Fault
  <2>2. \A q \in Runs \ {r} : run'[q] = run[q]
    BY <1>b, <1>1 DEF Fail, FailWith
  <2>3. RunMoves(r)
    BY <1>a, <1>c, <1>1, <2>1, <2>2 DEF RunMoves, server
  <2> QED
    BY <1>b, <1>1, <2>3, QuietFail DEF Fail
<1>2. ASSUME NEW s \in MobileSessions, FreeSession(s), Create(s, Photo[v]),
             queue' = UpdateTransfer(r, [queue[v] EXCEPT !.session = s]),
             run' = [run EXCEPT ![r].at = "send", ![r].session = s, ![r].offset = 0],
             UNCHANGED << runLock, faults >>
      PROVE  UploadsInv'
  <2> DEFINE row == [queue[v] EXCEPT !.session = s]
             new == [run[r] EXCEPT !.at = "send", !.session = s, !.offset = 0]
  <2>1. /\ ServerIsSound' /\ BytesGrow
        /\ \A x \in Sessions \ {s} : SessionGrows(x)
        /\ session'[s].status = "active" /\ session'[s].content = Photo[v] /\ session'[s].offset = 0
    <3>1. \A h \in Handlers : handler[h].session # s
      BY <1>2 DEF FreeSession
    <3>2. ServerIsSound /\ s \in Sessions
      BY <1>d DEF UploadsInv
    <3> QED
      BY <1>a, <1>d, <1>2, <3>1, <3>2, CreateIsSound
  <2>2. /\ row \in Transfers /\ row.session = s /\ row.state = queue[v].state
        /\ row.owner = queue[v].owner /\ row.attempts = queue[v].attempts
    <3>1. queue[v] \in Transfers
      BY <1>b
    <3> QED
      BY <3>1, SessionField
  <2>3. /\ new \in RunRows /\ new.at = "send" /\ new.session = s /\ new.offset = 0
        /\ new.v = v /\ new.attempts = run[r].attempts
    <3>1. run[r] \in RunRows
      BY <1>b
    <3> QED
      BY <3>1, CreatedRun
  <2>4. run' = [run EXCEPT ![r] = new] /\ queue' = UpdateTransfer(r, row)
    BY <1>2
  <2> HIDE DEF row, new
  <2>5. run'[r] = new /\ \A q \in Runs \ {r} : run'[q] = run[q]
    BY <1>b, <2>4
  <2>6. Writes(r, row, new)
    BY <1>b, <1>2, <2>2, <2>3, <2>4 DEF Writes
  <2>7. s # None
    BY <1>d, UploadAssumption
  <2>8. RunKnows(r)'
    BY <1>b, <2>1, <2>3, <2>5, <2>7 DEF RunKnows, Names
  <2>9. ASSUME NEW x \in Versions, x = v, Owned(r), queue'[x] = row
        PROVE  RowIsSound(x)' /\ OwnerHolds(x, r)'
    BY <1>b, <2>1, <2>2, <2>3, <2>5, <2>7, <2>9 DEF RowIsSound, Names, OwnerHolds
  <2>10. \A x \in MobileSessions : SessionGrows(x) \/ FreeSession(x)
    BY <1>d, <1>2, <2>1
  <2>11. MobileIsSound'
    BY <1>a, <1>b, <2>1, <2>2, <2>6, <2>8, <2>9, <2>10, RunWrites DEF Owned
  <2>12. \A q \in Clients \ {r} : Undisturbed(q)
    BY <1>a, <1>b, <2>5 DEF Undisturbed
  <2>13. ClientsWait'
    BY <1>a, <1>b, <1>c, <2>12, OwnStep
  <2>14. \A w \in Web : SessionGrows(w) /\ reply'[w] = reply[w]
    BY <1>a, <1>d, <2>1
  <2> QED
    BY <2>1, <2>11, <2>13, <2>14, PhoneStep
<1> QED
  BY <1>1, <1>2 DEF CreateSession

LEMMA SendIsSound ==
  ASSUME UploadsInv, NEW r \in Runs, web' = web, Send(r)
  PROVE  UploadsInv'
<1> DEFINE v == run[r].v
           s == run[r].session
           row == [queue[v] EXCEPT !.live = TRUE]
           new == [run[r] EXCEPT !.at = "wait"]
<1>a. run[r].at = "send" /\ UNCHANGED << key, original, assets >>
  BY DEF Send
<1>b. /\ queue \in [Versions -> Transfers] /\ run \in [Runs -> RunRows] /\ r # None
      /\ r \in Clients /\ r \in Owners /\ v \in Versions /\ RunKnows(r) /\ run[r].attempts < MaxAttempts
      /\ Owned(r) => /\ queue[v].state = "uploading" /\ queue[v].attempts < MaxAttempts
                     /\ queue[v].session = s
      /\ faults \in 0 .. MaxFaults /\ MaxFaults \in Nat
  BY <1>a, RunHas
<1>c. Nobody(r)
  BY <1>a, <1>b, NobodyServes
<1>d. /\ s # None /\ s \in Sessions /\ Names(v, s) /\ run[r].offset <= session[s].offset
      /\ run[r].offset \in 0 .. Size
  <2>1. s # None /\ Names(v, s) /\ run[r].offset <= session[s].offset
    BY <1>a, <1>b DEF RunKnows
  <2>2. run[r].offset \in 0 .. Size
    BY <1>b DEF RunRows
  <2> QED
    BY <2>1, <2>2, PhoneSessions
<1>1. CASE ~Holds(r) /\ Fail(r, TRUE, TRUE) /\ UNCHANGED << session, handler, reply, faults >>
  <2>2. \A q \in Runs \ {r} : run'[q] = run[q]
    BY <1>b, <1>1 DEF Fail, FailWith
  <2>3. RunMoves(r)
    BY <1>a, <1>b, <1>c, <1>1, <2>2 DEF RunMoves, server
  <2> QED
    BY <1>b, <1>1, <2>3, QuietFail DEF Fail
<1>2. ASSUME Holds(r), RenewRun(r), NEW h \in Handlers, Patch(r, h, s, run[r].offset),
             queue' = [queue EXCEPT ![v] = Renewed(queue[v])], Goto(r, "wait")
      PROVE  UploadsInv'
  <2>1. Patched(r, h, s)
    <3>1. ServerIsSound
      BY DEF UploadsInv
    <3> QED
      BY <1>a, <1>b, <1>d, <1>2, <3>1, PatchIsSound
  <2>2. /\ ServerIsSound' /\ BytesGrow /\ \A x \in Sessions : SessionGrows(x)
        /\ \A q \in Clients \ {r} : reply'[q] = reply[q]
    BY <2>1 DEF Patched
  <2>3. /\ row \in Transfers /\ row.session = queue[v].session /\ row.state = queue[v].state
        /\ row.owner = queue[v].owner /\ row.attempts = queue[v].attempts
    BY <1>b, LeaseField
  <2>4. /\ new \in RunRows /\ new.at = "wait" /\ new.session = s /\ new.offset = run[r].offset
        /\ new.v = v /\ new.attempts = run[r].attempts
    <3>1. run[r] \in RunRows
      BY <1>b
    <3> QED
      BY <3>1, WaitingRun
  <2>5. /\ run' = [run EXCEPT ![r] = new] /\ queue' = UpdateTransfer(r, row)
        /\ runLock' \in [ owner : Owners, live : BOOLEAN ]
    BY <1>b, <1>2 DEF Goto, UpdateTransfer, Holds, Renewed, RenewRun
  <2> HIDE DEF row, new
  <2>6. run'[r] = new /\ \A q \in Runs \ {r} : run'[q] = run[q]
    BY <1>b, <2>5
  <2>7. Writes(r, row, new)
    BY <2>3, <2>4, <2>5 DEF Writes
  <2>8. reply'[r].code = "ok" => reply'[r].offset <= session'[s].offset
    BY <2>1 DEF Patched, Answered, Accepted, Waiting, Refusal
  <2>9. /\ session'[s].status # "none" /\ session'[s].content = Photo[v]
        /\ run[r].offset <= session'[s].offset
    <3>1. session[s].offset <= session'[s].offset /\ session[s].offset \in 0 .. Size
          /\ session'[s].offset \in 0 .. Size
      BY <1>d, <2>2 DEF SessionGrows, UploadsInv, ServerIsSound, ServerTypeOK, Uploads
    <3>2. run[r].offset <= session'[s].offset
      BY <1>d, <3>1, UploadAssumption
    <3> QED
      BY <1>d, <2>2, <3>2 DEF SessionGrows, Names
  <2>10. RunKnows(r)'
    BY <1>b, <1>d, <2>4, <2>6, <2>8, <2>9 DEF RunKnows, Names
  <2>11. ASSUME NEW x \in Versions, x = v, Owned(r), queue'[x] = row
         PROVE  RowMoves(x) /\ OwnerHolds(x, r)'
    BY <1>b, <2>3, <2>4, <2>6, <2>11 DEF RowMoves, OwnerHolds
  <2>12. MobileSessions \subseteq Sessions /\ Runs \subseteq Clients /\ Web \subseteq Clients
         /\ Web \subseteq Sessions /\ r \notin Web
    BY WebAssumption, MobileAssumption, UploadsAssumption
  <2>13. MobileIsSound'
    BY <1>b, <2>2, <2>3, <2>7, <2>10, <2>11, <2>12, RunWrites DEF Owned
  <2>14. \A q \in Clients \ {r} : Undisturbed(q)
    BY <1>b, <2>2, <2>6 DEF Undisturbed
  <2>15. ClientsWait'
    <3>1. CASE Answered(r, h, s)
      BY <1>b, <1>c, <2>14, <3>1, OwnStep DEF Answered
    <3>2. CASE Accepted(r, h, s)
      BY <1>b, <1>c, <2>4, <2>6, <2>12, <2>14, <3>2, NewHandler
    <3> QED
      BY <2>1, <3>1, <3>2 DEF Patched
  <2> QED
    BY <2>2, <2>12, <2>13, <2>15, PhoneStep
<1> QED
  BY <1>1, <1>2 DEF Send

\* A killed run leaves its rows to nobody, and its request without a client.
LEMMA KillIsSound ==
  ASSUME UploadsInv, NEW r \in Runs, web' = web, Kill(r)
  PROVE  UploadsInv'
<1>a. /\ queue \in [Versions -> Transfers] /\ run \in [Runs -> RunRows] /\ None \notin Runs
      /\ runLock \in [ owner : Owners, live : BOOLEAN ] /\ Dead \in Owners /\ Dead \notin Runs
      /\ Runs \subseteq Clients /\ Web \subseteq Clients /\ Web \subseteq Sessions
      /\ MobileSessions \subseteq Sessions /\ r \notin Web
      /\ faults \in 0 .. MaxFaults /\ MaxFaults \in Nat
  BY UploadAssumption, WebAssumption, MobileAssumption, UploadsAssumption
     DEF UploadsInv, MobileIsSound, MobileTypeOK, RunRows, Owners, ServerIsSound, ServerTypeOK
<1>b. /\ Leaves(r, NoReply) /\ faults' \in 0 .. MaxFaults /\ run' = [run EXCEPT ![r] = IdleRun]
      /\ queue' = [v \in Versions |->
                    IF queue[v].owner = r THEN [queue[v] EXCEPT !.owner = Dead] ELSE queue[v]]
  BY <1>a DEF Kill, Leaves, Fault
<1>1. /\ ServerIsSound' /\ BytesGrow /\ \A s \in Sessions : SessionGrows(s)
      /\ \A q \in Clients \ {r} : reply'[q] = reply[q]
      /\ \A h \in Handlers :
           /\ handler'[h].at = handler[h].at /\ handler'[h].session = handler[h].session
           /\ handler'[h].client = IF handler[h].client = r THEN None ELSE handler[h].client
  <2>1. ServerIsSound
    BY DEF UploadsInv
  <2> QED
    BY <1>a, <1>b, <2>1, LeavingIsSound
<1>2. run' = [run EXCEPT ![r] = [IdleRun EXCEPT !.at = "idle"]]
  BY <1>b DEF IdleRun
<1>3. [IdleRun EXCEPT !.at = "idle"] \in RunRows /\ RunKnows(r)'
  BY <1>2, RunGoesBack
<1>4. \A q \in Runs \ {r} : run'[q] = run[q] /\ reply'[q] = reply[q]
  BY <1>a, <1>1, <1>2
<1>5. ASSUME NEW v \in Versions
      PROVE  /\ queue'[v] \in Transfers /\ queue'[v].state = queue[v].state
             /\ queue'[v].session = queue[v].session /\ queue'[v].attempts = queue[v].attempts
             /\ queue'[v].owner = IF queue[v].owner = r THEN Dead ELSE queue[v].owner
  <2> DEFINE new == [queue[v] EXCEPT !.owner = Dead]
  <2>1. /\ new \in Transfers /\ new.state = queue[v].state /\ new.session = queue[v].session
        /\ new.owner = Dead /\ new.attempts = queue[v].attempts
    BY <1>a, OwnerField
  <2>2. queue'[v] = IF queue[v].owner = r THEN new ELSE queue[v]
    BY <1>b
  <2> HIDE DEF new
  <2> QED
    BY <1>a, <2>1, <2>2
<1>6. runLock' \in [ owner : Owners, live : BOOLEAN ]
  <2>1. runLock' = runLock \/ runLock' = [runLock EXCEPT !.owner = Dead]
    BY DEF Kill
  <2> QED
    BY <1>a, <2>1
<1>7. MobileTypeOK'
  <2>1. queue' \in [Versions -> Transfers]
    BY <1>b, <1>5
  <2>2. run' \in [Runs -> RunRows]
    BY <1>a, <1>2, <1>3
  <2> QED
    BY <1>6, <2>1, <2>2 DEF MobileTypeOK, RunRows
<1>8. ASSUME NEW v \in Versions PROVE RowMoves(v) /\ OwnerHolds(v, r)'
  <2>1. RowMoves(v)
    BY <1>5, SameRowMoves
  <2>2. queue'[v].owner # r
    BY <1>a, <1>5
  <2> QED
    BY <2>1, <2>2 DEF OwnerHolds
<1>9. \A v \in Versions, q \in Runs \ {r} : queue'[v].owner = q =>
         queue[v].owner = q /\ queue'[v].state = queue[v].state /\ queue'[v].session = queue[v].session
  BY <1>a, <1>5
<1>10. MobileIsSound'
  BY <1>a, <1>1, <1>3, <1>4, <1>7, <1>8, <1>9, MobileMoves
<1>11. ASSUME NEW h \in Handlers, handler'[h].client # None
       PROVE  /\ handler'[h].client = handler[h].client /\ handler'[h].session = handler[h].session
              /\ handler'[h].at # "idle" /\ Undisturbed(handler[h].client)
  <2>1. handler'[h].client = handler[h].client /\ handler[h].client # r
    BY <1>1, <1>11
  <2>2. handler[h].client \in Clients /\ handler[h].at # "idle"
    BY <1>11, <2>1 DEF UploadsInv, ClientsWait, ClientWaits, ServerIsSound, ServerTypeOK
  <2>3. Undisturbed(handler[h].client)
    BY <1>1, <1>4, <2>1, <2>2 DEF Undisturbed
  <2> QED
    BY <1>1, <2>1, <2>2, <2>3
<1>12. ClientsWait'
  BY <1>11, ClientsStay
<1> QED
  BY <1>a, <1>1, <1>10, <1>12, PhoneStep

LEMMA MobileKeepsInv ==
  ASSUME UploadsInv, MobileNext, UNCHANGED web
  PROVE  UploadsInv'
<1>1. ASSUME NEW r \in Runs, RunStep(r) PROVE UploadsInv'
  BY <1>1, QueueStepIsSound, OpenIsSound, CreateSessionIsSound, SendIsSound, HearIsSound,
     MarkCompleteIsSound DEF RunStep
<1>2. ASSUME NEW r \in Runs, Blocked(r) \/ Kill(r) PROVE UploadsInv'
  BY <1>2, BlockedIsSound, KillIsSound
<1>3. ASSUME \/ RetryFailed \/ CancelPending \/ LeaseEnds
             \/ \E v \in Versions : RetryBecomesDue(v)
             \/ \E r \in Runs : Suspend(r)
      PROVE  UploadsInv'
  BY <1>3, TimeIsSound
<1> QED
  BY <1>1, <1>2, <1>3 DEF MobileNext

(***************************************************************************)
(* The theorems                                                            *)
(***************************************************************************)

LEMMA UploadsStep == UploadsInv /\ [Next]_vars => UploadsInv'
<1> SUFFICES ASSUME UploadsInv, [Next]_vars PROVE UploadsInv'
  OBVIOUS
<1>1. ASSUME WebNext, UNCHANGED mobile PROVE UploadsInv'
  BY <1>1, WebKeepsInv DEF WebNext
<1>2. ASSUME MobileNext, UNCHANGED web PROVE UploadsInv'
  BY <1>2, MobileKeepsInv
<1>3. ASSUME ServerNext, UNCHANGED << web, mobile >> PROVE UploadsInv'
  BY <1>3, ServerKeepsInv
<1>4. CASE UNCHANGED vars
  <2>1. TimeMoves /\ UNCHANGED << queue, runLock >>
    BY <1>4 DEF vars, TimeMoves, server, UploadsInv, ServerIsSound, ServerTypeOK
  <2>2. \A v \in Versions : RowMoves(v)
    BY <2>1, SameRowMoves
  <2> QED
    BY <2>1, <2>2, TimeKeepsInv DEF UploadsInv, MobileIsSound, MobileTypeOK
<1> QED
  BY <1>1, <1>2, <1>3, <1>4 DEF Next

\* The inductive invariant holds in every state, whatever requests, phones and
\* handlers do in between.
THEOREM UploadsInvariance == Spec => []UploadsInv
BY UploadsInitially, UploadsStep, PTL DEF Spec

\* Every variable of the server, the pages and the phone keeps its type.
THEOREM UploadsTypeOK == Spec => []TypeOK
<1>1. UploadsInv => TypeOK
  BY DEF UploadsInv, ServerIsSound, MobileIsSound, TypeOK
<1> QED
  BY <1>1, UploadsInvariance, PTL

\* The received bytes of an upload are in staging until they are published,
\* whatever fails in between (commit_original).
THEOREM BytesAreAlwaysKept == Spec => []BytesAreKept
<1>1. UploadsInv => BytesAreKept
  BY DEF UploadsInv, ServerIsSound, SessionIsSound, BytesAreKept
<1> QED
  BY <1>1, UploadsInvariance, PTL

\* A session is completed only when all its bytes are there and its content has
\* an asset (append_upload after persist_managed_asset).
THEOREM CompleteIsAlwaysStored == Spec => []CompleteIsStored
<1>1. UploadsInv => CompleteIsStored
  BY DEF UploadsInv, ServerIsSound, SessionIsSound, CompleteIsStored
<1> QED
  BY <1>1, UploadsInvariance, PTL

\* A transfer that the page shows as saved is stored (finishTransfer).
THEOREM WebIsAlwaysSaved == Spec => []WebIsSaved
<1>1. UploadsInv => WebIsSaved
  BY DEF UploadsInv, WebKnows, PageKnows, WebIsSaved
<1> QED
  BY <1>1, UploadsInvariance, PTL

\* A complete row of the phone names a session of its own photo that has every
\* byte, although a suspended run goes on beside its successor (updateTransfer).
THEOREM CompleteIsAlwaysReceived == Spec => []CompleteIsReceived
<1>1. UploadsInv => CompleteIsReceived
  BY DEF UploadsInv, MobileIsSound, QueueIsSound, RowIsSound, Names, CompleteIsReceived
<1> QED
  BY <1>1, UploadsInvariance, PTL

\* No write of a run takes a completed row away: no run owns it.
LEMMA CompleteRowStays ==
  ASSUME UploadsInv, MobileNext, NEW v \in Versions, queue[v].state = "complete"
  PROVE  queue'[v].state = "complete"
<1>a. /\ queue \in [Versions -> Transfers] /\ \A r \in Runs : queue[v].owner # r
  BY DEF UploadsInv, MobileIsSound, MobileTypeOK, OwnersHold, OwnerHolds
<1>b. ASSUME NEW r \in Runs, NEW row, queue' = UpdateTransfer(r, row)
      PROVE  queue'[v] = queue[v]
  BY <1>a, <1>b DEF UpdateTransfer, Owned
<1>c. ASSUME NEW r \in Runs, Holds(r), NEW row, queue' = [queue EXCEPT ![run[r].v] = row]
      PROVE  queue'[v] = queue[v]
  BY <1>a, <1>c DEF Holds, Owned
<1>d. ASSUME NEW x \in Versions, NEW new \in Transfers, queue' = [queue EXCEPT ![x] = new],
             new.state = queue[x].state
      PROVE  queue'[v].state = "complete"
  BY <1>a, <1>d
<1>e. ASSUME NEW r \in Runs, NEW row, NEW retryable, NEW pause, FailWith(r, row, retryable, pause)
      PROVE  queue'[v] = queue[v]
  BY <1>b, <1>e DEF FailWith
<1>1. ASSUME NEW r \in Runs, Acquire(r) \/ Scan(r) \/ Claim(r) \/ Release(r)
      PROVE  queue'[v] = queue[v]
  <2>1. CASE Acquire(r)
    BY <2>1 DEF Acquire
  <2>2. CASE Scan(r)
    BY <2>2 DEF Scan
  <2>3. CASE Claim(r)
    <3>1. Freed[v] = queue[v]
      BY DEF Freed
    <3>2. CASE queue' = Freed
      BY <3>1, <3>2
    <3>3. ASSUME NEW x \in NextTransfers(Freed),
                 queue' = [Freed EXCEPT ![x].state = "uploading", ![x].owner = r, ![x].live = TRUE]
          PROVE  queue'[v] = queue[v]
      <4>1. x # v
        BY <3>1 DEF NextTransfers
      <4>2. DOMAIN Freed = Versions
        BY DEF Freed
      <4> QED
        BY <3>1, <3>3, <4>1, <4>2
    <3> QED
      BY <2>3, <3>2, <3>3 DEF Claim
  <2>4. CASE Release(r)
    BY <2>4 DEF Release
  <2> QED
    BY <1>1, <2>1, <2>2, <2>3, <2>4
<1>2. ASSUME NEW r \in Runs, Open(r) \/ CreateSession(r) \/ Send(r) \/ Hear(r) \/ MarkComplete(r)
      PROVE  queue'[v] = queue[v]
  <2>1. CASE Open(r)
    BY <1>c, <1>e, <2>1 DEF Open, Fail
  <2>2. CASE CreateSession(r)
    BY <1>b, <1>e, <2>2 DEF CreateSession, Fail
  <2>3. CASE Send(r)
    BY <1>c, <1>e, <2>3 DEF Send, Fail
  <2>4. CASE Hear(r)
    BY <1>b, <1>e, <2>4 DEF Hear, Fail
  <2>5. CASE MarkComplete(r)
    BY <1>b, <2>5 DEF MarkComplete
  <2> QED
    BY <1>2, <2>1, <2>2, <2>3, <2>4, <2>5
<1>3. ASSUME NEW r \in Runs, Blocked(r)
      PROVE  queue'[v] = queue[v]
  BY <1>b, <1>3 DEF Blocked
<1>4. ASSUME NEW r \in Runs, Suspend(r) PROVE queue'[v].state = "complete"
  <2>1. queue'[v] = [queue[v] EXCEPT !.live = queue[v].live /\ queue[v].owner # r]
    BY <1>4 DEF Suspend
  <2> QED
    BY <1>a, <2>1 DEF Transfers
<1>5. ASSUME NEW r \in Runs, Kill(r) PROVE queue'[v].state = "complete"
  BY <1>a, <1>5 DEF Kill
<1>6. ASSUME NEW x \in Versions, RetryBecomesDue(x) PROVE queue'[v].state = "complete"
  BY <1>a, <1>6 DEF RetryBecomesDue
<1>7. CASE LeaseEnds
  <2>1. CASE queue' = queue
    BY <2>1
  <2>2. ASSUME NEW x \in Versions, queue' = [queue EXCEPT ![x].live = FALSE]
        PROVE  queue'[v].state = "complete"
    <3> DEFINE new == [queue[x] EXCEPT !.live = FALSE]
    <3>1. new \in Transfers /\ new.state = queue[x].state
      BY <1>a, LeaseField
    <3>2. queue' = [queue EXCEPT ![x] = new]
      BY <2>2
    <3> HIDE DEF new
    <3> QED
      BY <1>d, <3>1, <3>2
  <2> QED
    BY <1>7, <2>1, <2>2 DEF LeaseEnds
<1>8. CASE RetryFailed \/ CancelPending
  BY <1>8 DEF RetryFailed, CancelPending
<1> QED
  BY <1>1, <1>2, <1>3, <1>4, <1>5, <1>6, <1>7, <1>8 DEF MobileNext, RunStep

\* A completed record stays: it is the proof that this version was backed up
\* (enqueueTransfer).
THEOREM CompleteAlwaysStays == Spec => CompleteStays
<1>1. UploadsInv /\ [Next]_vars =>
        [\A v \in Versions : queue[v].state = "complete" => queue'[v].state = "complete"]_queue
  <2> SUFFICES ASSUME UploadsInv, [Next]_vars, queue' # queue, NEW v \in Versions,
                      queue[v].state = "complete"
               PROVE  queue'[v].state = "complete"
    OBVIOUS
  <2>1. MobileNext
    BY DEF Next, vars, mobile
  <2> QED
    BY <2>1, CompleteRowStays
<1> QED
  BY <1>1, UploadsInvariance, PTL DEF Spec, CompleteStays

=============================================================================
