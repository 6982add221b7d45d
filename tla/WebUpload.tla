------------------------------ MODULE WebUpload ------------------------------
(***************************************************************************)
(* The web client's transfers (runUpload and finishTransfer): receiving    *)
(* all bytes is not completion, and an empty PATCH retries publication.    *)
(* A transfer has one session, named like it; a reloaded page is another   *)
(* transfer.                                                               *)
(***************************************************************************)
EXTENDS ResumableUpload

CONSTANTS
  Web,       \* transfers of the web client
  WebFile,   \* the content of each
  MaxStalls  \* attempts without progress before a transfer fails

ASSUME WebAssumption ==
  /\ Web \subseteq Clients \cap Sessions
  /\ WebFile \in [Web -> Contents]
  /\ MaxStalls \in Nat \ {0}

VARIABLE web   \* where each transfer is, and the progress it knows

WebTransfers == [ at : {"new", "send", "wait", "ask", "saved", "failed"},
                  offset : 0..Size, status : Status, stalls : 0..MaxStalls ]

WebInit == web = [w \in Web |-> [ at |-> "new", offset |-> 0, status |-> "none", stalls |-> 0 ]]

\* A POST that fails leaves a failed transfer without a session.
WebCreate(w) ==
  /\ web[w].at \in {"new", "failed"} /\ web[w].status = "none"
  /\ \/ /\ Create(w, WebFile[w])
        /\ web' = [web EXCEPT ![w] = [ at |-> "send", offset |-> 0, status |-> "active", stalls |-> 0 ]]
        /\ UNCHANGED faults
     \/ /\ Fault
        /\ web' = [web EXCEPT ![w].at = "failed"]
        /\ UNCHANGED session
  /\ UNCHANGED << key, original, assets, handler, reply >>

\* Mutant: all bytes received is completion.
ProgressIsCompletion(w, offset, status, stalls) ==
  IF status = "complete" \/ offset = Size
  THEN web' = [web EXCEPT ![w] = [ at |-> "saved", offset |-> offset, status |-> status, stalls |-> stalls ]]
  ELSE web' = [web EXCEPT ![w] = [ at |-> IF status = "active" /\ stalls < MaxStalls THEN "send" ELSE "failed",
                                   offset |-> offset, status |-> status, stalls |-> stalls ]]

\* Mutant: a transfer without progress is sent again and again.
ProgressUnbounded(w, offset, status, stalls) ==
  LET at == CASE status = "complete" -> IF offset = Size THEN "saved" ELSE "failed"
              [] status = "active" -> "send"
              [] OTHER -> "failed"
  IN web' = [web EXCEPT ![w] = [ at |-> at, offset |-> offset, status |-> status, stalls |-> stalls ]]

\* The transfer goes on from the progress it has learnt, or ends.
Progress(w, offset, status, stalls) ==
  LET at == CASE status = "complete" -> IF offset = Size THEN "saved" ELSE "failed"
              [] status = "active" /\ stalls < MaxStalls -> "send"
              [] OTHER -> "failed"
  IN web' = [web EXCEPT ![w] = [ at |-> at, offset |-> offset, status |-> status, stalls |-> stalls ]]

\* What an answer, or asking for one, shows of a transfer under way.
Learn(w, offset, status) ==
  IF offset < web[w].offset
  THEN web' = [web EXCEPT ![w].at = "failed"]
  ELSE Progress(w, offset, status, IF offset > web[w].offset THEN 0 ELSE web[w].stalls + 1)

WebSend(w) ==
  /\ web[w].at = "send"
  /\ \E h \in Handlers : Patch(w, h, w, web[w].offset)
  /\ web' = [web EXCEPT ![w].at = "wait"]
  /\ UNCHANGED << key, original, assets >>

WebAnswer(w) ==
  /\ web[w].at = "wait" /\ reply[w].code \notin {"none", "waiting"}
  /\ IF reply[w].code = "ok"
     THEN Learn(w, reply[w].offset, reply[w].status)
     ELSE web' = [web EXCEPT ![w].at = "ask"]
  /\ Answer(w, NoReply)
  /\ UNCHANGED << session, key, original, assets, handler, faults >>

\* HEAD after a request that failed; if that fails as well, nothing is learnt.
WebAsk(w) ==
  /\ web[w].at = "ask"
  /\ \/ Learn(w, session[w].offset, session[w].status) /\ UNCHANGED faults
     \/ Fault /\ Learn(w, web[w].offset, web[w].status)
  /\ UNCHANGED << server, reply >>

\* The user retries within the page: HEAD on the same session.
WebRetry(w) ==
  /\ web[w].at = "failed" /\ web[w].status # "none"
  /\ Progress(w, session[w].offset, session[w].status, 0)
  /\ UNCHANGED << server, reply, faults >>

WebStep(w) == WebCreate(w) \/ WebSend(w) \/ WebAnswer(w) \/ WebAsk(w)

WebNext == \E w \in Web : WebStep(w) \/ WebRetry(w)

WebTypeOK == web \in [Web -> WebTransfers]

\* "Receiving all bytes is not completion" (finishTransfer): a transfer the page
\* shows as saved has an asset, whichever answers were lost or came from an
\* earlier attempt.
WebIsSaved ==
  \A w \in Web : web[w].at = "saved" => WebFile[w] \in assets

=============================================================================
