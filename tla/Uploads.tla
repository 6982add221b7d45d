------------------------------- MODULE Uploads -------------------------------
(***************************************************************************)
(* The web client and the phone upload to one account of one server.       *)
(***************************************************************************)
EXTENDS WebUpload, MobileBackup

\* A page is no run of the phone, and its session none of the phone's.
ASSUME UploadsAssumption == Web \cap (Runs \cup MobileSessions) = {}

vars == << session, key, original, assets, handler, reply, faults, web, queue, runLock, run >>

Init == ServerInit /\ WebInit /\ MobileInit

Next ==
  \/ WebNext /\ UNCHANGED mobile
  \/ MobileNext /\ UNCHANGED web
  \/ ServerNext /\ UNCHANGED << web, mobile >>

Spec == Init /\ [][Next]_vars

\* Requests are worked off; a page goes on with a transfer it has started; the
\* app is opened, or the background task runs, again and again; time passes.
\* Fairness is strong where a step waits for a row lock that is free again and
\* again: PostgreSQL queues its waiters.  Faults, expiry and what the user does
\* are not fair.
Fairness ==
  /\ \A h \in Handlers : SF_vars(HandlerStep(h) /\ UNCHANGED << web, mobile >>)
  /\ \A w \in Web : SF_vars(WebStep(w) /\ UNCHANGED mobile)
  /\ \A r \in Runs : SF_vars(RunStep(r) /\ UNCHANGED web)
  /\ \A v \in Versions : WF_vars(RetryBecomesDue(v) /\ UNCHANGED web)
  /\ WF_vars(LeaseEnds /\ UNCHANGED web)

TypeOK == ServerTypeOK /\ WebTypeOK /\ MobileTypeOK

\* Every transfer comes to an end the user can see: a web transfer is saved or
\* failed (finishTransfer counts stalled attempts), and a queued photo is
\* complete, failed after its attempts, or cancelled (runBackup), although
\* sessions expire, answers and leases are lost and handlers fail.
TransfersSettle ==
  /\ \A w \in Web : web[w].at \in {"send", "wait", "ask"} ~> web[w].at \in {"saved", "failed"}
  /\ \A v \in Versions :
       queue[v].state \in {"queued", "uploading", "retry"}
         ~> queue[v].state \in {"complete", "failed", "absent"}

=============================================================================
