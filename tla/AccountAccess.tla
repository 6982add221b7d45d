---------------------------- MODULE AccountAccess ----------------------------
(***************************************************************************)
(* How one account is signed into: its sessions, its password, its second  *)
(* factor, its passkeys and the single-use links and challenges            *)
(* (api/v1/auth.py, api/v1/passkeys.py, services/passkeys.py,              *)
(* core/security.py).                                                      *)
(*                                                                         *)
(* A request of a signed-in user has three steps: current_auth reads the   *)
(* session and the user without a lock (Admit), the handler waits for the  *)
(* user's row lock (Lock), and it commits (one action per handler).  The   *)
(* second read does not refresh the user object of the first: the handlers *)
(* go on with `copy`, except where they ask for populate_existing.  A      *)
(* request of a person who is not signed in reads the user under the lock. *)
(*                                                                         *)
(* AccountToken rows and WebAuthnChallenge rows are both Links, named for  *)
(* the operation that redeems them.  Passwords and secrets are numbered in *)
(* the order they are set.  That a password, a code or an assertion is the *)
(* right one is the choice between a handler's commit and Refuse; which    *)
(* of three neighbouring TOTP steps a code matches is any step.            *)
(***************************************************************************)
EXTENDS Integers, FiniteSets

CONSTANTS
  Requests,       \* HTTP requests in flight
  Sessions,       \* AuthSession rows
  Links,          \* AccountToken and WebAuthnChallenge rows
  Passkeys,       \* credentials the person's authenticators can register
  MaxPasskeys,    \* MAX_PASSKEYS_PER_ACCOUNT
  Codes,          \* recovery codes handed out by one confirmation
  None,           \* no session, no link
  MaxPasswords,   \* bound: passwords set
  MaxSecrets,     \* bound: TOTP secrets drawn
  MaxSteps,       \* bound: TOTP steps that pass
  MaxAdmitted     \* bound: requests admitted

ASSUME AccessAssumption ==
  /\ None \notin Sessions \cup Links
  /\ {MaxPasskeys, MaxSteps} \subseteq Nat \ {0}
  /\ {MaxPasswords, MaxSecrets, MaxAdmitted} \subseteq Nat

VARIABLES
  google,    \* settings.google_auth_enabled
  user,      \* the User row
  codes,     \* unused MfaRecoveryCode rows
  passkeys,  \* PasskeyCredential rows
  session,   \* AuthSession rows and the refresh cookie of their browsers
  link,      \* AccountToken and WebAuthnChallenge rows
  request,   \* handlers in flight
  secrets,   \* TOTP secrets drawn so far
  admitted,  \* requests admitted so far
  granted    \* history: the proofs the last step accepted

access ==
  <<google, user, codes, passkeys, session, link, request, secrets, admitted,
    granted>>

\* Operations of a signed-in user, and those behind require_recent_auth.
Authenticated ==
  {"change", "reauth", "setup", "confirm", "disable", "revoke",
   "addOptions", "addPasskey", "deletePasskey", "reauthOptions",
   "passkeyReauth"}
NeedsRecent ==
  {"setup", "confirm", "revoke", "addOptions", "addPasskey", "deletePasskey"}

\* Operations that redeem a link; a failure spends the link of some of them.
Redeeming ==
  {"verify", "reset", "googleReauth", "mfaLogin", "mfaReauth", "passkeyLogin",
   "addPasskey", "passkeyReauth"}
SpentByFailure ==
  {"mfaLogin", "mfaReauth", "passkeyLogin", "addPasskey", "passkeyReauth"}

Ops == Authenticated \cup Redeeming \cup {"login", "googleLogin"}

\* `secret` 0 is an account without a second factor; `by` is the session that
\* may confirm the pending secret.
Users ==
  [password : 0 .. MaxPasswords, enabled : BOOLEAN, verified : BOOLEAN,
   linked : BOOLEAN, secret : 0 .. MaxSecrets, last : 0 .. MaxSteps,
   pending : 0 .. MaxSecrets, by : Sessions \cup {None}]

\* `opened` (history) is the password the session was opened under.
\* `cookie` is the refresh token the browser holds.
SessionRows ==
  [state : {"none", "live", "revoked"}, recent : BOOLEAN,
   opened : 0 .. MaxPasswords, cookie : {"current", "old", "none"}]

LinkRows ==
  [op : Redeeming \cup {"none"}, session : Sessions \cup {None}, open : BOOLEAN]

Idle == [phase |-> "idle"]
Handlers ==
  [phase : {"admitted", "locked"}, op : Ops, session : Sessions \cup {None},
   link : Links \cup {None}, copy : Users, seen : SUBSET Passkeys]

Proofs ==
  ({"step"} \X (0 .. MaxSecrets) \X (0 .. MaxSteps))
    \cup ({"code"} \X (0 .. MaxSecrets) \X Codes)
    \cup ({"pending"} \X (0 .. MaxSecrets)) \cup ({"link"} \X Links)

----------------------------------------------------------------------------
NoSession ==
  [state |-> "none", recent |-> FALSE, opened |-> 0, cookie |-> "none"]
NoLink == [op |-> "none", session |-> None, open |-> FALSE]

\* TOTP steps are counted from the one that confirmed the factor, which is the
\* last one used (auth.py:1114).
Account(enabled, linked, verified, secret) ==
  [password |-> 0, enabled |-> enabled, verified |-> verified,
   linked |-> linked, secret |-> secret, last |-> IF secret = 0 THEN 0 ELSE 1,
   pending |-> 0, by |-> None]

\* A person who has just registered, or who registered with a password or came
\* from Google, may have a second factor and passkeys, and is signed
\* in once.
AccessInit ==
  /\ google \in BOOLEAN
  /\ \/ /\ user = Account(TRUE, FALSE, FALSE, 0)
        /\ codes = {}
        /\ passkeys = {}
        /\ session = [s \in Sessions |-> NoSession]
     \/ /\ \E enabled, linked \in BOOLEAN, secret \in {0, 1} \cap 0 .. MaxSecrets :
             /\ enabled \/ linked
             /\ user = Account(enabled, linked, TRUE, secret)
             /\ codes = IF secret = 0 THEN {} ELSE Codes
        /\ passkeys \in {p \in SUBSET Passkeys : Cardinality(p) <= MaxPasskeys}
        /\ user.enabled \/ google \/ passkeys # {}
        /\ LET s == CHOOSE s \in Sessions : TRUE IN
             session = [x \in Sessions |->
               IF x = s THEN [NoSession EXCEPT !.state = "live", !.recent = TRUE,
                                               !.cookie = "current"]
               ELSE NoSession]
  /\ link = [l \in Links |-> NoLink]
  /\ request = [r \in Requests |-> Idle]
  /\ secrets = user.secret
  /\ admitted = 0
  /\ granted = {}

----------------------------------------------------------------------------
(* Reading, locking, refusing                                              *)

Live(s) == session[s].state = "live"

Counted == admitted < MaxAdmitted /\ admitted' = admitted + 1

\* Admit a request: current_auth for a signed-in user, and the read of the row
\* of the link it presents (a link already closed is refused at once).
Admit(r, op) ==
  /\ request[r] = Idle
  /\ Counted
  /\ \E s \in IF op \notin Authenticated THEN {None}
              ELSE {s \in Sessions : Live(s) /\ (op \in NeedsRecent => session[s].recent)},
        l \in IF op \notin Redeeming THEN {None}
              ELSE {l \in Links : link[l].open /\ link[l].op = op} :
       request' = [request EXCEPT ![r] =
         [phase |-> "admitted", op |-> op, session |-> s, link |-> l,
          copy |-> user, seen |-> {}]]
  /\ granted' = {}
  /\ UNCHANGED <<google, user, codes, passkeys, session, link, secrets>>

\* Mutant: the user is read and not locked.
NoLock == TRUE
\* The lock a request waits for: SELECT ... FOR UPDATE on the user's row.
UserFree == \A r \in Requests : request[r].phase # "locked"

\* SELECT ... FOR UPDATE of an object that is already loaded keeps the loaded
\* attributes; confirm_mfa refreshes them.
LockedCopy(q) ==
  IF q.op \in Authenticated \ {"confirm"} THEN q.copy ELSE user

\* The passkeys that a registration or a deletion counts under the lock.
Counting(q) == IF q.op \in {"addPasskey", "deletePasskey"} THEN passkeys ELSE {}

\* The link is still unused, and belongs to this session.  The callback of a
\* Google reauthentication has loaded the row of its state before the lock: it
\* tests the copy, which was unused when it was admitted.
Redeemable(q) ==
  /\ q.op # "googleReauth" => link[q.link].open
  /\ q.op \in Authenticated => link[q.link].session = q.session
  /\ q.op = "passkeyLogin" => passkeys # {}

Lock(r) ==
  LET q == request[r] IN
  /\ q.phase = "admitted"
  /\ q.op # "revoke"
  /\ UserFree
  /\ request' = [request EXCEPT ![r] =
       IF q.op \in Redeeming /\ ~Redeemable(q) THEN Idle
       ELSE [q EXCEPT !.phase = "locked", !.copy = LockedCopy(q),
                       !.seen = Counting(q)]]
  /\ granted' = {}
  /\ UNCHANGED <<google, user, codes, passkeys, session, link, secrets, admitted>>

Close(l) == [link EXCEPT ![l].open = FALSE]

\* A wrong password, code or assertion, a missing field, a rate limit, a link
\* or a pending secret that has expired.
Refuse(r) ==
  /\ request[r].phase # "idle"
  /\ request' = [request EXCEPT ![r] = Idle]
  /\ link' = IF request[r].phase = "locked" /\ request[r].op \in SpentByFailure
             THEN Close(request[r].link) ELSE link
  /\ granted' = {}
  /\ UNCHANGED <<google, user, codes, passkeys, session, secrets, admitted>>

----------------------------------------------------------------------------
(* What handlers share                                                     *)

\* Mutant: verify_second_factor on the object the request already holds.
SecondFactorOfCopy(copy) ==
  IF copy.secret = 0
  THEN {[last |-> user.last, codes |-> codes, proofs |-> {}]}
  ELSE {[last |-> t, codes |-> codes, proofs |-> {<<"step", copy.secret, t>>}] :
          t \in {t \in 1 .. MaxSteps : t > copy.last}}

\* verify_second_factor: an account whose copy has no factor needs none; else
\* the row is read again, and a later step or an unused code is accepted.
\* Each outcome is the last step, the codes left and the proofs accepted.
SecondFactor(copy) ==
  IF copy.secret = 0
  THEN {[last |-> user.last, codes |-> codes, proofs |-> {}]}
  ELSE {[last |-> t, codes |-> codes, proofs |-> {<<"step", user.secret, t>>}] :
          t \in {t \in 1 .. MaxSteps : user.secret # 0 /\ t > user.last}}
       \cup {[last |-> user.last, codes |-> codes \ {c},
              proofs |-> {<<"code", user.secret, c>>}] :
               c \in {c \in codes : user.secret # 0}}

\* issue_session, by a handler that read the user as `copy`.
Opened(s, copy, recent) ==
  [session EXCEPT ![s] = [state |-> "live", recent |-> recent,
                          opened |-> copy.password, cookie |-> "current"]]

\* The id a new row takes: any that is unused.
AnyOf(S) == IF S = {} THEN {} ELSE {CHOOSE x \in S : TRUE}
NewSession == AnyOf({s \in Sessions : session[s] = NoSession})

Recent(s) == [session EXCEPT ![s].recent = TRUE]

\* Mutant: the other sessions stay signed in.
RevokeNobody(kept) == session
\* Every session but `kept` is signed out.
RevokeOthers(kept) ==
  [s \in Sessions |-> IF s # kept /\ Live(s)
                      THEN [session[s] EXCEPT !.state = "revoked"] ELSE session[s]]

\* Which open links a new one closes: create_account_token closes those of its
\* purpose, create_challenge those of its session and purpose; login challenges
\* and the states of a Google reauthentication close none.
Superseded(op, s) ==
  {l \in Links :
     /\ link[l].op = op
     /\ op \notin {"passkeyLogin", "googleReauth"}
     /\ op \in {"addPasskey", "passkeyReauth"} => link[l].session = s}

\* link' after `spent` is used and a link of (op, s) is issued.
Issue(op, s, spent) ==
  \E new \in AnyOf({l \in Links : link[l].op = "none"}) :
    link' = [l \in Links |->
      IF l = new THEN [op |-> op, session |-> s, open |-> TRUE]
      ELSE IF l \in spent \cup Superseded(op, s) THEN [link[l] EXCEPT !.open = FALSE]
      ELSE link[l]]

\* Handler r of operation op holds the user's row and commits.
Commits(r, op) ==
  /\ request[r].phase = "locked"
  /\ request[r].op = op
  /\ request' = [request EXCEPT ![r] = Idle]
  /\ admitted' = admitted

\* An attribute the handler assigns is written if it differs from its copy.
Written(row, copied, value) == IF copied = value THEN row ELSE value

----------------------------------------------------------------------------
(* Signing in                                                              *)

Login(r) ==
  /\ Commits(r, "login")
  /\ request[r].copy.verified
  /\ \E s \in NewSession, o \in SecondFactor(request[r].copy) :
       /\ user' = [user EXCEPT !.last = o.last, !.enabled = TRUE]
       /\ codes' = o.codes
       /\ session' = Opened(s, request[r].copy, TRUE)
       /\ granted' = o.proofs
  /\ UNCHANGED <<google, passkeys, link, secrets>>

PasskeyLogin(r) ==
  /\ Commits(r, "passkeyLogin")
  /\ request[r].copy.verified
  /\ \E s \in NewSession : session' = Opened(s, request[r].copy, TRUE)
  /\ link' = Close(request[r].link)
  /\ granted' = {<<"link", request[r].link>>}
  /\ UNCHANGED <<google, user, codes, passkeys, secrets>>

\* The callback of a Google sign-in links the identity to the account of the
\* verified address; with a second factor it only issues a transaction for it.
GoogleLogin(r) ==
  /\ google
  /\ Commits(r, "googleLogin")
  /\ user' = [user EXCEPT !.linked = TRUE,
                          !.verified = user.linked => user.verified]
  /\ IF user.secret # 0
     THEN Issue("mfaLogin", None, {}) /\ session' = session
     ELSE /\ link' = link
          /\ \E s \in NewSession : session' = Opened(s, request[r].copy, FALSE)
  /\ granted' = {}
  /\ UNCHANGED <<google, codes, passkeys, secrets>>

\* complete_google_mfa_login: one attempt with the second factor.
MfaLogin(r) ==
  /\ Commits(r, "mfaLogin")
  /\ user.secret # 0
  /\ \E s \in NewSession, o \in SecondFactor(request[r].copy) :
       /\ user' = [user EXCEPT !.last = o.last]
       /\ codes' = o.codes
       /\ session' = Opened(s, request[r].copy, TRUE)
       /\ granted' = o.proofs \cup {<<"link", request[r].link>>}
  /\ link' = Close(request[r].link)
  /\ UNCHANGED <<google, passkeys, secrets>>

----------------------------------------------------------------------------
(* Verifying again                                                         *)

Reauthenticate(r) ==
  /\ Commits(r, "reauth")
  /\ request[r].copy.enabled
  /\ \E o \in SecondFactor(request[r].copy) :
       /\ user' = [user EXCEPT !.last = o.last]
       /\ codes' = o.codes
       /\ granted' = o.proofs
  /\ session' = Recent(request[r].session)
  /\ UNCHANGED <<google, passkeys, link, secrets>>

PasskeyReauth(r) ==
  /\ Commits(r, "passkeyReauth")
  /\ passkeys # {}
  /\ session' = Recent(request[r].session)
  /\ link' = Close(request[r].link)
  /\ granted' = {<<"link", request[r].link>>}
  /\ UNCHANGED <<google, user, codes, passkeys, secrets>>

\* google_reauthentication_start, without the user's lock.
GoogleReauthStart(s) ==
  /\ Counted
  /\ google
  /\ Live(s)
  /\ user.linked
  /\ Issue("googleReauth", s, {})
  /\ granted' = {}
  /\ UNCHANGED <<google, user, codes, passkeys, session, request, secrets>>

\* The callback of a reauthentication: recent at once, or a transaction for the
\* second factor.
GoogleReauth(r) ==
  LET s == link[request[r].link].session IN
  /\ google
  /\ Commits(r, "googleReauth")
  /\ user.linked
  /\ Live(s)
  /\ IF user.secret # 0
     THEN Issue("mfaReauth", s, {request[r].link}) /\ session' = session
     ELSE link' = Close(request[r].link) /\ session' = Recent(s)
  /\ granted' = {<<"link", request[r].link>>}
  /\ UNCHANGED <<google, user, codes, passkeys, secrets>>

MfaReauth(r) ==
  LET s == link[request[r].link].session IN
  /\ Commits(r, "mfaReauth")
  /\ user.secret # 0
  /\ Live(s)
  /\ \E o \in SecondFactor(request[r].copy) :
       /\ user' = [user EXCEPT !.last = o.last]
       /\ codes' = o.codes
       /\ granted' = o.proofs \cup {<<"link", request[r].link>>}
  /\ session' = Recent(s)
  /\ link' = Close(request[r].link)
  /\ UNCHANGED <<google, passkeys, secrets>>

----------------------------------------------------------------------------
(* The password and the address                                            *)

NewPassword(o) ==
  [user EXCEPT !.password = @ + 1, !.enabled = TRUE, !.last = o.last]

\* change_password: with the current password and the factor, or, when the
\* account has none, from a recent session.
ChangePassword(r) ==
  LET q == request[r] IN
  /\ Commits(r, "change")
  /\ user.password < MaxPasswords
  /\ q.copy.enabled \/ session[q.session].recent
  /\ \E o \in IF q.copy.enabled THEN SecondFactor(q.copy)
              ELSE {[last |-> user.last, codes |-> codes, proofs |-> {}]} :
       /\ user' = NewPassword(o)
       /\ codes' = o.codes
       /\ granted' = o.proofs
  /\ session' = [RevokeOthers(q.session) EXCEPT
                   ![q.session].recent = TRUE,
                   ![q.session].opened = user.password + 1]
  /\ UNCHANGED <<google, passkeys, link, secrets>>

ResetPassword(r) ==
  /\ Commits(r, "reset")
  /\ user.password < MaxPasswords
  /\ user' = [user EXCEPT !.password = @ + 1, !.enabled = TRUE]
  /\ session' = RevokeOthers(None)
  /\ link' = [l \in Links |-> IF link[l].op = "reset"
                              THEN [link[l] EXCEPT !.open = FALSE] ELSE link[l]]
  /\ granted' = {<<"link", request[r].link>>}
  /\ UNCHANGED <<google, codes, passkeys, secrets>>

VerifyEmail(r) ==
  /\ Commits(r, "verify")
  /\ user' = [user EXCEPT !.verified = TRUE]
  /\ link' = Close(request[r].link)
  /\ granted' = {<<"link", request[r].link>>}
  /\ UNCHANGED <<google, codes, passkeys, session, secrets>>

\* register, resend_verification, forgot_password and passkey_login_options.
SendLink(op) ==
  /\ Counted
  /\ op \in {"verify", "reset", "passkeyLogin"}
  /\ op = "passkeyLogin" \/ UserFree
  /\ op = "verify" => ~user.verified
  /\ Issue(op, None, {})
  /\ granted' = {}
  /\ UNCHANGED <<google, user, codes, passkeys, session, request, secrets>>

----------------------------------------------------------------------------
(* The second factor                                                       *)

\* The session is written if the copy names another one.  A row that would hold
\* a pending secret and no session is refused by its CHECK constraint.
SetupMfa(r) ==
  LET q == request[r]
      by == Written(user.by, q.copy.by, q.session) IN
  /\ Commits(r, "setup")
  /\ \/ /\ by = None
        /\ UNCHANGED <<user, secrets>>
     \/ /\ by # None
        /\ secrets < MaxSecrets
        /\ secrets' = secrets + 1
        /\ user' = [user EXCEPT !.pending = secrets + 1, !.by = by]
  /\ granted' = {}
  /\ UNCHANGED <<google, codes, passkeys, session, link>>

ConfirmMfa(r) ==
  LET q == request[r] IN
  /\ Commits(r, "confirm")
  /\ q.copy.pending # 0
  /\ q.copy.by = q.session
  /\ \E t \in 1 .. MaxSteps :
       user' = [user EXCEPT !.secret = q.copy.pending, !.last = t,
                            !.pending = 0, !.by = None]
  /\ codes' = Codes
  /\ session' = Recent(q.session)
  /\ granted' = {<<"pending", q.copy.pending>>}
  /\ UNCHANGED <<google, passkeys, link, secrets>>

\* disable_mfa: verify_second_factor, where it runs, refreshes the copy.
DisableMfa(r) ==
  LET q == request[r]
      factored == q.copy.enabled /\ q.copy.secret # 0
      known == IF factored THEN user ELSE q.copy IN
  /\ Commits(r, "disable")
  /\ q.copy.enabled \/ session[q.session].recent
  /\ \E o \in IF q.copy.enabled THEN SecondFactor(q.copy)
              ELSE {[last |-> user.last, codes |-> codes, proofs |-> {}]} :
       granted' = o.proofs
  /\ user' = [user EXCEPT !.secret = Written(@, known.secret, 0),
                          !.last = Written(@, known.last, 0),
                          !.pending = Written(@, known.pending, 0),
                          !.by = Written(@, known.by, None)]
  /\ codes' = {}
  /\ session' = Recent(q.session)
  /\ UNCHANGED <<google, passkeys, link, secrets>>

----------------------------------------------------------------------------
(* Passkeys and sessions                                                   *)

\* passkey_registration_options and passkey_reauthentication_options.
PasskeyOptions(r) ==
  /\ \/ Commits(r, "addOptions") /\ Cardinality(passkeys) < MaxPasskeys
                                 /\ Issue("addPasskey", request[r].session, {})
     \/ Commits(r, "reauthOptions") /\ passkeys # {}
                                    /\ Issue("passkeyReauth", request[r].session, {})
  /\ granted' = {}
  /\ UNCHANGED <<google, user, codes, passkeys, session, secrets>>

\* Registration counts again: the options may have been issued to two sessions.
AddPasskey(r) ==
  /\ Commits(r, "addPasskey")
  /\ Cardinality(request[r].seen) < MaxPasskeys
  /\ \E k \in AnyOf(Passkeys \ passkeys) : passkeys' = passkeys \cup {k}
  /\ link' = Close(request[r].link)
  /\ granted' = {<<"link", request[r].link>>}
  /\ UNCHANGED <<google, user, codes, session, secrets>>

\* A passkey may go if another one, the password or Google remains.
DeletePasskey(r) ==
  LET q == request[r] IN
  /\ Commits(r, "deletePasskey")
  /\ \E k \in passkeys :
       /\ q.seen \ {k} # {} \/ q.copy.enabled \/ (google /\ user.linked)
       /\ passkeys' = passkeys \ {k}
  /\ granted' = {}
  /\ UNCHANGED <<google, user, codes, session, link, secrets>>

\* revoke_session takes no lock.
RevokeSession(r) ==
  /\ request[r].phase = "admitted"
  /\ request[r].op = "revoke"
  /\ \E s \in Sessions : /\ session[s] # NoSession
                         /\ session' = [session EXCEPT ![s].state = "revoked"]
  /\ request' = [request EXCEPT ![r] = Idle]
  /\ granted' = {}
  /\ UNCHANGED <<google, user, codes, passkeys, link, secrets, admitted>>

\* refresh_session replaces the token under the session's lock; its answer may
\* be lost, and then the browser holds a token that opens nothing.
Refresh(s) ==
  /\ Counted
  /\ session[s].cookie # "none"
  /\ \E c \in IF Live(s) /\ session[s].cookie = "current" THEN {"current", "old"}
              ELSE {"none"} :
       session' = [session EXCEPT ![s].cookie = c]
  /\ granted' = {}
  /\ UNCHANGED <<google, user, codes, passkeys, link, request, secrets>>

\* logout revokes the session of the token the browser holds, if there is one.
Logout(s) ==
  /\ Counted
  /\ session[s].cookie # "none"
  /\ session' = [session EXCEPT ![s].cookie = "none",
                   ![s].state = IF session[s].cookie = "current" THEN "revoked" ELSE @]
  /\ granted' = {}
  /\ UNCHANGED <<google, user, codes, passkeys, link, request, secrets>>

----------------------------------------------------------------------------
AccessNext ==
  \/ \E r \in Requests, op \in Ops : Admit(r, op)
  \/ \E r \in Requests :
       \/ Lock(r) \/ Refuse(r)
       \/ Login(r) \/ PasskeyLogin(r) \/ GoogleLogin(r) \/ MfaLogin(r)
       \/ Reauthenticate(r) \/ PasskeyReauth(r) \/ GoogleReauth(r) \/ MfaReauth(r)
       \/ ChangePassword(r) \/ ResetPassword(r) \/ VerifyEmail(r)
       \/ SetupMfa(r) \/ ConfirmMfa(r) \/ DisableMfa(r)
       \/ PasskeyOptions(r) \/ AddPasskey(r) \/ DeletePasskey(r) \/ RevokeSession(r)
  \/ \E s \in Sessions :
       GoogleReauthStart(s) \/ Refresh(s) \/ Logout(s)
  \/ \E op \in Redeeming : SendLink(op)

AccessSpec == AccessInit /\ [][AccessNext]_access

----------------------------------------------------------------------------
\* Types; one request at a time holds the user's row, and a pending secret
\* belongs to a session.
AccessTypeOK ==
  /\ google \in BOOLEAN
  /\ user \in Users
  /\ codes \in SUBSET Codes
  /\ passkeys \in SUBSET Passkeys
  /\ session \in [Sessions -> SessionRows]
  /\ link \in [Links -> LinkRows]
  /\ request \in [Requests -> Handlers \cup {Idle}]
  /\ secrets \in 0 .. MaxSecrets
  /\ admitted \in 0 .. MaxAdmitted
  /\ granted \in SUBSET Proofs
  /\ \A r, q \in Requests :
       request[r].phase = "locked" /\ request[q].phase = "locked" => r = q
  /\ user.pending # 0 <=> user.by # None

\* Whoever is signed in opened the session under the password the account has
\* now, or set that password from it: a sign-in that overlaps a change or a
\* reset leaves no session behind that the change should have signed out
\* (auth.py:774-813, 932-998).
SessionsFollowPassword ==
  \A s \in Sessions : Live(s) => session[s].opened = user.password

\* The account always keeps a way in, whatever is deleted at the same time
\* (api/v1/passkeys.py:297-337).
SignInRemains ==
  user.enabled \/ (user.linked /\ google) \/ passkeys # {}

Fresh(p) ==
  CASE p[1] = "step"    -> p[2] = user.secret /\ p[3] > user.last
    [] p[1] = "code"    -> p[2] = user.secret /\ p[3] \in codes
    [] p[1] = "pending" -> p[2] = user.pending
    [] p[1] = "link"    -> link[p[2]].open

\* The state of a Google reauthentication.
IsState(p) == p[1] = "link" /\ link[p[2]].op = "googleReauth"

\* Every proof - a TOTP step, a recovery code, a pending secret, a link, a
\* challenge - opens something at most once: it is fresh when it is accepted and
\* not after, and a proof that has been spent never becomes fresh again
\* (auth.py:226-297, 563-611; services/passkeys.py:122-147).  The state of a
\* Google reauthentication is spent too, but may be accepted by every callback
\* that read it before (StatesWorkOnce).
ProofsWorkOnce ==
  [][ /\ \A p \in granted' : (Fresh(p) \/ IsState(p)) /\ ~Fresh(p)'
      /\ \A l \in Links : link[l].op # "none" /\ link'[l].open => link[l].open
      /\ user.secret = user'.secret /\ user.secret # 0
         => user.last <= user'.last /\ codes' \subseteq codes ]_access

\* The state of a Google reauthentication is accepted while it is unused, as the
\* callback tests under the lock of its row (auth.py:464-472).
StatesWorkOnce ==
  [][ \A p \in granted' : IsState(p) => Fresh(p) ]_access
=============================================================================
