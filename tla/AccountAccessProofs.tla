------------------------- MODULE AccountAccessProofs -------------------------
(***************************************************************************)
(* AccountAccess for any requests, sessions, links, passkeys and codes, and *)
(* any bounds on passwords, secrets and steps.                             *)
(*                                                                         *)
(* A handler works with a copy of the user that may be old.  What saves it *)
(* is what never goes back (an enabled password stays enabled, so a copy   *)
(* that says so is right) and what is read under the lock: no two handlers *)
(* hold the lock, so the row, the passkeys and the link that a handler has *)
(* read there are still what it read when it commits (LockedKnows).  The   *)
(* second factor needs more: disable_mfa writes only what differs from its *)
(* copy, which may mix two factors, and the step that was used last is     *)
(* right because every copy has a secret exactly if it has a last step     *)
(* (FactorIsWhole).                                                        *)
(***************************************************************************)
EXTENDS AccountAccess, TLAPS

\* A handler in flight is of a session or a link exactly if its operation is.
HandlersAreSound ==
  \A r \in Requests : request[r] # Idle =>
    /\ request[r].session \in Sessions <=> request[r].op \in Authenticated
    /\ request[r].op \in Redeeming =>
         request[r].link \in Links /\ link[request[r].link].op = request[r].op
    /\ request[r].op = "revoke" => request[r].phase = "admitted"

\* A row has a secret with a last step, and a pending one with a session.
FactorIsWhole(row) ==
  /\ row.secret = 0 <=> row.last = 0
  /\ row.pending = 0 <=> row.by = None

\* What a handler has copied was true, and an enabled password still is.
CopyIsOld ==
  \A r \in Requests : request[r] # Idle =>
    /\ FactorIsWhole(request[r].copy)
    /\ request[r].copy.enabled => user.enabled

\* What a handler has read under the lock is what is there.
LockedKnows ==
  \A r \in Requests : request[r].phase = "locked" =>
    /\ request[r].op \notin Authenticated \ {"confirm"} => request[r].copy = user
    /\ request[r].op = "deletePasskey" => request[r].seen = passkeys
    /\ request[r].op \in Redeeming \ {"googleReauth"} => link[request[r].link].open

\* The account's secrets have been drawn, and the pending one is another one.
SecretsAreDrawn ==
  /\ FactorIsWhole(user)
  /\ user.secret <= secrets /\ user.pending <= secrets
  /\ user.pending # 0 => user.pending # user.secret

\* The inductive invariant.
AccessInv ==
  /\ AccessTypeOK /\ HandlersAreSound /\ CopyIsOld /\ LockedKnows
  /\ SecretsAreDrawn /\ SessionsFollowPassword /\ SignInRemains

\* Nobody has asked for anything.
LEMMA AccessInitially == AccessInit => AccessInv
<1> SUFFICES ASSUME AccessInit PROVE AccessInv
  OBVIOUS
<1> USE AccessAssumption
<1>1. /\ MaxPasswords \in Nat /\ MaxSecrets \in Nat /\ MaxAdmitted \in Nat
      /\ MaxSteps \in Nat \ {0}
  OBVIOUS
<1>2. PICK enabled \in BOOLEAN, linked \in BOOLEAN, verified \in BOOLEAN,
           secret \in {0, 1} \cap 0 .. MaxSecrets :
        user = Account(enabled, linked, verified, secret) /\ (enabled \/ linked)
  <2>1. 0 \in {0, 1} \cap 0 .. MaxSecrets
    BY <1>1
  <2> QED
    BY <2>1 DEF AccessInit
<1>3. /\ user \in Users /\ user.password = 0 /\ user.pending = 0 /\ user.by = None
      /\ user.secret = 0 <=> user.last = 0
      /\ user.enabled \/ user.linked
      /\ user.secret \in 0 .. MaxSecrets
  BY <1>1, <1>2 DEF Account, Users
<1>4. /\ codes \in SUBSET Codes /\ passkeys \in SUBSET Passkeys
      /\ user.enabled \/ google \/ passkeys # {}
  BY DEF AccessInit, Account
<1>5. /\ session \in [Sessions -> SessionRows]
      /\ \A s \in Sessions : session[s].opened = 0
  <2>1. NoSession \in SessionRows /\ NoSession.opened = 0
    BY <1>1 DEF NoSession, SessionRows
  <2> DEFINE signed == [NoSession EXCEPT !.state = "live", !.recent = TRUE,
                                         !.cookie = "current"]
  <2>3. signed \in SessionRows /\ signed.opened = 0
    BY <2>1 DEF SessionRows
  <2> HIDE DEF signed
  <2>4. \/ session = [s \in Sessions |-> NoSession]
        \/ LET s == CHOOSE s \in Sessions : TRUE IN
             session = [x \in Sessions |-> IF x = s THEN signed ELSE NoSession]
    BY DEF AccessInit, signed
  <2> QED
    BY <2>1, <2>3, <2>4
<1>6. /\ link \in [Links -> LinkRows] /\ request = [r \in Requests |-> Idle]
      /\ secrets = user.secret /\ admitted = 0 /\ granted = {} /\ google \in BOOLEAN
  BY DEF AccessInit, LinkRows, NoLink
<1>7. AccessTypeOK
  BY <1>1, <1>3, <1>4, <1>5, <1>6 DEF AccessTypeOK, Idle
<1>8. HandlersAreSound /\ CopyIsOld /\ LockedKnows
  BY <1>6 DEF HandlersAreSound, CopyIsOld, LockedKnows, Idle
<1>9. SecretsAreDrawn /\ SessionsFollowPassword /\ SignInRemains
  BY <1>1, <1>3, <1>4, <1>5, <1>6
     DEF SecretsAreDrawn, FactorIsWhole, SessionsFollowPassword, SignInRemains
<1> QED
  BY <1>7, <1>8, <1>9 DEF AccessInv

\* The types, field by field.
LEMMA AccessTypes ==
  ASSUME AccessInv
  PROVE  /\ MaxPasswords \in Nat /\ MaxSecrets \in Nat /\ MaxAdmitted \in Nat
         /\ MaxSteps \in Nat \ {0} /\ None \notin Sessions \cup Links
         /\ user \in Users /\ user.password \in 0 .. MaxPasswords
         /\ user.enabled \in BOOLEAN /\ user.linked \in BOOLEAN
         /\ user.secret \in 0 .. MaxSecrets /\ user.last \in 0 .. MaxSteps
         /\ user.pending \in 0 .. MaxSecrets /\ user.by \in Sessions \cup {None}
         /\ session \in [Sessions -> SessionRows]
         /\ link \in [Links -> LinkRows]
         /\ request \in [Requests -> Handlers \cup {Idle}]
         /\ codes \subseteq Codes /\ passkeys \subseteq Passkeys
         /\ secrets \in 0 .. MaxSecrets /\ admitted \in 0 .. MaxAdmitted
         /\ google \in BOOLEAN
<1> USE AccessAssumption
<1>1. user \in Users
  BY DEF AccessInv, AccessTypeOK
<1> QED
  BY <1>1 DEF AccessInv, AccessTypeOK, Users

\* What is known of the handler of request r.
LEMMA HandlerTypes ==
  ASSUME AccessInv, NEW r \in Requests, request[r].phase # "idle"
  PROVE  /\ request[r] \in Handlers /\ request[r] # Idle
         /\ request[r].copy \in Users /\ request[r].op \in Ops
         /\ request[r].link \in Links \cup {None}
         /\ request[r].session \in Sessions \cup {None}
         /\ request[r].copy.password \in 0 .. MaxPasswords
         /\ request[r].copy.secret \in 0 .. MaxSecrets
         /\ request[r].copy.last \in 0 .. MaxSteps
         /\ request[r].copy.pending \in 0 .. MaxSecrets
         /\ request[r].copy.by \in Sessions \cup {None}
         /\ request[r].copy.enabled \in BOOLEAN
         /\ FactorIsWhole(request[r].copy)
         /\ request[r].copy.enabled => user.enabled
         /\ request[r].op \in Authenticated => request[r].session \in Sessions
         /\ request[r].op \in Redeeming =>
              request[r].link \in Links /\ link[request[r].link].op = request[r].op
<1>1. request[r] \in Handlers \cup {Idle} /\ request[r] # Idle
  BY AccessTypes DEF Idle
<1>2. request[r] \in Handlers
  BY <1>1
<1>3. /\ request[r].copy \in Users /\ request[r].op \in Ops
      /\ request[r].link \in Links \cup {None} /\ request[r].session \in Sessions \cup {None}
  BY <1>2 DEF Handlers
<1>4. /\ request[r].copy.password \in 0 .. MaxPasswords
      /\ request[r].copy.secret \in 0 .. MaxSecrets /\ request[r].copy.last \in 0 .. MaxSteps
      /\ request[r].copy.pending \in 0 .. MaxSecrets
      /\ request[r].copy.by \in Sessions \cup {None} /\ request[r].copy.enabled \in BOOLEAN
  BY <1>3 DEF Users
<1> QED
  BY <1>1, <1>2, <1>3, <1>4 DEF AccessInv, HandlersAreSound, CopyIsOld

\* An open link, or a new one, has the operation that redeems it.
LinksAge ==
  \A l \in Links : link[l].op # "none" =>
    link'[l].op = link[l].op /\ (link'[l].open => link[l].open)

\* No open link is closed.
LinksStay ==
  \A l \in Links : link[l].op # "none" /\ link[l].open => link'[l].open

\* A link that is used is closed.
LEMMA ClosedLinks ==
  ASSUME AccessInv, NEW l \in Links, link' = Close(l)
  PROVE  link' \in [Links -> LinkRows] /\ LinksAge /\ ~link'[l].open
<1>1. link \in [Links -> LinkRows]
  BY AccessTypes
<1>2. link'[l] = [link[l] EXCEPT !.open = FALSE] /\ \A x \in Links \ {l} : link'[x] = link[x]
  BY <1>1 DEF Close
<1>3. link'[l] \in LinkRows /\ link'[l].op = link[l].op /\ ~link'[l].open
  BY <1>1, <1>2 DEF LinkRows
<1>4. link' \in [Links -> LinkRows]
  BY <1>1, <1>3 DEF Close
<1> QED
  BY <1>2, <1>3, <1>4 DEF LinksAge

\* A link that is issued is new, and closes the ones it supersedes.
LEMMA IssuedLinks ==
  ASSUME AccessInv, NEW op \in Redeeming, NEW s \in Sessions \cup {None},
         NEW spent \in SUBSET Links, Issue(op, s, spent)
  PROVE  /\ link' \in [Links -> LinkRows] /\ LinksAge
         /\ \A l \in spent : link[l].op # "none" => ~link'[l].open
         /\ spent = {} /\ op \in {"passkeyLogin", "googleReauth"} => LinksStay
<1>1. link \in [Links -> LinkRows]
  BY AccessTypes
<1>2. PICK new \in AnyOf({l \in Links : link[l].op = "none"}) :
        link' = [l \in Links |->
          IF l = new THEN [op |-> op, session |-> s, open |-> TRUE]
          ELSE IF l \in spent \cup Superseded(op, s) THEN [link[l] EXCEPT !.open = FALSE]
          ELSE link[l]]
  BY DEF Issue
<1>3. new \in Links /\ link[new].op = "none"
  BY <1>2 DEF AnyOf
<1>4. \A l \in Links : [link[l] EXCEPT !.open = FALSE] \in LinkRows
                       /\ [link[l] EXCEPT !.open = FALSE].op = link[l].op
                       /\ ~[link[l] EXCEPT !.open = FALSE].open
  BY <1>1 DEF LinkRows
<1>5. [op |-> op, session |-> s, open |-> TRUE] \in LinkRows
  BY DEF LinkRows
<1>6. link' \in [Links -> LinkRows]
  BY <1>1, <1>2, <1>4, <1>5
<1>7. LinksAge
  BY <1>2, <1>3, <1>4 DEF LinksAge
<1>8. \A l \in spent : link[l].op # "none" => ~link'[l].open
  BY <1>2, <1>3, <1>4
<1>9. spent = {} /\ op \in {"passkeyLogin", "googleReauth"} => LinksStay
  BY <1>2, <1>3 DEF LinksStay, Superseded
<1> QED
  BY <1>6, <1>7, <1>8, <1>9

\* Proof p is spent by outcome o of the second factor.
Spends(o, p) ==
  /\ user.secret # 0
  /\ \/ p = <<"step", user.secret, o.last>> /\ user.last < o.last
     \/ \E c \in codes \ o.codes : p = <<"code", user.secret, c>>

\* The second factor moves forward, and each proof it accepts is spent.
LEMMA SecondFactorGives ==
  ASSUME AccessInv, NEW copy \in Users, NEW o \in SecondFactor(copy)
  PROVE  /\ o.last \in 0 .. MaxSteps /\ user.last <= o.last /\ o.codes \subseteq codes
         /\ user.secret = 0 => o.last = user.last
         /\ o.proofs \subseteq Proofs
         /\ \A p \in o.proofs : Spends(o, p) /\ copy.secret # 0
<1> USE AccessTypes
<1>1. CASE copy.secret = 0
  <2>1. o = [last |-> user.last, codes |-> codes, proofs |-> {}]
    BY <1>1 DEF SecondFactor
  <2> QED
    BY <2>1
<1>2. CASE copy.secret # 0
  <2>1. CASE \E t \in 1 .. MaxSteps :
               /\ user.secret # 0 /\ t > user.last
               /\ o = [last |-> t, codes |-> codes, proofs |-> {<<"step", user.secret, t>>}]
    <3>1. PICK t \in 1 .. MaxSteps :
               /\ user.secret # 0 /\ t > user.last
               /\ o = [last |-> t, codes |-> codes, proofs |-> {<<"step", user.secret, t>>}]
      BY <2>1
    <3>2. o.last = t /\ o.codes = codes /\ o.proofs = {<<"step", user.secret, t>>}
      BY <3>1
    <3>3. <<"step", user.secret, t>> \in Proofs
      BY <3>1 DEF Proofs
    <3> QED
      BY <1>2, <3>1, <3>2, <3>3 DEF Spends
  <2>2. CASE \E c \in codes :
               /\ user.secret # 0
               /\ o = [last |-> user.last, codes |-> codes \ {c},
                       proofs |-> {<<"code", user.secret, c>>}]
    <3>1. PICK c \in codes :
               /\ user.secret # 0
               /\ o = [last |-> user.last, codes |-> codes \ {c},
                       proofs |-> {<<"code", user.secret, c>>}]
      BY <2>2
    <3>2. /\ o.last = user.last /\ o.codes = codes \ {c}
          /\ o.proofs = {<<"code", user.secret, c>>}
      BY <3>1
    <3>3. <<"code", user.secret, c>> \in Proofs
      BY <3>1 DEF Proofs
    <3> QED
      BY <1>2, <3>1, <3>2, <3>3 DEF Spends
  <2> QED
    BY <1>2, <2>1, <2>2 DEF SecondFactor
<1> QED
  BY <1>1, <1>2

\* A new session is one nobody has used, under the password of the copy.
LEMMA OpenedSession ==
  ASSUME AccessInv, NEW s \in NewSession, NEW copy \in Users, NEW recent \in BOOLEAN,
         copy.password = user.password,
         session' = Opened(s, copy, recent), user'.password = user.password
  PROVE  session' \in [Sessions -> SessionRows] /\ SessionsFollowPassword'
<1>1. s \in Sessions
  BY DEF NewSession, AnyOf
<1>2. [state |-> "live", recent |-> recent, opened |-> copy.password, cookie |-> "current"]
        \in SessionRows
  BY DEF Users, SessionRows
<1>3. session' \in [Sessions -> SessionRows]
  BY <1>2, AccessTypes DEF Opened
<1>4. \A x \in Sessions : session'[x] = session[x] \/ session'[x].opened = user.password
  BY <1>1, AccessTypes DEF Opened
<1> QED
  BY <1>3, <1>4 DEF AccessInv, SessionsFollowPassword, Live

\* A session that is verified again stays what it was.
LEMMA RecentSession ==
  ASSUME AccessInv, NEW s, session' = Recent(s), user'.password = user.password
  PROVE  session' \in [Sessions -> SessionRows] /\ SessionsFollowPassword'
<1>1. \A x \in Sessions : session'[x] = session[x]
                          \/ session'[x] = [session[x] EXCEPT !.recent = TRUE]
  BY AccessTypes DEF Recent
<1>2. \A x \in Sessions : /\ session'[x] \in SessionRows
                          /\ session'[x].state = session[x].state
                          /\ session'[x].opened = session[x].opened
  <2> TAKE x \in Sessions
  <2>1. session[x] \in SessionRows
    BY AccessTypes
  <2>2. LET row == [session[x] EXCEPT !.recent = TRUE] IN
        row \in SessionRows /\ row.state = session[x].state /\ row.opened = session[x].opened
    BY <2>1 DEF SessionRows
  <2> QED
    BY <1>1, <2>1, <2>2
<1>3. DOMAIN session' = Sessions /\ session' = [x \in Sessions |-> session'[x]]
  BY AccessTypes DEF Recent
<1>4. session' \in [Sessions -> SessionRows]
  BY <1>2, <1>3
<1> QED
  BY <1>2, <1>4 DEF AccessInv, SessionsFollowPassword, Live

\* Whoever was signed out is signed out.
LEMMA RevokedSessions ==
  ASSUME AccessInv, NEW kept
  PROVE  /\ RevokeOthers(kept) \in [Sessions -> SessionRows]
         /\ \A s \in Sessions \ {kept} : RevokeOthers(kept)[s].state # "live"
<1>1. \A s \in Sessions : /\ [session[s] EXCEPT !.state = "revoked"] \in SessionRows
                          /\ [session[s] EXCEPT !.state = "revoked"].state = "revoked"
  BY AccessTypes DEF SessionRows
<1> QED
  BY <1>1, AccessTypes DEF RevokeOthers, Live

\* Links are opened, superseded and used; none is opened again.
LEMMA LinksMove ==
  ASSUME AccessInv, AccessNext
  PROVE  link' \in [Links -> LinkRows] /\ LinksAge
<1>0. ASSUME UNCHANGED link
      PROVE  link' \in [Links -> LinkRows] /\ LinksAge
  BY <1>0, AccessTypes DEF LinksAge
<1>1. ASSUME NEW r \in Requests, request[r].phase = "locked", request[r].op \in Redeeming,
             link' = Close(request[r].link)
      PROVE  link' \in [Links -> LinkRows] /\ LinksAge
  BY <1>1, HandlerTypes, ClosedLinks
<1>2. ASSUME NEW r \in Requests, Refuse(r)
      PROVE  link' \in [Links -> LinkRows] /\ LinksAge
  BY <1>0, <1>1, <1>2 DEF Refuse, SpentByFailure, Redeeming
<1>3. ASSUME NEW r \in Requests,
             PasskeyLogin(r) \/ MfaLogin(r) \/ PasskeyReauth(r) \/ MfaReauth(r)
               \/ VerifyEmail(r) \/ AddPasskey(r)
      PROVE  link' \in [Links -> LinkRows] /\ LinksAge
  <2>1. /\ request[r].phase = "locked" /\ request[r].op \in Redeeming
        /\ link' = Close(request[r].link)
    BY <1>3 DEF PasskeyLogin, MfaLogin, PasskeyReauth, MfaReauth, VerifyEmail, AddPasskey,
                Commits, Redeeming
  <2> QED
    BY <2>1, <1>1
<1>4. ASSUME NEW r \in Requests, GoogleLogin(r)
      PROVE  link' \in [Links -> LinkRows] /\ LinksAge
  <2>1. UNCHANGED link \/ Issue("mfaLogin", None, {})
    BY <1>4 DEF GoogleLogin
  <2> QED
    BY <2>1, <1>0, IssuedLinks DEF Redeeming
<1>5. ASSUME NEW r \in Requests, GoogleReauth(r)
      PROVE  link' \in [Links -> LinkRows] /\ LinksAge
  <2>1. /\ request[r].phase = "locked" /\ request[r].op \in Redeeming
        /\ \/ link' = Close(request[r].link)
           \/ Issue("mfaReauth", link[request[r].link].session, {request[r].link})
    BY <1>5 DEF GoogleReauth, Commits, Redeeming
  <2>2. /\ request[r].link \in Links
        /\ link[request[r].link].session \in Sessions \cup {None}
    BY <2>1, HandlerTypes, AccessTypes DEF LinkRows
  <2> QED
    BY <2>1, <2>2, <1>1, IssuedLinks DEF Redeeming
<1>6. ASSUME NEW r \in Requests, ResetPassword(r)
      PROVE  link' \in [Links -> LinkRows] /\ LinksAge
  <2>1. \A l \in Links : /\ [link[l] EXCEPT !.open = FALSE] \in LinkRows
                         /\ [link[l] EXCEPT !.open = FALSE].op = link[l].op
                         /\ ~[link[l] EXCEPT !.open = FALSE].open
    BY AccessTypes DEF LinkRows
  <2> QED
    BY <2>1, <1>6, AccessTypes DEF ResetPassword, LinksAge
<1>7. ASSUME NEW r \in Requests, PasskeyOptions(r)
      PROVE  link' \in [Links -> LinkRows] /\ LinksAge
  <2>1. /\ request[r].phase = "locked"
        /\ \/ Issue("addPasskey", request[r].session, {})
           \/ Issue("passkeyReauth", request[r].session, {})
    BY <1>7 DEF PasskeyOptions, Commits
  <2> QED
    BY <2>1, HandlerTypes, IssuedLinks DEF Redeeming
<1>8. ASSUME NEW s \in Sessions, GoogleReauthStart(s)
      PROVE  link' \in [Links -> LinkRows] /\ LinksAge
  BY <1>8, IssuedLinks DEF GoogleReauthStart, Redeeming
<1>9. ASSUME NEW op \in Redeeming, SendLink(op)
      PROVE  link' \in [Links -> LinkRows] /\ LinksAge
  BY <1>9, IssuedLinks DEF SendLink
<1>10. ASSUME NEW r \in Requests, NEW op \in Ops, Admit(r, op)
       PROVE  UNCHANGED link
  BY <1>10 DEF Admit
<1>11. ASSUME NEW r \in Requests,
              Login(r) \/ Reauthenticate(r) \/ ChangePassword(r) \/ SetupMfa(r)
                \/ ConfirmMfa(r) \/ DisableMfa(r) \/ DeletePasskey(r) \/ RevokeSession(r)
       PROVE  UNCHANGED link
  BY <1>11 DEF Login, Reauthenticate, ChangePassword, SetupMfa, ConfirmMfa, DisableMfa,
               DeletePasskey, RevokeSession
<1>12. ASSUME NEW s \in Sessions, Refresh(s) \/ Logout(s)
       PROVE  UNCHANGED link
  BY <1>12 DEF Refresh, Logout
<1>13. ASSUME NEW r \in Requests, Lock(r)
       PROVE  UNCHANGED link
  BY <1>13 DEF Lock
<1> QED
  BY <1>0, <1>2, <1>3, <1>4, <1>5, <1>6, <1>7, <1>8, <1>9, <1>10, <1>11, <1>12, <1>13
     DEF AccessNext

\* What every step keeps of the account.
UserMoves ==
  /\ user' \in Users /\ (user.enabled => user'.enabled) /\ (user.linked => user'.linked)
  /\ secrets' \in 0 .. MaxSecrets /\ SecretsAreDrawn'

\* A sign-in or a verification notes the step it accepted.
Notes(last) ==
  \/ user' = [user EXCEPT !.last = last]
  \/ user' = [user EXCEPT !.last = last, !.enabled = TRUE]
  \/ /\ user' = [user EXCEPT !.password = @ + 1, !.enabled = TRUE, !.last = last]
     /\ user.password < MaxPasswords

\* Such a row is whole.
LEMMA NotedUser ==
  ASSUME AccessInv, UNCHANGED secrets, NEW last \in 0 .. MaxSteps,
         user.last <= last, user.secret = 0 => last = user.last,
         Notes(last)
  PROVE  UserMoves
<1> USE AccessTypes
<1>1. /\ user' \in Users /\ (user.enabled => user'.enabled) /\ user'.linked = user.linked
      /\ user'.last = last /\ user'.secret = user.secret /\ user'.pending = user.pending
      /\ user'.by = user.by
  <2>1. CASE user' = [user EXCEPT !.last = last]
    BY <2>1 DEF Users
  <2>2. CASE user' = [user EXCEPT !.last = last, !.enabled = TRUE]
    BY <2>2 DEF Users
  <2>3. CASE /\ user' = [user EXCEPT !.password = @ + 1, !.enabled = TRUE, !.last = last]
             /\ user.password < MaxPasswords
    <3> DEFINE next == user.password + 1
    <3>1. next \in 0 .. MaxPasswords
      BY <2>3
    <3>2. user' = [user EXCEPT !.password = next, !.enabled = TRUE, !.last = last]
      BY <2>3
    <3> HIDE DEF next
    <3> QED
      BY <3>1, <3>2 DEF Users
  <2> QED
    BY <2>1, <2>2, <2>3 DEF Notes
<1>2. SecretsAreDrawn'
  BY <1>1 DEF AccessInv, SecretsAreDrawn, FactorIsWhole
<1> QED
  BY <1>1, <1>2 DEF UserMoves

\* The row takes another second factor, or another pending one.
TakesFactor(secret, last, pending, by) ==
  user' = [user EXCEPT !.secret = secret, !.last = last, !.pending = pending, !.by = by]

\* Its fields.
LEMMA FactorRow ==
  ASSUME AccessInv, NEW secret \in 0 .. MaxSecrets, NEW last \in 0 .. MaxSteps,
         NEW pending \in 0 .. MaxSecrets, NEW by \in Sessions \cup {None},
         TakesFactor(secret, last, pending, by)
  PROVE  /\ user' \in Users /\ user'.password = user.password
         /\ user'.enabled = user.enabled /\ user'.linked = user.linked
         /\ user'.secret = secret /\ user'.last = last
         /\ user'.pending = pending /\ user'.by = by
<1>1. user \in Users
  BY AccessTypes
<1> QED
  BY <1>1 DEF Users, TakesFactor

\* A handler that read the user under the lock, or refreshed it, knows it.
LEMMA LockedCopyIsUser ==
  ASSUME AccessInv, NEW r \in Requests, request[r].phase = "locked",
         request[r].op \in {"login", "passkeyLogin", "googleLogin", "mfaLogin", "confirm"}
  PROVE  request[r].copy = user
BY DEF AccessInv, LockedKnows, Authenticated

\* The second factor moves forward while it is the same, and its pending secret
\* is a new one.
LEMMA UserMovesOn ==
  ASSUME AccessInv, AccessNext
  PROVE  UserMoves
<1>a. /\ user \in Users /\ user.password \in 0 .. MaxPasswords
      /\ user.secret \in 0 .. MaxSecrets /\ user.last \in 0 .. MaxSteps
      /\ user.pending \in 0 .. MaxSecrets /\ user.by \in Sessions \cup {None}
      /\ MaxPasswords \in Nat /\ MaxSecrets \in Nat /\ MaxSteps \in Nat \ {0}
      /\ secrets \in 0 .. MaxSecrets /\ None \notin Sessions
  BY AccessTypes
<1> USE <1>a
<1>0. ASSUME UNCHANGED << user, secrets >>
      PROVE  UserMoves
  BY <1>0 DEF UserMoves, AccessInv, SecretsAreDrawn, FactorIsWhole
<1>1. ASSUME NEW r \in Requests,
             Login(r) \/ MfaLogin(r) \/ Reauthenticate(r) \/ MfaReauth(r)
      PROVE  UserMoves
  <2>1. /\ request[r].phase = "locked" /\ secrets' = secrets
        /\ \E o \in SecondFactor(request[r].copy) : Notes(o.last)
    BY <1>1 DEF Login, MfaLogin, Reauthenticate, MfaReauth, Commits, Notes
  <2>2. request[r].copy \in Users
    BY <2>1, HandlerTypes
  <2> QED
    BY <2>1, <2>2, SecondFactorGives, NotedUser
<1>2. ASSUME NEW r \in Requests, ChangePassword(r)
      PROVE  UserMoves
  <2>1. /\ request[r].phase = "locked" /\ secrets' = secrets /\ user.password < MaxPasswords
        /\ \/ \E o \in SecondFactor(request[r].copy) : user' = NewPassword(o)
           \/ user' = NewPassword([last |-> user.last, codes |-> codes, proofs |-> {}])
    BY <1>2 DEF ChangePassword, Commits
  <2>2. request[r].copy \in Users
    BY <2>1, HandlerTypes
  <2>3. ASSUME NEW o, user' = NewPassword(o)
        PROVE  Notes(o.last)
    BY <2>1, <2>3 DEF NewPassword, Notes
  <2> QED
    BY <2>1, <2>2, <2>3, SecondFactorGives, NotedUser
<1>3. ASSUME NEW r \in Requests, ResetPassword(r)
      PROVE  UserMoves
  <2> DEFINE next == user.password + 1
  <2>1. /\ next \in 0 .. MaxPasswords /\ secrets' = secrets
        /\ user' = [user EXCEPT !.password = next, !.enabled = TRUE]
    BY <1>3 DEF ResetPassword
  <2> HIDE DEF next
  <2>2. /\ user' \in Users /\ user'.enabled /\ user'.linked = user.linked
        /\ user'.last = user.last /\ user'.secret = user.secret
        /\ user'.pending = user.pending /\ user'.by = user.by
    BY <2>1 DEF Users
  <2> QED
    BY <2>1, <2>2 DEF UserMoves, AccessInv, SecretsAreDrawn, FactorIsWhole
<1>4. ASSUME NEW r \in Requests, GoogleLogin(r) \/ VerifyEmail(r)
      PROVE  UserMoves
  <2>1. /\ secrets' = secrets
        /\ \/ user' = [user EXCEPT !.verified = TRUE]
           \/ user' = [user EXCEPT !.linked = TRUE,
                                   !.verified = user.linked => user.verified]
    BY <1>4 DEF GoogleLogin, VerifyEmail
  <2>2. /\ user' \in Users /\ user'.enabled = user.enabled /\ (user.linked => user'.linked)
        /\ user'.last = user.last /\ user'.secret = user.secret
        /\ user'.pending = user.pending /\ user'.by = user.by
    BY <2>1 DEF Users
  <2> QED
    BY <2>1, <2>2 DEF UserMoves, AccessInv, SecretsAreDrawn, FactorIsWhole
<1>5. ASSUME NEW r \in Requests, SetupMfa(r)
      PROVE  UserMoves
  <2> DEFINE next == secrets + 1
             by == Written(user.by, request[r].copy.by, request[r].session)
  <2>1. /\ request[r].phase = "locked" /\ request[r].op = "setup"
        /\ \/ UNCHANGED << user, secrets >>
           \/ /\ by # None /\ next \in 1 .. MaxSecrets /\ secrets' = next
              /\ user' = [user EXCEPT !.pending = next, !.by = by]
    BY <1>5 DEF SetupMfa, Commits
  <2>2. by \in Sessions \cup {None}
    BY <2>1, HandlerTypes DEF Authenticated, Written
  <2>3. next > secrets /\ user \in Users
    OBVIOUS
  <2> HIDE DEF next, by
  <2>4. CASE UNCHANGED << user, secrets >>
    BY <2>3, <2>4 DEF UserMoves, AccessInv, SecretsAreDrawn, FactorIsWhole
  <2>5. CASE ~UNCHANGED << user, secrets >>
    <3>1. by \in Sessions
      BY <2>1, <2>2, <2>5
    <3>2. TakesFactor(user.secret, user.last, next, by)
      BY <2>1, <2>5 DEF TakesFactor, Users
    <3>3. /\ user' \in Users /\ user'.enabled = user.enabled /\ user'.linked = user.linked
          /\ user'.last = user.last /\ user'.secret = user.secret
          /\ user'.pending = next /\ user'.by \in Sessions
      BY <2>1, <2>5, <3>1, <3>2, FactorRow
    <3> QED
      BY <2>1, <2>3, <2>5, <3>3 DEF UserMoves, AccessInv, SecretsAreDrawn, FactorIsWhole
  <2> QED
    BY <2>4, <2>5
<1>6. ASSUME NEW r \in Requests, ConfirmMfa(r)
      PROVE  UserMoves
  <2>1. PICK t \in 1 .. MaxSteps :
          user' = [user EXCEPT !.secret = request[r].copy.pending, !.last = t,
                               !.pending = 0, !.by = None]
    BY <1>6 DEF ConfirmMfa
  <2>2. /\ request[r].phase = "locked" /\ request[r].op = "confirm"
        /\ request[r].copy.pending # 0 /\ secrets' = secrets
    BY <1>6 DEF ConfirmMfa, Commits
  <2>3. request[r].copy = user
    BY <2>2, LockedCopyIsUser
  <2>4. TakesFactor(user.pending, t, 0, None)
    BY <2>1, <2>3 DEF TakesFactor
  <2>5. /\ user' \in Users /\ user'.enabled = user.enabled /\ user'.linked = user.linked
        /\ user'.last = t /\ user'.secret = user.pending
        /\ user'.pending = 0 /\ user'.by = None
    BY <2>4, FactorRow
  <2> QED
    BY <2>2, <2>3, <2>5 DEF UserMoves, AccessInv, SecretsAreDrawn, FactorIsWhole
<1>7. ASSUME NEW r \in Requests, DisableMfa(r)
      PROVE  UserMoves
  <2>1. PICK known \in {user, request[r].copy} :
          user' = [user EXCEPT !.secret = Written(@, known.secret, 0),
                               !.last = Written(@, known.last, 0),
                               !.pending = Written(@, known.pending, 0),
                               !.by = Written(@, known.by, None)]
    BY <1>7 DEF DisableMfa
  <2>2. request[r].phase = "locked" /\ secrets' = secrets
    BY <1>7 DEF DisableMfa, Commits
  <2>3. FactorIsWhole(known)
    BY <2>2, HandlerTypes DEF AccessInv, SecretsAreDrawn
  <2> DEFINE secret == Written(user.secret, known.secret, 0)
             last == Written(user.last, known.last, 0)
             pending == Written(user.pending, known.pending, 0)
             by == Written(user.by, known.by, None)
  <2>4. /\ secret \in {user.secret, 0} /\ last \in {user.last, 0}
        /\ secret = 0 <=> last = 0
        /\ pending \in {user.pending, 0} /\ by \in {user.by, None}
        /\ pending = 0 <=> by = None
    BY <2>3 DEF Written, FactorIsWhole, AccessInv, SecretsAreDrawn
  <2>5. TakesFactor(secret, last, pending, by)
    BY <2>1 DEF TakesFactor
  <2> HIDE DEF secret, last, pending, by
  <2>6. /\ user' \in Users /\ user'.enabled = user.enabled /\ user'.linked = user.linked
        /\ user'.last = last /\ user'.secret = secret
        /\ user'.pending = pending /\ user'.by = by
    BY <2>4, <2>5, FactorRow
  <2> QED
    BY <2>2, <2>4, <2>6 DEF UserMoves, AccessInv, SecretsAreDrawn, FactorIsWhole
<1>8. ASSUME NEW r \in Requests,
             Lock(r) \/ Refuse(r) \/ PasskeyLogin(r) \/ PasskeyReauth(r) \/ GoogleReauth(r)
               \/ PasskeyOptions(r) \/ AddPasskey(r) \/ DeletePasskey(r) \/ RevokeSession(r)
      PROVE  UNCHANGED << user, secrets >>
  BY <1>8 DEF Lock, Refuse, PasskeyLogin, PasskeyReauth, GoogleReauth, PasskeyOptions,
              AddPasskey, DeletePasskey, RevokeSession
<1>9. ASSUME NEW r \in Requests, NEW op \in Ops, Admit(r, op)
      PROVE  UNCHANGED << user, secrets >>
  BY <1>9 DEF Admit
<1>10. ASSUME NEW s \in Sessions, GoogleReauthStart(s) \/ Refresh(s) \/ Logout(s)
       PROVE  UNCHANGED << user, secrets >>
  BY <1>10 DEF GoogleReauthStart, Refresh, Logout
<1>11. ASSUME NEW op \in Redeeming, SendLink(op)
       PROVE  UNCHANGED << user, secrets >>
  BY <1>11 DEF SendLink
<1> QED
  BY <1>0, <1>1, <1>2, <1>3, <1>4, <1>5, <1>6, <1>7, <1>8, <1>9, <1>10, <1>11 DEF AccessNext

\* What is known of the handlers in flight.
HandlersHold ==
  /\ request \in [Requests -> Handlers \cup {Idle}]
  /\ \A r, q \in Requests :
       request[r].phase = "locked" /\ request[q].phase = "locked" => r = q
  /\ HandlersAreSound /\ CopyIsOld /\ LockedKnows

\* Handler r ends: what it held the lock for may have changed.
HandlerLeaves(r) ==
  /\ request[r].phase # "idle"
  /\ request' = [request EXCEPT ![r] = Idle]
  /\ request[r].phase = "locked" \/ UNCHANGED << user, passkeys, link >>

\* The others do not hold the lock, and their copies are no less true.
LEMMA HandlerEnds ==
  ASSUME AccessInv, UserMoves, LinksAge, NEW r \in Requests, HandlerLeaves(r)
  PROVE  HandlersHold'
<1>1. /\ request \in [Requests -> Handlers \cup {Idle}]
      /\ request'[r] = Idle /\ \A q \in Requests \ {r} : request'[q] = request[q]
      /\ Idle.phase = "idle"
  BY AccessTypes DEF HandlerLeaves, Idle
<1>2. request' \in [Requests -> Handlers \cup {Idle}]
  BY <1>1 DEF HandlerLeaves
<1>3. \A x, q \in Requests :
        request'[x].phase = "locked" /\ request'[q].phase = "locked" => x = q
  BY <1>1 DEF AccessInv, AccessTypeOK
<1>4. HandlersAreSound'
  <2>1. \A q \in Redeeming : q # "none"
    BY DEF Redeeming
  <2> QED
    BY <1>1, <2>1 DEF AccessInv, HandlersAreSound, LinksAge
<1>5. CopyIsOld'
  BY <1>1 DEF AccessInv, CopyIsOld, FactorIsWhole, UserMoves
<1>6. LockedKnows'
  <2>1. CASE request[r].phase = "locked"
    BY <1>1, <2>1 DEF AccessInv, AccessTypeOK, LockedKnows
  <2>2. CASE UNCHANGED << user, passkeys, link >>
    BY <1>1, <2>2 DEF AccessInv, LockedKnows
  <2> QED
    BY <2>1, <2>2 DEF HandlerLeaves
<1> QED
  BY <1>2, <1>3, <1>4, <1>5, <1>6 DEF HandlersHold

\* Nothing happens to the handlers, and what they hold is left alone.
LEMMA HandlersStay ==
  ASSUME AccessInv, LinksAge, UNCHANGED << request, user, passkeys >>, UserFree \/ LinksStay
  PROVE  HandlersHold'
<1>1. \A op \in Redeeming : op # "none"
  BY DEF Redeeming
<1>2. HandlersAreSound'
  BY <1>1 DEF AccessInv, HandlersAreSound, LinksAge
<1>3. CopyIsOld'
  BY DEF AccessInv, CopyIsOld, FactorIsWhole
<1>4. LockedKnows'
  <2>1. CASE UserFree
    BY <2>1 DEF UserFree, LockedKnows
  <2>2. CASE LinksStay
    <3> SUFFICES ASSUME NEW r \in Requests, request[r].phase = "locked",
                        request[r].op \in Redeeming \ {"googleReauth"}
                 PROVE  link'[request[r].link].open
      BY DEF AccessInv, LockedKnows
    <3> QED
      BY <1>1, <2>2, HandlerTypes DEF AccessInv, LockedKnows, LinksStay
  <2> QED
    BY <2>1, <2>2
<1> QED
  BY <1>2, <1>3, <1>4 DEF HandlersHold, AccessInv, AccessTypeOK

\* A request is admitted with the row as it is.
LEMMA RequestIsAdmitted ==
  ASSUME AccessInv, NEW r \in Requests, NEW op \in Ops, Admit(r, op)
  PROVE  HandlersHold'
<1> DEFINE Handler(s, l) == [phase |-> "admitted", op |-> op, session |-> s, link |-> l,
                             copy |-> user, seen |-> {}]
<1>1. PICK s \in IF op \notin Authenticated THEN {None}
                 ELSE {s \in Sessions : Live(s) /\ (op \in NeedsRecent => session[s].recent)},
           l \in IF op \notin Redeeming THEN {None}
                 ELSE {l \in Links : link[l].open /\ link[l].op = op} :
        request' = [request EXCEPT ![r] = Handler(s, l)]
  BY DEF Admit
<1>2. /\ s \in Sessions <=> op \in Authenticated
      /\ s \in Sessions \cup {None} /\ l \in Links \cup {None}
      /\ op \in Redeeming => l \in Links /\ link[l].op = op
  BY <1>1, AccessTypes
<1>3. /\ request \in [Requests -> Handlers \cup {Idle}] /\ user \in Users
      /\ FactorIsWhole(user) /\ UNCHANGED << user, passkeys, link >>
  BY AccessTypes DEF AccessInv, SecretsAreDrawn, Admit
<1>4. /\ Handler(s, l) \in Handlers /\ Handler(s, l).phase = "admitted"
      /\ Handler(s, l).op = op /\ Handler(s, l).session = s /\ Handler(s, l).link = l
      /\ Handler(s, l).copy = user
  BY <1>2, <1>3 DEF Handlers
<1>5. /\ request'[r] \in Handlers /\ request'[r].phase = "admitted"
      /\ request'[r].op = op /\ request'[r].session = s /\ request'[r].link = l
      /\ request'[r].copy = user
      /\ \A q \in Requests \ {r} : request'[q] = request[q]
  BY <1>1, <1>3, <1>4
<1>6. request' \in [Requests -> Handlers \cup {Idle}]
  BY <1>1, <1>3, <1>4
<1> HIDE DEF Handler
<1>7. \A x, q \in Requests :
        request'[x].phase = "locked" /\ request'[q].phase = "locked" => x = q
  BY <1>5 DEF AccessInv, AccessTypeOK
<1>8. HandlersAreSound'
  BY <1>2, <1>3, <1>5 DEF AccessInv, HandlersAreSound
<1>9. CopyIsOld'
  BY <1>3, <1>5 DEF AccessInv, CopyIsOld, FactorIsWhole
<1>10. LockedKnows'
  BY <1>3, <1>5 DEF AccessInv, LockedKnows
<1> QED
  BY <1>6, <1>7, <1>8, <1>9, <1>10 DEF HandlersHold

\* A request is given the lock when nobody holds it.
LEMMA RequestIsLocked ==
  ASSUME AccessInv, NEW r \in Requests, Lock(r)
  PROVE  HandlersHold'
<1> DEFINE q == request[r]
           held == [q EXCEPT !.phase = "locked", !.copy = LockedCopy(q), !.seen = Counting(q)]
<1>1. /\ q.phase = "admitted" /\ q.op # "revoke" /\ UserFree
      /\ request' = [request EXCEPT ![r] = IF q.op \in Redeeming /\ ~Redeemable(q)
                                           THEN Idle ELSE held]
      /\ UNCHANGED << user, passkeys, link >>
  BY DEF Lock
<1>2. /\ request \in [Requests -> Handlers \cup {Idle}] /\ q \in Handlers
      /\ passkeys \subseteq Passkeys
  BY <1>1, HandlerTypes, AccessTypes
<1>3. CASE q.op \in Redeeming /\ ~Redeemable(q)
  <2>1. HandlerLeaves(r)
    BY <1>1, <1>3 DEF HandlerLeaves
  <2>2. UserMoves /\ LinksAge
    BY UserMovesOn, LinksMove DEF AccessNext
  <2> QED
    BY <2>1, <2>2, HandlerEnds
<1>4. CASE ~(q.op \in Redeeming /\ ~Redeemable(q))
  <2>1. LockedCopy(q) \in {user, q.copy} /\ Counting(q) \in SUBSET Passkeys
        /\ (q.op \notin Authenticated \ {"confirm"} => LockedCopy(q) = user)
        /\ (q.op = "deletePasskey" => Counting(q) = passkeys)
    BY <1>2 DEF LockedCopy, Counting
  <2>2. /\ FactorIsWhole(LockedCopy(q)) /\ LockedCopy(q) \in Users
        /\ LockedCopy(q).enabled => user.enabled
    BY <1>1, <2>1, HandlerTypes, AccessTypes DEF AccessInv, SecretsAreDrawn
  <2> DEFINE copy == LockedCopy(q)
             seen == Counting(q)
  <2>3. held = [q EXCEPT !.phase = "locked", !.copy = copy, !.seen = seen]
    OBVIOUS
  <2> HIDE DEF copy, seen
  <2>4. /\ held \in Handlers /\ held.phase = "locked" /\ held.op = q.op
        /\ held.session = q.session /\ held.link = q.link
        /\ held.copy = copy /\ held.seen = seen
    BY <1>2, <2>1, <2>2, <2>3 DEF Handlers, copy, seen
  <2>5. request' = [request EXCEPT ![r] = held]
    BY <1>1, <1>4
  <2> HIDE DEF held
  <2>6. /\ request'[r] = held /\ \A x \in Requests \ {r} : request'[x] = request[x]
        /\ request' \in [Requests -> Handlers \cup {Idle}]
    BY <1>2, <2>4, <2>5
  <2>7. \A x, y \in Requests :
          request'[x].phase = "locked" /\ request'[y].phase = "locked" => x = y
    BY <1>1, <2>6 DEF UserFree
  <2>8. HandlersAreSound'
    BY <1>1, <1>2, <2>4, <2>6 DEF AccessInv, HandlersAreSound, Idle
  <2>9. CopyIsOld'
    BY <1>1, <2>2, <2>4, <2>6 DEF AccessInv, CopyIsOld, FactorIsWhole, copy
  <2>10. LockedKnows'
    BY <1>1, <1>4, <2>1, <2>4, <2>6 DEF UserFree, LockedKnows, Redeemable, copy, seen
  <2> QED
    BY <2>6, <2>7, <2>8, <2>9, <2>10 DEF HandlersHold
<1> QED
  BY <1>3, <1>4

\* Every step keeps what is known of the handlers.
LEMMA HandlersMoveOn ==
  ASSUME AccessInv, AccessNext
  PROVE  HandlersHold'
<1>0. UserMoves /\ LinksAge
  BY UserMovesOn, LinksMove
<1>1. ASSUME NEW r \in Requests,
             \/ Login(r) \/ PasskeyLogin(r) \/ GoogleLogin(r) \/ MfaLogin(r)
             \/ Reauthenticate(r) \/ PasskeyReauth(r) \/ GoogleReauth(r) \/ MfaReauth(r)
             \/ ChangePassword(r) \/ ResetPassword(r) \/ VerifyEmail(r)
             \/ SetupMfa(r) \/ ConfirmMfa(r) \/ DisableMfa(r)
             \/ PasskeyOptions(r) \/ AddPasskey(r) \/ DeletePasskey(r)
      PROVE  HandlerLeaves(r)
  <2>1. PICK op \in Ops : Commits(r, op)
    BY <1>1 DEF Login, PasskeyLogin, GoogleLogin, MfaLogin, Reauthenticate, PasskeyReauth,
                GoogleReauth, MfaReauth, ChangePassword, ResetPassword, VerifyEmail, SetupMfa,
                ConfirmMfa, DisableMfa, PasskeyOptions, AddPasskey, DeletePasskey, Ops,
                Authenticated, Redeeming
  <2> QED
    BY <2>1 DEF Commits, HandlerLeaves
<1>2. ASSUME NEW r \in Requests, Refuse(r)
      PROVE  HandlerLeaves(r)
  BY <1>2 DEF Refuse, HandlerLeaves
<1>3. ASSUME NEW r \in Requests, RevokeSession(r)
      PROVE  HandlerLeaves(r)
  BY <1>3 DEF RevokeSession, HandlerLeaves
<1>4. ASSUME NEW s \in Sessions, GoogleReauthStart(s) \/ Refresh(s) \/ Logout(s)
      PROVE  UNCHANGED << request, user, passkeys >> /\ LinksStay
  <2>1. UNCHANGED link \/ Issue("googleReauth", s, {})
    BY <1>4 DEF GoogleReauthStart, Refresh, Logout
  <2>2. LinksStay
    BY <2>1, IssuedLinks DEF Redeeming, LinksStay
  <2> QED
    BY <1>4, <2>2 DEF GoogleReauthStart, Refresh, Logout
<1>5. ASSUME NEW op \in Redeeming, SendLink(op)
      PROVE  UNCHANGED << request, user, passkeys >> /\ (UserFree \/ LinksStay)
  <2>1. op = "passkeyLogin" => LinksStay
    BY <1>5, IssuedLinks DEF SendLink
  <2> QED
    BY <1>5, <2>1 DEF SendLink
<1> QED
  BY <1>0, <1>1, <1>2, <1>3, <1>4, <1>5, HandlerEnds, HandlersStay, RequestIsAdmitted,
     RequestIsLocked DEF AccessNext

\* Sessions are opened under the password there is, and a new password leaves
\* only the session it was set from.
LEMMA SessionsMoveOn ==
  ASSUME AccessInv, AccessNext
  PROVE  session' \in [Sessions -> SessionRows] /\ SessionsFollowPassword'
<1> DEFINE Goal == session' \in [Sessions -> SessionRows] /\ SessionsFollowPassword'
<1>0. ASSUME UNCHANGED session, user'.password = user.password
      PROVE  Goal
  BY <1>0, AccessTypes DEF AccessInv, SessionsFollowPassword, Live
<1>1. ASSUME NEW r \in Requests, Login(r) \/ PasskeyLogin(r) \/ GoogleLogin(r) \/ MfaLogin(r)
      PROVE  Goal
  <2>1. /\ request[r].phase = "locked"
        /\ request[r].op \in {"login", "passkeyLogin", "googleLogin", "mfaLogin", "confirm"}
        /\ \/ UNCHANGED session
           \/ \E s \in NewSession, recent \in BOOLEAN :
                session' = Opened(s, request[r].copy, recent)
    BY <1>1 DEF Login, PasskeyLogin, GoogleLogin, MfaLogin, Commits
  <2>2. user'.password = user.password
    BY <1>1, AccessTypes DEF Login, PasskeyLogin, GoogleLogin, MfaLogin, Users
  <2>3. request[r].copy = user /\ request[r].copy \in Users
    BY <2>1, LockedCopyIsUser, HandlerTypes
  <2> QED
    BY <2>1, <2>2, <2>3, <1>0, OpenedSession
<1>2. ASSUME NEW r \in Requests,
             \/ Reauthenticate(r) \/ PasskeyReauth(r) \/ GoogleReauth(r) \/ MfaReauth(r)
             \/ ConfirmMfa(r) \/ DisableMfa(r)
      PROVE  Goal
  <2>1. UNCHANGED session \/ \E s : session' = Recent(s)
    BY <1>2 DEF Reauthenticate, PasskeyReauth, GoogleReauth, MfaReauth, ConfirmMfa, DisableMfa
  <2>2. user'.password = user.password
    BY <1>2, AccessTypes DEF Reauthenticate, PasskeyReauth, GoogleReauth, MfaReauth,
                             ConfirmMfa, DisableMfa, Users
  <2> QED
    BY <2>1, <2>2, <1>0, RecentSession
<1>3. ASSUME NEW r \in Requests, ChangePassword(r)
      PROVE  Goal
  <2> DEFINE kept == request[r].session
             next == user.password + 1
             others == RevokeOthers(kept)
             row == [others[kept] EXCEPT !.recent = TRUE, !.opened = next]
  <2>1. /\ request[r].phase = "locked" /\ request[r].op = "change"
        /\ user.password < MaxPasswords
        /\ session' = [others EXCEPT ![kept].recent = TRUE, ![kept].opened = next]
        /\ \E o : user' = NewPassword(o)
    BY <1>3 DEF ChangePassword, Commits
  <2>2. kept \in Sessions /\ next \in 0 .. MaxPasswords
    BY <2>1, HandlerTypes, AccessTypes DEF Authenticated
  <2>3. user'.password = next
    BY <2>1, AccessTypes DEF NewPassword, Users
  <2>4. /\ others \in [Sessions -> SessionRows]
        /\ \A s \in Sessions \ {kept} : others[s].state # "live"
    BY RevokedSessions
  <2> HIDE DEF next, others
  <2>5. row \in SessionRows /\ row.opened = next
    BY <2>2, <2>4 DEF SessionRows
  <2>6. session'[kept] = row /\ \A s \in Sessions \ {kept} : session'[s] = others[s]
    BY <2>1, <2>2, <2>4
  <2> HIDE DEF row
  <2>7. session' \in [Sessions -> SessionRows]
    <3>1. session' = [s \in Sessions |-> session'[s]]
      BY <2>1, <2>4
    <3> QED
      BY <2>4, <2>5, <2>6, <3>1
  <2> QED
    BY <2>3, <2>4, <2>5, <2>6, <2>7 DEF SessionsFollowPassword, Live
<1>4. ASSUME NEW r \in Requests, ResetPassword(r)
      PROVE  Goal
  <2>1. session' = RevokeOthers(None)
    BY <1>4 DEF ResetPassword
  <2> QED
    BY <2>1, RevokedSessions, AccessTypes DEF SessionsFollowPassword, Live
<1>5. ASSUME NEW r \in Requests, RevokeSession(r)
      PROVE  Goal
  <2>1. PICK s \in Sessions : session' = [session EXCEPT ![s].state = "revoked"]
    BY <1>5 DEF RevokeSession
  <2>2. LET row == [session[s] EXCEPT !.state = "revoked"] IN
        row \in SessionRows /\ row.state # "live"
    BY AccessTypes DEF SessionRows
  <2>3. session' \in [Sessions -> SessionRows] /\ session'[s].state # "live"
        /\ \A x \in Sessions \ {s} : session'[x] = session[x]
    BY <2>1, <2>2, AccessTypes
  <2>4. UNCHANGED user
    BY <1>5 DEF RevokeSession
  <2> QED
    BY <2>3, <2>4 DEF AccessInv, SessionsFollowPassword, Live
<1>6. ASSUME NEW s \in Sessions, Refresh(s) \/ Logout(s)
      PROVE  Goal
  <2>1. PICK cookie \in {"current", "old", "none"}, state \in {session[s].state, "revoked"} :
          \/ session' = [session EXCEPT ![s].cookie = cookie]
          \/ session' = [session EXCEPT ![s].cookie = cookie, ![s].state = state]
    BY <1>6 DEF Refresh, Logout
  <2> DEFINE row == [session[s] EXCEPT !.cookie = cookie]
             out == [session[s] EXCEPT !.cookie = cookie, !.state = state]
  <2>2. session[s] \in SessionRows
    BY AccessTypes
  <2>3. /\ row \in SessionRows /\ row.opened = session[s].opened /\ row.state = session[s].state
        /\ out \in SessionRows /\ out.opened = session[s].opened
        /\ out.state \in {session[s].state, "revoked"}
    BY <2>1, <2>2 DEF SessionRows
  <2>4. /\ session'[s] \in {row, out}
        /\ \A x \in Sessions \ {s} : session'[x] = session[x]
        /\ session' = [x \in Sessions |-> session'[x]]
    BY <2>1, AccessTypes
  <2> HIDE DEF row, out
  <2>5. session' \in [Sessions -> SessionRows]
    BY <2>3, <2>4, AccessTypes
  <2>6. UNCHANGED user
    BY <1>6 DEF Refresh, Logout
  <2> QED
    BY <2>3, <2>4, <2>5, <2>6 DEF AccessInv, SessionsFollowPassword, Live
<1>7. ASSUME NEW r \in Requests,
             \/ Lock(r) \/ Refuse(r) \/ VerifyEmail(r) \/ SetupMfa(r)
             \/ PasskeyOptions(r) \/ AddPasskey(r) \/ DeletePasskey(r)
      PROVE  UNCHANGED session /\ user'.password = user.password
  <2>1. UNCHANGED session
    BY <1>7 DEF Lock, Refuse, VerifyEmail, SetupMfa, PasskeyOptions, AddPasskey, DeletePasskey
  <2>2. user'.password = user.password
    BY <1>7, AccessTypes DEF Lock, Refuse, VerifyEmail, SetupMfa, PasskeyOptions, AddPasskey,
                             DeletePasskey, Users
  <2> QED
    BY <2>1, <2>2
<1>8. ASSUME NEW r \in Requests, NEW op \in Ops, Admit(r, op)
      PROVE  UNCHANGED session /\ user'.password = user.password
  BY <1>8 DEF Admit
<1>9. ASSUME NEW s \in Sessions, GoogleReauthStart(s)
      PROVE  UNCHANGED session /\ user'.password = user.password
  BY <1>9 DEF GoogleReauthStart
<1>10. ASSUME NEW op \in Redeeming, SendLink(op)
       PROVE  UNCHANGED session /\ user'.password = user.password
  BY <1>10 DEF SendLink
<1> QED
  BY <1>0, <1>1, <1>2, <1>3, <1>4, <1>5, <1>6, <1>7, <1>8, <1>9, <1>10 DEF AccessNext

\* A second factor only moves forward, until another one takes its place.
FactorMoves ==
  /\ codes' \subseteq Codes
  /\ user.secret = user'.secret /\ user.secret # 0
       => user.last <= user'.last /\ codes' \subseteq codes

\* disable_mfa included, where the copy may be of an earlier factor.
LEMMA FactorMovesOn ==
  ASSUME AccessInv, AccessNext
  PROVE  FactorMoves
<1>a. /\ user \in Users /\ user.last \in 0 .. MaxSteps /\ user.secret \in 0 .. MaxSecrets
      /\ MaxSteps \in Nat \ {0} /\ codes \subseteq Codes
  BY AccessTypes
<1> USE <1>a
<1>0. ASSUME user'.last = user.last, UNCHANGED codes
      PROVE  FactorMoves
  BY <1>0 DEF FactorMoves
<1>1. ASSUME NEW r \in Requests,
             Login(r) \/ MfaLogin(r) \/ Reauthenticate(r) \/ MfaReauth(r) \/ ChangePassword(r)
      PROVE  FactorMoves
  <2>1. /\ request[r].phase = "locked"
        /\ \E o : /\ user'.last = o.last /\ codes' = o.codes
                  /\ \/ o \in SecondFactor(request[r].copy)
                     \/ o = [last |-> user.last, codes |-> codes, proofs |-> {}]
    BY <1>1 DEF Login, MfaLogin, Reauthenticate, MfaReauth, ChangePassword, NewPassword,
                Commits, Users
  <2>2. request[r].copy \in Users
    BY <2>1, HandlerTypes
  <2>3. PICK o : /\ user'.last = o.last /\ codes' = o.codes
                 /\ \/ o \in SecondFactor(request[r].copy)
                    \/ o = [last |-> user.last, codes |-> codes, proofs |-> {}]
    BY <2>1
  <2>4. user.last <= o.last /\ o.codes \subseteq codes
    BY <2>2, <2>3, SecondFactorGives
  <2> QED
    BY <2>3, <2>4 DEF FactorMoves
<1>2. ASSUME NEW r \in Requests, ConfirmMfa(r)
      PROVE  FactorMoves
  <2>1. /\ request[r].phase = "locked" /\ request[r].op = "confirm"
        /\ request[r].copy.pending # 0 /\ codes' = Codes
        /\ user'.secret = request[r].copy.pending
    BY <1>2 DEF ConfirmMfa, Commits, Users
  <2>2. user'.secret # user.secret
    BY <2>1, LockedCopyIsUser DEF AccessInv, SecretsAreDrawn
  <2> QED
    BY <2>1, <2>2 DEF FactorMoves
<1>3. ASSUME NEW r \in Requests, DisableMfa(r)
      PROVE  FactorMoves
  <2>1. PICK known \in {user, request[r].copy} :
          user' = [user EXCEPT !.secret = Written(@, known.secret, 0),
                               !.last = Written(@, known.last, 0),
                               !.pending = Written(@, known.pending, 0),
                               !.by = Written(@, known.by, None)]
    BY <1>3 DEF DisableMfa
  <2>2. /\ user'.secret = Written(user.secret, known.secret, 0)
        /\ user'.last = Written(user.last, known.last, 0)
    BY <2>1 DEF Users
  <2>3. request[r].phase = "locked" /\ codes' = {}
    BY <1>3 DEF DisableMfa, Commits
  <2>4. FactorIsWhole(known)
    BY <2>3, HandlerTypes DEF AccessInv, SecretsAreDrawn
  <2> QED
    BY <2>2, <2>3, <2>4 DEF FactorMoves, Written, FactorIsWhole
<1>4. ASSUME NEW r \in Requests,
             \/ Lock(r) \/ Refuse(r) \/ PasskeyLogin(r) \/ GoogleLogin(r) \/ PasskeyReauth(r)
             \/ GoogleReauth(r) \/ ResetPassword(r) \/ VerifyEmail(r) \/ SetupMfa(r)
             \/ PasskeyOptions(r) \/ AddPasskey(r) \/ DeletePasskey(r) \/ RevokeSession(r)
      PROVE  user'.last = user.last /\ UNCHANGED codes
  <2>1. user'.last = user.last
    BY <1>4 DEF Lock, Refuse, PasskeyLogin, GoogleLogin, PasskeyReauth, GoogleReauth,
                ResetPassword, VerifyEmail, SetupMfa, PasskeyOptions, AddPasskey,
                DeletePasskey, RevokeSession, Users
  <2>2. UNCHANGED codes
    BY <1>4 DEF Lock, Refuse, PasskeyLogin, GoogleLogin, PasskeyReauth, GoogleReauth,
                ResetPassword, VerifyEmail, SetupMfa, PasskeyOptions, AddPasskey,
                DeletePasskey, RevokeSession
  <2> QED
    BY <2>1, <2>2
<1>5. ASSUME NEW r \in Requests, NEW op \in Ops, Admit(r, op)
      PROVE  user'.last = user.last /\ UNCHANGED codes
  BY <1>5 DEF Admit
<1>6. ASSUME NEW s \in Sessions, GoogleReauthStart(s) \/ Refresh(s) \/ Logout(s)
      PROVE  user'.last = user.last /\ UNCHANGED codes
  BY <1>6 DEF GoogleReauthStart, Refresh, Logout
<1>7. ASSUME NEW op \in Redeeming, SendLink(op)
      PROVE  user'.last = user.last /\ UNCHANGED codes
  BY <1>7 DEF SendLink
<1> QED
  BY <1>0, <1>1, <1>2, <1>3, <1>4, <1>5, <1>6, <1>7 DEF AccessNext

\* A passkey goes only where another way in remains.
LEMMA PasskeysMoveOn ==
  ASSUME AccessInv, AccessNext
  PROVE  passkeys' \subseteq Passkeys /\ SignInRemains'
<1>0. UserMoves /\ UNCHANGED google /\ passkeys \subseteq Passkeys
  <2>1. UNCHANGED google
    BY DEF AccessNext, Admit, Lock, Refuse, Login, PasskeyLogin, GoogleLogin, MfaLogin,
           Reauthenticate, PasskeyReauth, GoogleReauth, MfaReauth, ChangePassword,
           ResetPassword, VerifyEmail, SetupMfa, ConfirmMfa, DisableMfa, PasskeyOptions,
           AddPasskey, DeletePasskey, RevokeSession, GoogleReauthStart, Refresh, Logout,
           SendLink
  <2> QED
    BY <2>1, UserMovesOn, AccessTypes
<1>1. ASSUME passkeys \subseteq passkeys', passkeys' \subseteq Passkeys
      PROVE  passkeys' \subseteq Passkeys /\ SignInRemains'
  BY <1>0, <1>1 DEF AccessInv, SignInRemains, UserMoves
<1>2. ASSUME NEW r \in Requests, AddPasskey(r)
      PROVE  passkeys \subseteq passkeys' /\ passkeys' \subseteq Passkeys
  BY <1>0, <1>2 DEF AddPasskey, AnyOf
<1>3. ASSUME NEW r \in Requests, DeletePasskey(r)
      PROVE  passkeys' \subseteq Passkeys /\ SignInRemains'
  <2>1. /\ request[r].phase = "locked" /\ request[r].op = "deletePasskey" /\ UNCHANGED user
    BY <1>3 DEF DeletePasskey, Commits
  <2>2. request[r].seen = passkeys /\ (request[r].copy.enabled => user.enabled)
    BY <2>1, HandlerTypes DEF AccessInv, LockedKnows
  <2>3. PICK k \in passkeys :
          /\ \/ request[r].seen \ {k} # {} \/ request[r].copy.enabled
             \/ google /\ user.linked
          /\ passkeys' = passkeys \ {k}
    BY <1>3 DEF DeletePasskey
  <2> QED
    BY <1>0, <2>1, <2>2, <2>3 DEF SignInRemains
<1>4. CASE UNCHANGED passkeys
  BY <1>0, <1>1, <1>4
<1>5. UNCHANGED passkeys \/ \E r \in Requests : AddPasskey(r) \/ DeletePasskey(r)
  BY DEF AccessNext, Admit, Lock, Refuse, Login, PasskeyLogin, GoogleLogin, MfaLogin,
         Reauthenticate, PasskeyReauth, GoogleReauth, MfaReauth, ChangePassword,
         ResetPassword, VerifyEmail, SetupMfa, ConfirmMfa, DisableMfa, PasskeyOptions,
         RevokeSession, GoogleReauthStart, Refresh, Logout, SendLink
<1> QED
  BY <1>1, <1>2, <1>3, <1>4, <1>5

\* A proof is fresh when it is accepted, unless it is a state, and not after.
Spent(p) == p \in Proofs /\ (Fresh(p) \/ IsState(p)) /\ ~Fresh(p)'

\* The handler's link is closed.
LEMMA LinkIsSpent ==
  ASSUME AccessInv, NEW r \in Requests, request[r].phase = "locked",
         request[r].op \in Redeeming, ~link'[request[r].link].open
  PROVE  Spent(<<"link", request[r].link>>)
<1>1. /\ request[r].link \in Links
      /\ link[request[r].link].open \/ link[request[r].link].op = "googleReauth"
  BY HandlerTypes DEF AccessInv, LockedKnows, HandlersAreSound
<1>2. ASSUME NEW p, p = <<"link", request[r].link>>
      PROVE  Spent(p)
  <2>1. Fresh(p) <=> link[p[2]].open
    BY <1>2 DEF Fresh
  <2>2. Fresh(p)' <=> link'[p[2]].open
    BY <1>2 DEF Fresh
  <2>3. p \in Proofs
    BY <1>1, <1>2 DEF Proofs
  <2>4. IsState(p) <=> link[p[2]].op = "googleReauth"
    BY <1>2 DEF IsState
  <2> QED
    BY <1>1, <1>2, <2>1, <2>2, <2>3, <2>4 DEF Spent
<1> QED
  BY <1>2

\* The step or the code is spent, or the secret it is of is gone.
Takes(o) ==
  \/ user'.secret = user.secret /\ user'.last = o.last /\ codes' = o.codes
  \/ user'.secret = 0

\* Then each proof of the outcome is spent.
LEMMA FactorIsSpent ==
  ASSUME AccessInv, NEW copy \in Users, NEW o \in SecondFactor(copy), Takes(o)
  PROVE  \A p \in o.proofs : Spent(p)
<1> SUFFICES ASSUME NEW p \in o.proofs PROVE Spent(p)
  OBVIOUS
<1>1. Spends(o, p) /\ p \in Proofs
  BY SecondFactorGives
<1>2. CASE p = <<"step", user.secret, o.last>> /\ user.last < o.last
  <2>1. Fresh(p) <=> p[2] = user.secret /\ p[3] > user.last
    BY <1>2 DEF Fresh
  <2>2. Fresh(p)' <=> p[2] = user'.secret /\ p[3] > user'.last
    BY <1>2 DEF Fresh
  <2>3. o.last \in Int /\ user.last \in Int
    BY SecondFactorGives, AccessTypes
  <2> QED
    BY <1>1, <1>2, <2>1, <2>2, <2>3 DEF Spent, Spends, Takes
<1>3. CASE \E c \in codes \ o.codes : p = <<"code", user.secret, c>>
  <2>1. Fresh(p) <=> p[2] = user.secret /\ p[3] \in codes
    BY <1>3 DEF Fresh
  <2>2. Fresh(p)' <=> p[2] = user'.secret /\ p[3] \in codes'
    BY <1>3 DEF Fresh
  <2> QED
    BY <1>1, <1>3, <2>1, <2>2 DEF Spent, Spends, Takes
<1> QED
  BY <1>1, <1>2, <1>3 DEF Spends

\* Whatever a step accepts, it spends.
LEMMA GrantedIsSpent ==
  ASSUME AccessInv, AccessNext
  PROVE  \A p \in granted' : Spent(p)
<1> DEFINE Goal == \A p \in granted' : Spent(p)
<1>0. UserMoves /\ LinksAge /\ user \in Users
  BY UserMovesOn, LinksMove, AccessTypes
<1>1. ASSUME NEW r \in Requests, NEW o, request[r].phase = "locked", granted' = o.proofs,
             Takes(o),
             \/ o \in SecondFactor(request[r].copy)
             \/ o = [last |-> user.last, codes |-> codes, proofs |-> {}]
      PROVE  Goal
  BY <1>1, HandlerTypes, FactorIsSpent
<1>2. ASSUME NEW r \in Requests, Login(r) \/ Reauthenticate(r) \/ ChangePassword(r)
      PROVE  Goal
  <2>1. /\ request[r].phase = "locked"
        /\ \E o : /\ \/ user' = [user EXCEPT !.last = o.last]
                     \/ user' = [user EXCEPT !.last = o.last, !.enabled = TRUE]
                     \/ user' = NewPassword(o)
                  /\ codes' = o.codes /\ granted' = o.proofs
                  /\ \/ o \in SecondFactor(request[r].copy)
                     \/ o = [last |-> user.last, codes |-> codes, proofs |-> {}]
    BY <1>2 DEF Login, Reauthenticate, ChangePassword, Commits
  <2>2. ASSUME NEW o, codes' = o.codes,
               \/ user' = [user EXCEPT !.last = o.last]
               \/ user' = [user EXCEPT !.last = o.last, !.enabled = TRUE]
               \/ user' = NewPassword(o)
        PROVE  Takes(o)
    BY <1>0, <2>2 DEF Takes, NewPassword, Users
  <2> QED
    BY <2>1, <2>2, <1>1
<1>3. ASSUME NEW r \in Requests, MfaLogin(r) \/ MfaReauth(r)
      PROVE  Goal
  <2>1. /\ request[r].phase = "locked" /\ request[r].op \in Redeeming
        /\ link' = Close(request[r].link)
        /\ \E o \in SecondFactor(request[r].copy) :
             /\ user' = [user EXCEPT !.last = o.last] /\ codes' = o.codes
             /\ granted' = o.proofs \cup {<<"link", request[r].link>>}
    BY <1>3 DEF MfaLogin, MfaReauth, Commits, Redeeming
  <2>2. Spent(<<"link", request[r].link>>)
    BY <2>1, HandlerTypes, ClosedLinks, LinkIsSpent
  <2>3. PICK o \in SecondFactor(request[r].copy) :
             /\ user' = [user EXCEPT !.last = o.last] /\ codes' = o.codes
             /\ granted' = o.proofs \cup {<<"link", request[r].link>>}
    BY <2>1
  <2>4. Takes(o)
    BY <1>0, <2>3 DEF Takes, Users
  <2>5. \A p \in o.proofs : Spent(p)
    BY <2>1, <2>4, HandlerTypes, FactorIsSpent
  <2> QED
    BY <2>2, <2>3, <2>5
<1>4. ASSUME NEW r \in Requests, DisableMfa(r)
      PROVE  Goal
  <2>1. CASE request[r].copy.enabled /\ request[r].copy.secret # 0
    <3>1. /\ request[r].phase = "locked"
          /\ \E o \in SecondFactor(request[r].copy) : granted' = o.proofs
          /\ user'.secret = Written(user.secret, user.secret, 0)
      BY <1>0, <1>4, <2>1 DEF DisableMfa, Commits, Users
    <3>2. user'.secret = 0
      BY <3>1 DEF Written
    <3> QED
      BY <3>1, <3>2, HandlerTypes, FactorIsSpent DEF Takes
  <2>2. CASE ~(request[r].copy.enabled /\ request[r].copy.secret # 0)
    <3>1. granted' = {}
      <4>1. \E o \in IF request[r].copy.enabled THEN SecondFactor(request[r].copy)
                     ELSE {[last |-> user.last, codes |-> codes, proofs |-> {}]} :
              granted' = o.proofs
        BY <1>4 DEF DisableMfa
      <4> QED
        BY <2>2, <4>1 DEF SecondFactor
    <3> QED
      BY <3>1
  <2> QED
    BY <2>1, <2>2
<1>5. ASSUME NEW r \in Requests, ConfirmMfa(r)
      PROVE  Goal
  <2>1. /\ request[r].phase = "locked" /\ request[r].op = "confirm"
        /\ request[r].copy.pending # 0
        /\ granted' = {<<"pending", request[r].copy.pending>>}
        /\ user'.pending = 0
    BY <1>0, <1>5 DEF ConfirmMfa, Commits, Users
  <2>2. request[r].copy.pending = user.pending
    BY <2>1, LockedCopyIsUser
  <2>3. ASSUME NEW p \in granted'
        PROVE  Spent(p)
    <3>1. p = <<"pending", user.pending>> /\ p \in Proofs
      BY <2>1, <2>2, <2>3, AccessTypes DEF Proofs
    <3>2. Fresh(p) <=> p[2] = user.pending
      BY <3>1 DEF Fresh
    <3>3. Fresh(p)' <=> p[2] = user'.pending
      BY <3>1 DEF Fresh
    <3> QED
      BY <2>1, <2>2, <3>1, <3>2, <3>3 DEF Spent
  <2> QED
    BY <2>3
<1>6. ASSUME NEW r \in Requests,
             \/ PasskeyLogin(r) \/ PasskeyReauth(r) \/ GoogleReauth(r)
             \/ ResetPassword(r) \/ VerifyEmail(r) \/ AddPasskey(r)
      PROVE  Goal
  <2>1. /\ request[r].phase = "locked" /\ request[r].op \in Redeeming
        /\ granted' = {<<"link", request[r].link>>}
    BY <1>6 DEF PasskeyLogin, PasskeyReauth, GoogleReauth, ResetPassword, VerifyEmail,
                AddPasskey, Commits, Redeeming
  <2>2. /\ request[r].link \in Links /\ link[request[r].link].op = request[r].op
        /\ link[request[r].link].session \in Sessions \cup {None} /\ request[r].op # "none"
    BY <2>1, HandlerTypes, AccessTypes DEF LinkRows, Redeeming
  <2>3. ~link'[request[r].link].open
    <3>1. CASE link' = Close(request[r].link)
      BY <2>2, <3>1, ClosedLinks
    <3>2. CASE GoogleReauth(r) /\ ~(link' = Close(request[r].link))
      <4>1. Issue("mfaReauth", link[request[r].link].session, {request[r].link})
        BY <3>2 DEF GoogleReauth
      <4> QED
        BY <2>2, <4>1, IssuedLinks DEF Redeeming
    <3>3. CASE ResetPassword(r)
      <4>1. request[r].op = "reset"
        BY <3>3 DEF ResetPassword, Commits
      <4>2. link'[request[r].link] = [link[request[r].link] EXCEPT !.open = FALSE]
        BY <2>2, <3>3, <4>1 DEF ResetPassword
      <4> QED
        BY <2>2, <4>2, AccessTypes DEF LinkRows
    <3> QED
      BY <1>6, <3>1, <3>2, <3>3 DEF PasskeyLogin, PasskeyReauth, VerifyEmail, AddPasskey
  <2> QED
    BY <2>1, <2>3, LinkIsSpent
<1>7. ASSUME NEW r \in Requests,
             \/ Lock(r) \/ Refuse(r) \/ GoogleLogin(r) \/ SetupMfa(r)
             \/ PasskeyOptions(r) \/ DeletePasskey(r) \/ RevokeSession(r)
      PROVE  granted' = {}
  BY <1>7 DEF Lock, Refuse, GoogleLogin, SetupMfa, PasskeyOptions, DeletePasskey,
              RevokeSession
<1>8. ASSUME NEW r \in Requests, NEW op \in Ops, Admit(r, op)
      PROVE  granted' = {}
  BY <1>8 DEF Admit
<1>9. ASSUME NEW s \in Sessions, GoogleReauthStart(s) \/ Refresh(s) \/ Logout(s)
      PROVE  granted' = {}
  BY <1>9 DEF GoogleReauthStart, Refresh, Logout
<1>10. ASSUME NEW op \in Redeeming, SendLink(op)
       PROVE  granted' = {}
  BY <1>10 DEF SendLink
<1> QED
  BY <1>2, <1>3, <1>4, <1>5, <1>6, <1>7, <1>8, <1>9, <1>10 DEF AccessNext

\* The bound on the requests that are admitted.
LEMMA AdmittedIsBounded ==
  ASSUME AccessInv, AccessNext
  PROVE  admitted' \in 0 .. MaxAdmitted /\ google' \in BOOLEAN
<1>1. UNCHANGED admitted \/ Counted
  BY DEF AccessNext, Admit, Lock, Refuse, Login, PasskeyLogin, GoogleLogin, MfaLogin,
         Reauthenticate, PasskeyReauth, GoogleReauth, MfaReauth, ChangePassword,
         ResetPassword, VerifyEmail, SetupMfa, ConfirmMfa, DisableMfa, PasskeyOptions,
         AddPasskey, DeletePasskey, RevokeSession, GoogleReauthStart, Refresh, Logout,
         SendLink, Commits
<1>2. UNCHANGED google
  BY DEF AccessNext, Admit, Lock, Refuse, Login, PasskeyLogin, GoogleLogin, MfaLogin,
         Reauthenticate, PasskeyReauth, GoogleReauth, MfaReauth, ChangePassword,
         ResetPassword, VerifyEmail, SetupMfa, ConfirmMfa, DisableMfa, PasskeyOptions,
         AddPasskey, DeletePasskey, RevokeSession, GoogleReauthStart, Refresh, Logout,
         SendLink
<1> QED
  BY <1>1, <1>2, AccessTypes DEF Counted

----------------------------------------------------------------------------
\* Every step of the account preserves the invariant.
LEMMA AccessStep == AccessInv /\ [AccessNext]_access => AccessInv'
<1> SUFFICES ASSUME AccessInv, [AccessNext]_access PROVE AccessInv'
  OBVIOUS
<1>1. CASE AccessNext
  <2>1. HandlersHold' /\ UserMoves /\ link' \in [Links -> LinkRows]
    BY <1>1, HandlersMoveOn, UserMovesOn, LinksMove
  <2>2. session' \in [Sessions -> SessionRows] /\ SessionsFollowPassword'
    BY <1>1, SessionsMoveOn
  <2>3. passkeys' \subseteq Passkeys /\ SignInRemains' /\ codes' \subseteq Codes
    BY <1>1, PasskeysMoveOn, FactorMovesOn DEF FactorMoves
  <2>4. granted' \subseteq Proofs
    BY <1>1, GrantedIsSpent DEF Spent
  <2>5. AccessTypeOK'
    BY <1>1, <2>1, <2>2, <2>3, <2>4, AdmittedIsBounded
       DEF AccessTypeOK, HandlersHold, UserMoves, SecretsAreDrawn, FactorIsWhole
  <2> QED
    BY <2>1, <2>2, <2>3, <2>5 DEF AccessInv, HandlersHold, UserMoves
<1>2. CASE UNCHANGED access
  BY <1>2 DEF access, AccessInv, AccessTypeOK, HandlersAreSound, CopyIsOld, FactorIsWhole,
              LockedKnows, SecretsAreDrawn, SessionsFollowPassword, Live, SignInRemains
<1> QED
  BY <1>1, <1>2

\* The inductive invariant holds in every behaviour of the account.
THEOREM AccessInvariance == AccessSpec => []AccessInv
BY AccessInitially, AccessStep, PTL DEF AccessSpec

\* Every variable keeps its type, and one request at a time holds the user's row.
THEOREM AccessIsTyped == AccessSpec => []AccessTypeOK
<1>1. AccessInv => AccessTypeOK
  BY DEF AccessInv
<1> QED
  BY <1>1, AccessInvariance, PTL

\* Whoever is signed in opened the session under the password the account has,
\* or set it from there, whatever sign-ins, changes and resets overlap.
THEOREM SessionsAreUnderPassword == AccessSpec => []SessionsFollowPassword
<1>1. AccessInv => SessionsFollowPassword
  BY DEF AccessInv
<1> QED
  BY <1>1, AccessInvariance, PTL

\* The account keeps a way in, whatever is deleted at the same time.
THEOREM WayInRemains == AccessSpec => []SignInRemains
<1>1. AccessInv => SignInRemains
  BY DEF AccessInv
<1> QED
  BY <1>1, AccessInvariance, PTL

\* Every TOTP step, recovery code, pending secret, link and challenge opens
\* something at most once, but for the states of Google reauthentications, which
\* are spent and may be accepted by callbacks that overlap.
THEOREM ProofsAreSpent == AccessSpec => ProofsWorkOnce
<1> DEFINE Once ==
      /\ \A p \in granted' : (Fresh(p) \/ IsState(p)) /\ ~Fresh(p)'
      /\ \A l \in Links : link[l].op # "none" /\ link'[l].open => link[l].open
      /\ user.secret = user'.secret /\ user.secret # 0
         => user.last <= user'.last /\ codes' \subseteq codes
<1>1. AccessInv /\ [AccessNext]_access => [Once]_access
  <2> SUFFICES ASSUME AccessInv, AccessNext PROVE Once
    OBVIOUS
  <2> QED
    BY GrantedIsSpent, LinksMove, FactorMovesOn DEF Spent, LinksAge, FactorMoves
<1> QED
  BY <1>1, AccessInvariance, PTL DEF AccessSpec, ProofsWorkOnce
=============================================================================
