-------------------------- MODULE PairedNodesProofs --------------------------
(***************************************************************************)
(* PairedNodes for any identities, codes, clocks, calls and secrets.       *)
(*                                                                         *)
(* node.json carries the newest timestamp of its identity: the program     *)
(* writes it before it sends, so nothing under way and nothing the server  *)
(* has accepted is newer (DiskIsNewest), and what is sent next is newer    *)
(* than both.  A request that the server holds is of a node that is still  *)
(* paired (HandlerHolds): the row lock keeps a revocation out.             *)
(***************************************************************************)
EXTENDS PairedNodes, TLAPS

\* A node that has never been paired has accepted nothing.
RowsAreSound ==
  \A i \in Identities : IF node[i].state = "none" THEN node[i].last = 0 ELSE node[i].secret # 0

\* The program works with what is on the disk, and waits for one request.
Waits(kinds) == process.at = "waiting" /\ process.request.kind \in kinds

ProgramKnows ==
  /\ process.at # "waiting" => process.request = NoConfig
  /\ process.at = "waiting" =>
       process.request \in Requested /\ process.request.time <= MaxTime + sent
  /\ process.at = "idle" \/ Waits({"heartbeat", "rotate"}) =>
       config \in Configs /\ process.config = config
  /\ Waits({"heartbeat", "rotate"}) =>
       process.request.id = config.id /\ process.request.time = config.last

\* The server holds the row of a paired node whose request it has taken.
HandlerHolds ==
  handler # NoConfig =>
    /\ handler.kind # "claim" /\ handler \notin wire
    /\ node[handler.id].state = "paired" /\ node[handler.id].secret = handler.secret

AnswerIsOfRequest ==
  answer # NoConfig =>
    /\ process.at = "waiting" /\ process.request \notin wire
    /\ node[process.request.id].state # "none"
    /\ answer.secret <= node[process.request.id].secret

\* Nothing of identity i, under way or accepted, is newer than t.
NoneNewer(i, t) ==
  /\ node[i].last <= t
  /\ \A m \in wire : m.id = i => m.time <= t
  /\ handler # NoConfig /\ handler.id = i => handler.time <= t

DiskIsNewest ==
  /\ config # NoConfig =>
       /\ node[config.id].state # "none"
       /\ config.last <= MaxTime + sent
       /\ NoneNewer(config.id, config.last)
  /\ Waits({"claim"}) => NoneNewer(process.request.id, process.request.time)

\* The request the program waits for is alone at the top.
RequestIsNewest ==
  process.request \in wire /\ process.request.kind # "claim" =>
    /\ \A m \in wire \ {process.request} :
         m.id = process.request.id => m.time < process.request.time
    /\ handler # NoConfig /\ handler.id = process.request.id =>
         handler.time < process.request.time

NodesInv ==
  /\ NodesTypeOK /\ sent \in 0 .. MaxCalls
  /\ RowsAreSound /\ ProgramKnows /\ HandlerHolds /\ AnswerIsOfRequest
  /\ DiskIsNewest /\ RequestIsNewest /\ NextIsNew /\ RevokedStaysOut

\* Nothing is paired, and nothing under way.
LEMMA NodesInitially == NodesInit => NodesInv
<1> SUFFICES ASSUME NodesInit PROVE NodesInv
  OBVIOUS
<1> USE NodesAssumption DEF NodesInit, Stopped
<1>1. NodesTypeOK /\ sent \in 0 .. MaxCalls
  BY DEF NodesTypeOK
<1>2. RowsAreSound /\ ProgramKnows /\ HandlerHolds /\ AnswerIsOfRequest
  BY DEF RowsAreSound, ProgramKnows, Waits, HandlerHolds, AnswerIsOfRequest
<1>3. DiskIsNewest /\ RequestIsNewest /\ NextIsNew /\ RevokedStaysOut
  BY DEF DiskIsNewest, Waits, RequestIsNewest, NextIsNew, RevokedStaysOut
<1> QED
  BY <1>1, <1>2, <1>3 DEF NodesInv

\* A request and what is on the disk are no null.
LEMMA NodesTypes ==
  ASSUME NodesInv
  PROVE  /\ \A m \in Requested :
              /\ m # NoConfig /\ m.id \in Identities /\ m.code \in PairCodes \cup {NoConfig}
              /\ m.kind \in {"claim", "heartbeat", "rotate"}
              /\ m.secret \in 0 .. MaxSecret /\ m.time \in 0 .. MaxTime + MaxCalls
         /\ \A c \in Configs :
              /\ c # NoConfig /\ c.id \in Identities
              /\ c.secret \in 1 .. MaxSecret /\ c.last \in 0 .. MaxTime + MaxCalls
         /\ MaxTime \in Nat /\ MaxCalls \in Nat /\ MaxSecret \in Nat \ {0} /\ sent \in 0 .. MaxCalls
         /\ \A i \in Identities :
              /\ node[i].state \in {"none", "paired", "revoked"}
              /\ node[i].status \in {"none", "online", "revoked"}
              /\ node[i].secret \in 0 .. MaxSecret
              /\ node[i].last \in 0 .. MaxTime + MaxCalls
         /\ wire \subseteq Requested
         /\ handler \in Requested \cup {NoConfig}
         /\ config \in Configs \cup {NoConfig}
<1>1. /\ \A m \in Requested : m # NoConfig
      /\ \A c \in Configs : c # NoConfig
      /\ MaxTime \in Nat /\ MaxCalls \in Nat /\ MaxSecret \in Nat \ {0}
  BY NodesAssumption
<1>2. \A m \in Requested :
        /\ m.id \in Identities /\ m.code \in PairCodes \cup {NoConfig}
        /\ m.kind \in {"claim", "heartbeat", "rotate"}
        /\ m.secret \in 0 .. MaxSecret /\ m.time \in 0 .. MaxTime + MaxCalls
  BY DEF Requested
<1>3. \A c \in Configs :
        /\ c.id \in Identities
        /\ c.secret \in 1 .. MaxSecret /\ c.last \in 0 .. MaxTime + MaxCalls
  BY DEF Configs
<1> QED
  BY <1>1, <1>2, <1>3 DEF NodesInv, NodesTypeOK

\* A claim is of an identity of which nothing is under way.
LEMMA PairNodeIsSafe ==
  ASSUME NodesInv, NEW i \in Identities, NEW c \in PairCodes, NEW t \in 0 .. MaxTime,
         PairNode(i, c, t)
  PROVE  NodesInv'
<1> DEFINE m == [kind |-> "claim", id |-> i, secret |-> 0, time |-> t, code |-> c]
<1>1. /\ sent < MaxCalls /\ sent' = sent + 1 /\ wire' = wire \cup {m}
      /\ process' = [at |-> "waiting", config |-> NoConfig, request |-> m]
      /\ answer' = NoConfig
      /\ UNCHANGED << code, node, config, handler >>
      /\ node[i].state = "none" /\ \A x \in wire : x.id # i
  BY DEF PairNode, Send
<1>2. m \in Requested /\ m.kind = "claim" /\ m.id = i /\ m.time = t
  BY NodesTypes DEF Requested
<1> HIDE DEF m
<1>3. NodesTypeOK' /\ (sent \in 0 .. MaxCalls)' /\ RowsAreSound' /\ RevokedStaysOut'
  BY <1>1, <1>2, NodesTypes DEF NodesInv, NodesTypeOK, RowsAreSound, RevokedStaysOut
<1>4. ProgramKnows'
  BY <1>1, <1>2, NodesTypes DEF NodesInv, ProgramKnows, Waits
<1>5. HandlerHolds' /\ AnswerIsOfRequest'
  BY <1>1, <1>2 DEF NodesInv, HandlerHolds, AnswerIsOfRequest
<1>6. DiskIsNewest'
  <2>1. config # NoConfig => i # config.id
    BY <1>1 DEF NodesInv, DiskIsNewest
  <2>2. config # NoConfig => NoneNewer(config.id, config.last)'
    BY <1>1, <1>2, <2>1 DEF NodesInv, DiskIsNewest, NoneNewer
  <2>3. NoneNewer(i, t)'
    BY <1>1, <1>2, NodesTypes DEF NodesInv, RowsAreSound, HandlerHolds, NoneNewer
  <2> QED
    BY <1>1, <1>2, <2>2, <2>3, NodesTypes DEF NodesInv, DiskIsNewest, Waits
<1>7. RequestIsNewest' /\ NextIsNew'
  BY <1>1, <1>2 DEF RequestIsNewest, NextIsNew
<1> QED
  BY <1>3, <1>4, <1>5, <1>6, <1>7 DEF NodesInv

\* The program starts with what is on the disk.
LEMMA StartIsSafe ==
  ASSUME NodesInv, Start
  PROVE  NodesInv'
<1> USE DEF Start, Stopped
<1>1. NodesTypeOK' /\ RowsAreSound' /\ RevokedStaysOut' /\ (sent \in 0 .. MaxCalls)'
  BY DEF NodesInv, NodesTypeOK, RowsAreSound, RevokedStaysOut
<1>2. ProgramKnows' /\ HandlerHolds' /\ AnswerIsOfRequest'
  BY NodesTypes DEF NodesInv, ProgramKnows, Waits, HandlerHolds, AnswerIsOfRequest
<1>3. DiskIsNewest' /\ RequestIsNewest' /\ NextIsNew'
  BY NodesTypes DEF NodesInv, DiskIsNewest, NoneNewer, Waits, RequestIsNewest, NextIsNew
<1> QED
  BY <1>1, <1>2, <1>3 DEF NodesInv

\* The timestamp is on the disk, and newer than all that was there, when the
\* request is sent.
LEMMA CallIsSafe ==
  ASSUME NodesInv, NEW kind \in {"heartbeat", "rotate"}, NEW clock \in 0 .. MaxTime,
         Call(kind, clock)
  PROVE  NodesInv'
<1> DEFINE t == IF clock > config.last THEN clock ELSE config.last + 1
           c == [config EXCEPT !.last = t]
           m == [kind |-> kind, id |-> c.id, secret |-> c.secret, time |-> t, code |-> NoConfig]
<1>1. process.at = "idle" /\ config \in Configs /\ process.config = config
  BY DEF Call, NodesInv, ProgramKnows
<1>2. /\ sent < MaxCalls /\ sent' = sent + 1 /\ wire' = wire \cup {m} /\ config' = c
      /\ process' = [at |-> "waiting", config |-> c, request |-> m]
      /\ answer' = NoConfig
      /\ UNCHANGED << code, node, handler >>
  BY <1>1 DEF Call, Send, Reserved
<1>3. /\ config # NoConfig /\ config.last \in Nat /\ config.last <= MaxTime + sent
      /\ NoneNewer(config.id, config.last) /\ node[config.id].state # "none"
      /\ config.secret \in 1 .. MaxSecret /\ config.id \in Identities
  BY <1>1, NodesTypes DEF NodesInv, DiskIsNewest
<1>4. t \in 0 .. MaxTime + MaxCalls /\ t > config.last /\ t <= MaxTime + sent + 1
  BY <1>2, <1>3, NodesTypes
<1> HIDE DEF t
<1>5. c \in Configs /\ c.id = config.id /\ c.secret = config.secret /\ c.last = t
  BY <1>1, <1>4 DEF Configs
<1>6. /\ m \in Requested /\ m.kind = kind /\ m.id = config.id /\ m.secret = config.secret
      /\ m.time = t
  BY <1>3, <1>4, <1>5, NodesTypes DEF Requested
<1> HIDE DEF c, m
<1>7. NodesTypeOK' /\ (sent \in 0 .. MaxCalls)' /\ RowsAreSound' /\ RevokedStaysOut'
  BY <1>2, <1>3, <1>5, <1>6, NodesTypes DEF NodesInv, NodesTypeOK, RowsAreSound, RevokedStaysOut
<1>8. ProgramKnows'
  BY <1>2, <1>4, <1>5, <1>6, NodesTypes DEF NodesInv, ProgramKnows, Waits
<1>9. /\ \A x \in wire : x.id = config.id => x.time < t
      /\ handler # NoConfig /\ handler.id = config.id => handler.time < t
      /\ node[config.id].last < t
  BY <1>3, <1>4, NodesTypes DEF NoneNewer
<1>10. HandlerHolds' /\ AnswerIsOfRequest'
  BY <1>2, <1>6, <1>9, NodesTypes DEF NodesInv, HandlerHolds, AnswerIsOfRequest
<1>11. DiskIsNewest'
  <2>1. NoneNewer(config.id, config.last)'
    <3>1. \A x \in wire : x.time \in Int /\ (handler # NoConfig => handler.time \in Int)
      BY NodesTypes
    <3> QED
      BY <1>2, <1>3, <1>4, <1>5, <1>6, <1>9, <3>1, NodesTypes DEF NoneNewer
  <2> QED
    BY <1>2, <1>3, <1>4, <1>5, <1>6, <2>1, NodesTypes DEF DiskIsNewest, Waits
<1>12. RequestIsNewest' /\ NextIsNew'
  BY <1>2, <1>6, <1>9 DEF RequestIsNewest, NextIsNew
<1> QED
  BY <1>7, <1>8, <1>10, <1>11, <1>12 DEF NodesInv

\* The answer of a claim makes a node.json that nothing under way is newer than.
LEMMA AnsweredIsSafe ==
  ASSUME NodesInv, Answered
  PROVE  NodesInv'
<1> DEFINE m == process.request
<1>1. /\ process.at = "waiting" /\ answer # NoConfig /\ m \in Requested /\ m \notin wire
      /\ m # NoConfig /\ m.id \in Identities /\ m.time \in 0 .. MaxTime + MaxCalls
      /\ m.time <= MaxTime + sent
      /\ node[m.id].state # "none" /\ answer.secret <= node[m.id].secret
      /\ answer.secret \in 1 .. MaxSecret
      /\ process'.at = "idle" /\ process'.request = NoConfig /\ answer' = NoConfig
      /\ UNCHANGED << code, node, wire, handler, sent >>
  BY NodesTypes DEF Answered, NodesInv, ProgramKnows, AnswerIsOfRequest, NodesTypeOK
<1>2. /\ config' \in Configs /\ process'.config = config'
      /\ config'.id = m.id /\ config'.last >= m.time /\ NoneNewer(m.id, config'.last)
      /\ config'.last <= MaxTime + sent /\ config'.secret <= node[m.id].secret
  <2>1. CASE m.kind = "claim"
    <3>1. config' = [id |-> m.id, secret |-> answer.secret, last |-> m.time]
          /\ process'.config = config'
      BY <2>1 DEF Answered
    <3>2. NoneNewer(m.id, m.time)
      BY <1>1, <2>1 DEF NodesInv, DiskIsNewest, Waits
    <3> QED
      BY <1>1, <3>1, <3>2 DEF Configs
  <2>2. CASE m.kind # "claim"
    <3>1. m.kind \in {"heartbeat", "rotate"}
      BY <1>1, <2>2, NodesTypes
    <3>2. /\ config \in Configs /\ process.config = config /\ m.id = config.id
          /\ m.time = config.last
      BY <1>1, <3>1 DEF NodesInv, ProgramKnows, Waits
    <3>3. /\ NoneNewer(config.id, config.last) /\ config.last <= MaxTime + sent
          /\ config.secret <= node[config.id].secret
      BY <3>2, NodesTypes DEF NodesInv, DiskIsNewest, NodesTypeOK
    <3>4. CASE m.kind = "rotate"
      <4>1. config' = [config EXCEPT !.secret = answer.secret] /\ process'.config = config'
        BY <3>2, <3>4 DEF Answered
      <4>2. /\ config' \in Configs /\ config'.id = config.id /\ config'.last = config.last
            /\ config'.secret = answer.secret
        BY <1>1, <3>2, <4>1 DEF Configs
      <4> QED
        BY <1>1, <3>2, <3>3, <4>1, <4>2, NodesTypes
    <3>5. CASE m.kind = "heartbeat"
      <4>1. config' = config /\ process'.config = config'
        BY <3>2, <3>5 DEF Answered
      <4> QED
        BY <3>2, <3>3, <4>1, NodesTypes
    <3> QED
      BY <3>1, <3>4, <3>5
  <2> QED
    BY <2>1, <2>2
<1> HIDE DEF m
<1>3. NodesTypeOK' /\ (sent \in 0 .. MaxCalls)' /\ RowsAreSound' /\ RevokedStaysOut'
  BY <1>1, <1>2 DEF NodesInv, NodesTypeOK, RowsAreSound, RevokedStaysOut
<1>4. ProgramKnows' /\ HandlerHolds' /\ AnswerIsOfRequest'
  BY <1>1, <1>2 DEF NodesInv, ProgramKnows, Waits, HandlerHolds, AnswerIsOfRequest
<1>5. DiskIsNewest'
  BY <1>1, <1>2 DEF DiskIsNewest, NoneNewer, Waits
<1>6. RequestIsNewest' /\ NextIsNew'
  BY <1>1, NodesTypes DEF RequestIsNewest, NextIsNew
<1> QED
  BY <1>3, <1>4, <1>5, <1>6 DEF NodesInv

\* A request is refused or lost, or the program ends, which drops the answer.
LessUnderWay ==
  /\ wire' \subseteq wire
  /\ UNCHANGED << node, config, handler, sent >>
  /\ code' \in [PairCodes -> {"none", "open", "claimed"}]
  /\ \/ process' = Stopped /\ answer' = NoConfig
     \/ process' = process /\ answer' = answer

\* What is left under way is as old as it was.
LEMMA LessUnderWayIsSafe ==
  ASSUME NodesInv, LessUnderWay
  PROVE  NodesInv'
<1> USE DEF LessUnderWay, Stopped
<1>1. NodesTypeOK' /\ (sent \in 0 .. MaxCalls)' /\ RowsAreSound' /\ RevokedStaysOut'
  BY DEF NodesInv, NodesTypeOK, RowsAreSound, RevokedStaysOut
<1>2. ProgramKnows' /\ HandlerHolds' /\ AnswerIsOfRequest'
  BY DEF NodesInv, ProgramKnows, Waits, HandlerHolds, AnswerIsOfRequest
<1>3. DiskIsNewest'
  BY DEF NodesInv, DiskIsNewest, NoneNewer, Waits
<1>4. RequestIsNewest' /\ NextIsNew'
  BY NodesTypes DEF NodesInv, RequestIsNewest, NextIsNew
<1> QED
  BY <1>1, <1>2, <1>3, <1>4 DEF NodesInv

\* The ends of the program, lost requests and new codes are such steps.
LEMMA EndsAreSafe ==
  ASSUME NodesInv, \/ ProgramEnds \/ \E c \in PairCodes : CreateCode(c)
                   \/ \E m \in wire : RefuseRequest(m)
  PROVE  NodesInv'
<1>1. CASE ProgramEnds
  <2>1. code' \in [PairCodes -> {"none", "open", "claimed"}]
    BY <1>1 DEF ProgramEnds, NodesInv, NodesTypeOK
  <2> QED
    BY <1>1, <2>1, LessUnderWayIsSafe DEF ProgramEnds, LessUnderWay
<1>2. ASSUME NEW c \in PairCodes, CreateCode(c) PROVE NodesInv'
  <2>1. code' \in [PairCodes -> {"none", "open", "claimed"}]
    BY <1>2 DEF CreateCode, NodesInv, NodesTypeOK
  <2> QED
    BY <1>2, <2>1, LessUnderWayIsSafe DEF CreateCode, LessUnderWay
<1>3. ASSUME NEW m \in wire, RefuseRequest(m) PROVE NodesInv'
  <2>1. process.request = m => answer = NoConfig
    BY DEF NodesInv, AnswerIsOfRequest
  <2>2. code' \in [PairCodes -> {"none", "open", "claimed"}]
    BY <1>3 DEF RefuseRequest, NodesInv, NodesTypeOK
  <2> QED
    BY <1>3, <2>1, <2>2, LessUnderWayIsSafe DEF RefuseRequest, LessUnderWay
<1> QED
  BY <1>1, <1>2, <1>3

\* A claim pairs an identity that is on no disk and in no hands of the server.
LEMMA ClaimIsSafe ==
  ASSUME NodesInv, NEW m \in wire, Claim(m)
  PROVE  NodesInv'
<1> DEFINE new == [state |-> "paired", status |-> "online", secret |-> 1, last |-> m.time]
<1>1. /\ m \in Requested /\ m # NoConfig /\ m.kind = "claim" /\ m.id \in Identities
      /\ m.time \in 0 .. MaxTime + MaxCalls /\ 1 \in 0 .. MaxSecret /\ 1 \in 1 .. MaxSecret
      /\ node[m.id].state = "none" /\ node[m.id].last = 0 /\ wire' = wire \ {m}
      /\ UNCHANGED << config, process, handler, sent >>
  BY NodesTypes DEF Claim, NodesInv, RowsAreSound
<1>2. /\ node' = [node EXCEPT ![m.id] = new] /\ node'[m.id] = new
      /\ \A i \in Identities \ {m.id} : node'[i] = node[i]
  BY <1>1 DEF Claim, NodesInv, NodesTypeOK
<1>3. \/ process.request = m /\ answer' = [secret |-> 1]
      \/ process.request # m /\ answer' = answer
  BY DEF Claim, Answers
<1>4. /\ config # NoConfig => config.id # m.id /\ config.id \in Identities
      /\ handler # NoConfig => handler.id # m.id /\ handler.id \in Identities
      /\ answer # NoConfig => process.request.id # m.id /\ process.request.id \in Identities
  BY <1>1, NodesTypes DEF NodesInv, DiskIsNewest, HandlerHolds, AnswerIsOfRequest, ProgramKnows
<1>5. process.request \in wire => process.at = "waiting"
  BY NodesTypes DEF NodesInv, ProgramKnows
<1>6. NodesTypeOK' /\ (sent \in 0 .. MaxCalls)'
  <2>1. code' \in [PairCodes -> {"none", "open", "claimed"}]
    BY DEF Claim, NodesInv, NodesTypeOK
  <2>2. answer' \in [secret : 1 .. MaxSecret] \cup {NoConfig}
    BY <1>1, <1>3 DEF NodesInv, NodesTypeOK
  <2>3. node' \in [Identities ->
          [state : {"none", "paired", "revoked"}, status : {"none", "online", "revoked"},
           secret : 0 .. MaxSecret, last : 0 .. MaxTime + MaxCalls]]
    BY <1>1, <1>2 DEF NodesInv, NodesTypeOK
  <2> QED
    BY <1>1, <1>2, <1>4, <2>1, <2>2, <2>3 DEF NodesInv, NodesTypeOK
<1>7. RowsAreSound' /\ RevokedStaysOut'
  BY <1>2 DEF NodesInv, RowsAreSound, RevokedStaysOut
<1>8. ProgramKnows' /\ HandlerHolds'
  BY <1>1, <1>2, <1>4 DEF NodesInv, ProgramKnows, Waits, HandlerHolds
<1>9. AnswerIsOfRequest'
  <2>1. CASE process.request = m
    BY <1>1, <1>2, <1>3, <1>5, <2>1 DEF AnswerIsOfRequest
  <2>2. CASE process.request # m
    BY <1>1, <1>2, <1>3, <1>4, <2>2 DEF NodesInv, AnswerIsOfRequest
  <2> QED
    BY <2>1, <2>2
<1>10. DiskIsNewest'
  <2>1. config # NoConfig => NoneNewer(config.id, config.last)'
    BY <1>1, <1>2, <1>4 DEF NodesInv, DiskIsNewest, NoneNewer
  <2>2. Waits({"claim"}) =>
          /\ process.request.id \in Identities
          /\ NoneNewer(process.request.id, process.request.time)
    BY NodesTypes DEF NodesInv, DiskIsNewest, ProgramKnows, Waits
  <2>3. Waits({"claim"}) => NoneNewer(process.request.id, process.request.time)'
    BY <1>1, <1>2, <2>2 DEF NoneNewer
  <2> QED
    BY <1>1, <1>2, <1>4, <2>1, <2>3 DEF NodesInv, DiskIsNewest, Waits
<1>11. RequestIsNewest'
  BY <1>1 DEF NodesInv, RequestIsNewest
<1>12. NextIsNew'
  <2>1. process.request \in wire /\ process.request.kind # "claim" =>
          process.request.id \in Identities \ {m.id}
    BY <1>4, <1>5, NodesTypes DEF NodesInv, ProgramKnows, Waits
  <2> QED
    BY <1>1, <1>2, <2>1 DEF NodesInv, NextIsNew
<1> QED
  BY <1>6, <1>7, <1>8, <1>9, <1>10, <1>11, <1>12 DEF NodesInv

\* The server takes a request: it is under way no more, and held.
LEMMA AttestIsSafe ==
  ASSUME NodesInv, NEW m \in wire, Attest(m)
  PROVE  NodesInv'
<1>1. /\ m \in Requested /\ m # NoConfig /\ m.kind # "claim"
      /\ handler = NoConfig /\ handler' = m /\ wire' = wire \ {m}
      /\ node[m.id].state = "paired" /\ node[m.id].secret = m.secret
      /\ UNCHANGED << code, node, config, process, answer, sent >>
  BY NodesTypes DEF Attest, Attested
<1>2. NodesTypeOK' /\ (sent \in 0 .. MaxCalls)' /\ RowsAreSound' /\ RevokedStaysOut'
  BY <1>1 DEF NodesInv, NodesTypeOK, RowsAreSound, RevokedStaysOut
<1>3. ProgramKnows' /\ HandlerHolds' /\ AnswerIsOfRequest'
  BY <1>1 DEF NodesInv, ProgramKnows, Waits, HandlerHolds, AnswerIsOfRequest
<1>4. DiskIsNewest'
  BY <1>1 DEF NodesInv, DiskIsNewest, NoneNewer, Waits
<1>5. RequestIsNewest' /\ NextIsNew'
  BY <1>1 DEF NodesInv, RequestIsNewest, NextIsNew
<1> QED
  BY <1>2, <1>3, <1>4, <1>5 DEF NodesInv

\* The request that is held becomes the newest its node has accepted.
Accepts(secret) ==
  /\ handler # NoConfig /\ handler' = NoConfig
  /\ node' \in [Identities ->
       [state : {"none", "paired", "revoked"}, status : {"none", "online", "revoked"},
        secret : 0 .. MaxSecret, last : 0 .. MaxTime + MaxCalls]]
  /\ \A i \in Identities \ {handler.id} : node'[i] = node[i]
  /\ node'[handler.id].state = "paired" /\ node'[handler.id].last = handler.time
  /\ node'[handler.id].secret = secret
  /\ secret \in 1 .. MaxSecret /\ secret >= handler.secret
  /\ Answers(handler, secret)
  /\ UNCHANGED << code, config, process, wire, sent >>

\* The program's own request is newer than what the server accepts beside it.
LEMMA AcceptsIsSafe ==
  ASSUME NodesInv, NEW secret, Accepts(secret)
  PROVE  NodesInv'
<1> DEFINE h == handler
<1>1. /\ h \in Requested /\ h # NoConfig /\ h.id \in Identities /\ h.secret \in 0 .. MaxSecret
      /\ h.kind # "claim" /\ h \notin wire
      /\ h.time \in 0 .. MaxTime + MaxCalls
      /\ node[h.id].state = "paired" /\ node[h.id].secret = h.secret
  BY NodesTypes DEF Accepts, NodesInv, HandlerHolds
<1>2. \/ process.request = h /\ answer' = [secret |-> secret]
      \/ process.request # h /\ answer' = answer
  BY DEF Accepts, Answers
<1>3. /\ \A i \in Identities \ {h.id} : node'[i] = node[i]
      /\ node'[h.id].state = "paired" /\ node'[h.id].last = h.time
      /\ node'[h.id].secret = secret /\ secret \in 1 .. MaxSecret /\ secret >= h.secret
      /\ handler' = NoConfig
      /\ UNCHANGED << code, config, process, wire, sent >>
  BY DEF Accepts
<1> HIDE DEF h
<1>4. \A i \in Identities : /\ node'[i].state = "none" <=> node[i].state = "none"
                            /\ node'[i].secret \in Nat /\ node[i].secret \in Nat
                            /\ node'[i].secret >= node[i].secret
  BY <1>1, <1>3, NodesTypes
<1>5. /\ config # NoConfig => config.id \in Identities /\ config.secret \in Nat
      /\ process.at = "waiting" => process.request.id \in Identities
      /\ answer # NoConfig => answer.secret \in Nat
      /\ process.request \in Requested => process.at = "waiting"
  BY NodesTypes DEF NodesInv, NodesTypeOK, ProgramKnows
<1>6. NodesTypeOK' /\ (sent \in 0 .. MaxCalls)'
  <2>1. answer' \in [secret : 1 .. MaxSecret] \cup {NoConfig}
    BY <1>2, <1>3 DEF NodesInv, NodesTypeOK
  <2>2. config # NoConfig => config.secret <= node'[config.id].secret
    BY <1>4, <1>5 DEF NodesInv, NodesTypeOK
  <2> QED
    BY <1>3, <2>1, <2>2 DEF NodesInv, NodesTypeOK, Accepts
<1>7. RowsAreSound' /\ RevokedStaysOut'
  BY <1>1, <1>3, NodesTypes DEF NodesInv, RowsAreSound, RevokedStaysOut
<1>8. ProgramKnows' /\ HandlerHolds'
  BY <1>3 DEF NodesInv, ProgramKnows, Waits, HandlerHolds
<1>9. AnswerIsOfRequest'
  <2>1. CASE process.request = h
    BY <1>1, <1>2, <1>3, <1>5, <2>1 DEF AnswerIsOfRequest
  <2>2. CASE process.request # h
    BY <1>2, <1>3, <1>4, <1>5, <2>2 DEF NodesInv, AnswerIsOfRequest
  <2> QED
    BY <2>1, <2>2
<1>10. DiskIsNewest'
  <2>1. config # NoConfig => NoneNewer(config.id, config.last)'
    BY <1>1, <1>3, <1>5 DEF NodesInv, DiskIsNewest, NoneNewer, h
  <2>2. Waits({"claim"}) => NoneNewer(process.request.id, process.request.time)'
    BY <1>1, <1>3, <1>5 DEF NodesInv, DiskIsNewest, NoneNewer, Waits, h
  <2> QED
    BY <1>3, <1>4, <1>5, <2>1, <2>2 DEF NodesInv, DiskIsNewest, Waits
<1>11. RequestIsNewest'
  BY <1>3 DEF NodesInv, RequestIsNewest
<1>12. NextIsNew'
  BY <1>1, <1>3, <1>5, NodesTypes DEF NodesInv, NextIsNew, RequestIsNewest, h
<1> QED
  BY <1>6, <1>7, <1>8, <1>9, <1>10, <1>11, <1>12 DEF NodesInv

\* A heartbeat and a rotation accept the request that is held.
LEMMA AcceptancesAreSafe ==
  ASSUME NodesInv, Heartbeat \/ RotateSecret
  PROVE  NodesInv'
<1> DEFINE h == handler
<1>1. /\ h # NoConfig /\ h.id \in Identities /\ h.time \in 0 .. MaxTime + MaxCalls
      /\ node[h.id].state = "paired" /\ node[h.id].secret = h.secret
      /\ h.secret \in 1 .. MaxSecret
  BY NodesTypes DEF Heartbeat, RotateSecret, NodesInv, HandlerHolds, RowsAreSound
<1>2. CASE Heartbeat
  <2>1. /\ node'[h.id] = [node[h.id] EXCEPT !.status = "online", !.last = h.time]
        /\ \A i \in Identities \ {h.id} : node'[i] = node[i]
    BY <1>1, <1>2 DEF Heartbeat, NodesInv, NodesTypeOK
  <2>2. node[h.id] \in [state : {"none", "paired", "revoked"},
                        status : {"none", "online", "revoked"},
                        secret : 0 .. MaxSecret, last : 0 .. MaxTime + MaxCalls]
    BY <1>1 DEF NodesInv, NodesTypeOK
  <2>3. /\ node'[h.id] \in [state : {"none", "paired", "revoked"},
                            status : {"none", "online", "revoked"},
                            secret : 0 .. MaxSecret, last : 0 .. MaxTime + MaxCalls]
        /\ node'[h.id].state = "paired" /\ node'[h.id].last = h.time
        /\ node'[h.id].secret = h.secret
    BY <1>1, <2>1, <2>2
  <2>4. Accepts(h.secret)
    BY <1>1, <1>2, <2>1, <2>3 DEF Heartbeat, Accepts, NodesInv, NodesTypeOK
  <2> QED
    BY <2>4, AcceptsIsSafe
<1>3. CASE RotateSecret
  <2> DEFINE next == node[h.id].secret + 1
  <2>1. next \in 1 .. MaxSecret /\ next \in 0 .. MaxSecret /\ next = h.secret + 1
    BY <1>1, <1>3, NodesTypes DEF RotateSecret
  <2>2. /\ node'[h.id] = [node[h.id] EXCEPT !.secret = next, !.last = h.time]
        /\ \A i \in Identities \ {h.id} : node'[i] = node[i]
    <3>1. node' = [node EXCEPT ![h.id].secret = next, ![h.id].last = h.time]
      BY <1>3 DEF RotateSecret
    <3>2. DOMAIN node = Identities
      BY DEF NodesInv, NodesTypeOK
    <3> HIDE DEF next
    <3> QED
      BY <1>1, <3>1, <3>2
  <2> HIDE DEF next
  <2>3. node[h.id] \in [state : {"none", "paired", "revoked"},
                        status : {"none", "online", "revoked"},
                        secret : 0 .. MaxSecret, last : 0 .. MaxTime + MaxCalls]
    BY <1>1 DEF NodesInv, NodesTypeOK
  <2>4. /\ node'[h.id] \in [state : {"none", "paired", "revoked"},
                            status : {"none", "online", "revoked"},
                            secret : 0 .. MaxSecret, last : 0 .. MaxTime + MaxCalls]
        /\ node'[h.id].state = "paired" /\ node'[h.id].last = h.time
        /\ node'[h.id].secret = next
    <3> HIDE DEF h
    <3>1. h.time \in 0 .. MaxTime + MaxCalls /\ node[h.id].state = "paired"
      BY <1>1
    <3> QED
      BY <2>1, <2>2, <2>3, <3>1
  <2>5. Accepts(next)
    BY <1>1, <1>3, <2>2, <2>1, <2>4 DEF RotateSecret, Accepts, NodesInv, NodesTypeOK
  <2> QED
    BY <2>5, AcceptsIsSafe
<1> QED
  BY <1>2, <1>3

\* A revocation finds the row in nobody's hands.
LEMMA RevokeNodeIsSafe ==
  ASSUME NodesInv, NEW i \in Identities, RevokeNode(i)
  PROVE  NodesInv'
<1>1. /\ node[i].state # "none" /\ (handler # NoConfig => handler.id # i)
      /\ UNCHANGED << code, config, process, wire, answer, handler, sent >>
  BY DEF RevokeNode, RowFree
<1>2. /\ node'[i] = [node[i] EXCEPT !.state = "revoked", !.status = "revoked"]
      /\ \A j \in Identities \ {i} : node'[j] = node[j]
  BY DEF RevokeNode, NodesInv, NodesTypeOK
<1>3. node[i] \in [state : {"none", "paired", "revoked"}, status : {"none", "online", "revoked"},
                   secret : 0 .. MaxSecret, last : 0 .. MaxTime + MaxCalls]
  BY DEF NodesInv, NodesTypeOK
<1>4. /\ node'[i] \in [state : {"none", "paired", "revoked"},
                       status : {"none", "online", "revoked"},
                       secret : 0 .. MaxSecret, last : 0 .. MaxTime + MaxCalls]
      /\ node'[i].state = "revoked" /\ node'[i].status = "revoked"
      /\ node'[i].secret = node[i].secret /\ node'[i].last = node[i].last
  BY <1>2, <1>3
<1>5. \A j \in Identities : /\ node'[j].secret = node[j].secret /\ node'[j].last = node[j].last
                            /\ node'[j].state = "none" <=> node[j].state = "none"
  BY <1>1, <1>2, <1>4
<1>6. /\ config # NoConfig => config.id \in Identities
      /\ handler # NoConfig => handler.id \in Identities
      /\ process.at = "waiting" => process.request.id \in Identities
      /\ process.request \in wire => process.request.id \in Identities
  BY NodesTypes DEF NodesInv, ProgramKnows
<1>7. NodesTypeOK' /\ (sent \in 0 .. MaxCalls)'
  <2>1. node' \in [Identities ->
          [state : {"none", "paired", "revoked"}, status : {"none", "online", "revoked"},
           secret : 0 .. MaxSecret, last : 0 .. MaxTime + MaxCalls]]
    BY <1>2, <1>4 DEF RevokeNode, NodesInv, NodesTypeOK
  <2> QED
    BY <1>1, <1>5, <1>6, <2>1 DEF NodesInv, NodesTypeOK
<1>8. RowsAreSound' /\ RevokedStaysOut'
  <2>1. RowsAreSound'
    BY <1>5 DEF NodesInv, RowsAreSound
  <2>2. RevokedStaysOut'
    BY <1>2, <1>4 DEF NodesInv, RevokedStaysOut
  <2> QED
    BY <2>1, <2>2
<1>9. ProgramKnows' /\ HandlerHolds' /\ AnswerIsOfRequest'
  BY <1>1, <1>2, <1>5, <1>6 DEF NodesInv, ProgramKnows, Waits, HandlerHolds, AnswerIsOfRequest
<1>10. DiskIsNewest'
  BY <1>1, <1>5, <1>6 DEF NodesInv, DiskIsNewest, NoneNewer, Waits
<1>11. RequestIsNewest' /\ NextIsNew'
  BY <1>1, <1>5, <1>6 DEF NodesInv, RequestIsNewest, NextIsNew
<1> QED
  BY <1>7, <1>8, <1>9, <1>10, <1>11 DEF NodesInv

\* Every step of the host and of the server keeps the invariant.
LEMMA NodesSteps ==
  NodesInv /\ [NodesNext]_nodes => NodesInv'
<1> SUFFICES ASSUME NodesInv, [NodesNext]_nodes PROVE NodesInv'
  OBVIOUS
<1>1. CASE UNCHANGED nodes
  <2> USE <1>1 DEF nodes
  <2>1. NodesTypeOK' /\ (sent \in 0 .. MaxCalls)' /\ RowsAreSound' /\ RevokedStaysOut'
    BY DEF NodesInv, NodesTypeOK, RowsAreSound, RevokedStaysOut
  <2>2. ProgramKnows' /\ HandlerHolds' /\ AnswerIsOfRequest'
    BY DEF NodesInv, ProgramKnows, Waits, HandlerHolds, AnswerIsOfRequest
  <2>3. DiskIsNewest' /\ RequestIsNewest' /\ NextIsNew'
    BY DEF NodesInv, DiskIsNewest, NoneNewer, Waits, RequestIsNewest, NextIsNew
  <2> QED
    BY <2>1, <2>2, <2>3 DEF NodesInv
<1>2. CASE NodesNext
  BY <1>2, PairNodeIsSafe, CallIsSafe, StartIsSafe, AnsweredIsSafe, EndsAreSafe, ClaimIsSafe,
     AttestIsSafe, AcceptancesAreSafe, RevokeNodeIsSafe DEF NodesNext
<1> QED
  BY <1>1, <1>2

\* The disk of the host is ahead of the wire and of the server, whatever the
\* clock, the ends of the program and the delays (reserve_timestamp,
\* verify_attested_request).
THEOREM NodesInvariance == NodesSpec => []NodesInv
BY NodesInitially, NodesSteps, PTL DEF NodesSpec

\* Every variable keeps its type, and what is saved on the host is a node that the
\* server has paired, with a secret that it has given out.
THEOREM NodesAreTyped == NodesSpec => []NodesTypeOK
BY NodesInvariance, PTL DEF NodesInv

\* What the program sends is newer than all the server has accepted from its
\* identity (drivebound_node.py:263-264).
THEOREM WhatIsSentIsNew == NodesSpec => []NextIsNew
BY NodesInvariance, PTL DEF NodesInv

\* A revoked node never appears online again (nodes.py:102-166, 206-213).
THEOREM RevokedNodesStayOut == NodesSpec => []RevokedStaysOut
BY NodesInvariance, PTL DEF NodesInv

=============================================================================
