----------------------------- MODULE PairedNodes -----------------------------
(***************************************************************************)
(* Storage nodes: the node program of one host                             *)
(* (tools/drivebound_node.py) and the server that pairs it, hears it and   *)
(* rotates its secret (api/v1/nodes.py, services/node_attestation.py).     *)
(*                                                                         *)
(* An identity is a key pair; secrets are numbered from 1 in the order an  *)
(* identity gets them.  The program sends one request at a time and gives  *)
(* up after 20 seconds, but its request may still be on its way then.      *)
(* Signatures hold, so a message is a record.  The clock of the host is    *)
(* any number: it may be set back.  The window of acceptable timestamps    *)
(* and every other reason to refuse a request is the choice of Refuse.     *)
(***************************************************************************)
EXTENDS Integers, FiniteSets

CONSTANTS
  Identities,   \* key pairs the host generates
  PairCodes,    \* pairing codes a user asks for
  NoConfig,     \* no node.json, no request
  MaxTime,      \* bound: the clock of the host
  MaxCalls,     \* bound: requests the program sends
  MaxSecret     \* bound: secrets of an identity

Configs ==
  [id : Identities, secret : 1 .. MaxSecret, last : 0 .. MaxTime + MaxCalls]

Requested ==
  [kind : {"claim", "heartbeat", "rotate"}, id : Identities,
   secret : 0 .. MaxSecret, time : 0 .. MaxTime + MaxCalls,
   code : PairCodes \cup {NoConfig}]

ASSUME NodesAssumption ==
  /\ {MaxTime, MaxCalls, MaxSecret} \subseteq Nat
  /\ MaxSecret # 0
  /\ NoConfig \notin Identities \cup Configs \cup Requested

VARIABLES
  code,     \* NodePairingCode rows
  node,     \* PairedNode rows, by identity
  config,   \* node.json on the host's disk
  process,  \* the node program
  wire,     \* requests on their way to the server
  answer,   \* the answer on its way to the program
  handler,  \* the request whose row the server holds
  sent      \* requests sent so far

nodes == <<code, node, config, process, wire, answer, handler, sent>>

Stopped == [at |-> "stopped", config |-> NoConfig, request |-> NoConfig]

NodesInit ==
  /\ code = [c \in PairCodes |-> "none"]
  /\ node = [i \in Identities |->
               [state |-> "none", status |-> "none", secret |-> 0, last |-> 0]]
  /\ config = NoConfig
  /\ process = Stopped
  /\ wire = {}
  /\ answer = NoConfig
  /\ handler = NoConfig
  /\ sent = 0

----------------------------------------------------------------------------
(* The program on the host                                                 *)

Send(m, c) ==
  /\ sent < MaxCalls
  /\ sent' = sent + 1
  /\ wire' = wire \cup {m}
  /\ process' = [at |-> "waiting", config |-> c, request |-> m]
  /\ answer' = NoConfig

\* pair_node: nothing is saved before the server has answered.
PairNode(i, c, t) ==
  /\ process = Stopped
  /\ node[i].state = "none" /\ \A m \in wire : m.id # i
  /\ code[c] # "none"
  /\ Send([kind |-> "claim", id |-> i, secret |-> 0, time |-> t, code |-> c],
          NoConfig)
  /\ UNCHANGED <<code, node, config, handler>>

\* read_config.
Start ==
  /\ process = Stopped
  /\ config # NoConfig
  /\ process' = [at |-> "idle", config |-> config, request |-> NoConfig]
  /\ UNCHANGED <<code, node, config, wire, answer, handler, sent>>

\* Mutant: the timestamp is kept in memory.
ReservedInMemory(c) == config
\* reserve_timestamp: the timestamp is on disk before the request is sent.
Reserved(c) == c

Call(kind, clock) ==
  LET c == process.config
      t == IF clock > c.last THEN clock ELSE c.last + 1
      reserved == [c EXCEPT !.last = t] IN
  /\ process.at = "idle"
  /\ config' = Reserved(reserved)
  /\ Send([kind |-> kind, id |-> c.id, secret |-> c.secret, time |-> t,
           code |-> NoConfig], reserved)
  /\ UNCHANGED <<code, node, handler>>

\* The answer of a claim or of a rotation is a secret, which is saved.
Answered ==
  LET m == process.request
      c == IF m.kind = "claim"
           THEN [id |-> m.id, secret |-> answer.secret, last |-> m.time]
           ELSE IF m.kind = "rotate"
           THEN [process.config EXCEPT !.secret = answer.secret]
           ELSE process.config IN
  /\ process.at = "waiting"
  /\ answer # NoConfig
  /\ process' = [at |-> "idle", config |-> c, request |-> NoConfig]
  /\ config' = IF m.kind = "heartbeat" THEN config ELSE c
  /\ answer' = NoConfig
  /\ UNCHANGED <<code, node, wire, handler, sent>>

\* An HTTP error, a timeout or a kill ends the program; what it has sent may
\* still arrive.
ProgramEnds ==
  /\ process # Stopped
  /\ process' = Stopped
  /\ answer' = NoConfig
  /\ UNCHANGED <<code, node, config, wire, handler, sent>>

----------------------------------------------------------------------------
(* The server                                                              *)

CreateCode(c) ==
  /\ code[c] = "none"
  /\ code' = [code EXCEPT ![c] = "open"]
  /\ UNCHANGED <<node, config, process, wire, answer, handler, sent>>

\* The answer reaches the program only if it still waits for it.
Answers(m, secret) ==
  answer' = IF process.request = m THEN [secret |-> secret] ELSE answer

\* claim_node, under the lock of the code's row.
Claim(m) ==
  /\ m \in wire
  /\ m.kind = "claim"
  /\ code[m.code] = "open"
  /\ node[m.id].state = "none"
  /\ code' = [code EXCEPT ![m.code] = "claimed"]
  /\ node' = [node EXCEPT ![m.id] =
       [state |-> "paired", status |-> "online", secret |-> 1, last |-> m.time]]
  /\ wire' = wire \ {m}
  /\ Answers(m, 1)
  /\ UNCHANGED <<config, process, handler, sent>>

\* verify_attested_request.
Attested(m) ==
  /\ node[m.id].state = "paired"
  /\ node[m.id].secret = m.secret
  /\ m.time > node[m.id].last

\* node_from_secret with the row's lock, and the checks.
Attest(m) ==
  /\ m \in wire
  /\ m.kind # "claim"
  /\ handler = NoConfig
  /\ Attested(m)
  /\ handler' = m
  /\ wire' = wire \ {m}
  /\ UNCHANGED <<code, node, config, process, answer, sent>>

Heartbeat ==
  /\ handler # NoConfig
  /\ handler.kind = "heartbeat"
  /\ node' = [node EXCEPT ![handler.id].status = "online",
                          ![handler.id].last = handler.time]
  /\ Answers(handler, handler.secret)
  /\ handler' = NoConfig
  /\ UNCHANGED <<code, config, process, wire, sent>>

RotateSecret ==
  /\ handler # NoConfig
  /\ handler.kind = "rotate"
  /\ handler.secret < MaxSecret
  /\ node' = [node EXCEPT ![handler.id].secret = @ + 1,
                          ![handler.id].last = handler.time]
  /\ Answers(handler, handler.secret + 1)
  /\ handler' = NoConfig
  /\ UNCHANGED <<code, config, process, wire, sent>>

\* A request is refused, by any of its checks, or lost.
RefuseRequest(m) ==
  /\ m \in wire
  /\ wire' = wire \ {m}
  /\ process' = IF process.request = m THEN Stopped ELSE process
  /\ UNCHANGED <<code, node, config, answer, handler, sent>>

\* Mutant: the row is not locked.
NobodyHolds(i) == TRUE
\* revoke_node updates the row, and waits for whoever holds it.
RowFree(i) == handler # NoConfig => handler.id # i

RevokeNode(i) ==
  /\ node[i].state # "none"
  /\ RowFree(i)
  /\ node' = [node EXCEPT ![i].state = "revoked", ![i].status = "revoked"]
  /\ UNCHANGED <<code, config, process, wire, answer, handler, sent>>

NodesNext ==
  \/ \E i \in Identities, c \in PairCodes, t \in 0 .. MaxTime : PairNode(i, c, t)
  \/ \E kind \in {"heartbeat", "rotate"}, t \in 0 .. MaxTime : Call(kind, t)
  \/ Start \/ Answered \/ ProgramEnds
  \/ \E c \in PairCodes : CreateCode(c)
  \/ \E m \in wire : Claim(m) \/ Attest(m) \/ RefuseRequest(m)
  \/ Heartbeat \/ RotateSecret
  \/ \E i \in Identities : RevokeNode(i)

NodesSpec == NodesInit /\ [][NodesNext]_nodes

----------------------------------------------------------------------------
\* Types; what is saved on the host is a node the server has paired, and no
\* secret the server has not given out (drivebound_node.py:213-333).
NodesTypeOK ==
  /\ code \in [PairCodes -> {"none", "open", "claimed"}]
  /\ node \in [Identities ->
       [state : {"none", "paired", "revoked"}, status : {"none", "online", "revoked"},
        secret : 0 .. MaxSecret, last : 0 .. MaxTime + MaxCalls]]
  /\ config \in Configs \cup {NoConfig}
  /\ process.at \in {"stopped", "idle", "waiting"}
  /\ process.config \in Configs \cup {NoConfig}
  /\ process.request \in Requested \cup {NoConfig}
  /\ wire \subseteq Requested
  /\ answer \in [secret : 1 .. MaxSecret] \cup {NoConfig}
  /\ handler \in Requested \cup {NoConfig}
  /\ config # NoConfig => config.secret <= node[config.id].secret

\* "If the response is lost, the next signature still cannot replay a timestamp
\* the server may already have accepted" (drivebound_node.py:263-264): however
\* the clock moves, and wherever the program ended before, what it sends is newer
\* than all the server has accepted from this identity.
NextIsNew ==
  process.request \in wire /\ process.request.kind # "claim"
    => process.request.time > node[process.request.id].last

\* A revoked node never appears online again, not by a heartbeat that was being
\* accepted at that moment (nodes.py:102-166, 206-213).
RevokedStaysOut ==
  \A i \in Identities : node[i].state = "revoked" => node[i].status = "revoked"
=============================================================================
