------------------------------ MODULE PairingServer ------------------------------
(***************************************************************************)
(* The backend's end of the pairing: MsdkBridgeService, the revocation     *)
(* store with its table, the three routes of the control API and the       *)
(* control WebSocket that an agent token opens.                            *)
(*                                                                         *)
(* A token is a signed statement of the backend, so it outlives a restart; *)
(* the agent records and the set of revoked tokens are process memory, and *)
(* only the table of revocations is not.                                   *)
(***************************************************************************)
EXTENDS PairingLink

VARIABLES
  running,  \* the backend is up
  agents,   \* aircraft -> the token that wrote its record last; 0 = no record
  revoked,  \* revokedUntil: tokens refused in memory
  table,    \* msdk_token_revocations
  peer,     \* the token of the registered control socket, or 0
  unpaired  \* history: tokens whose unpairing the backend has confirmed

serverVars == <<running, agents, revoked, table, peer, unpaired>>

ServerInit ==
  /\ running = TRUE
  /\ agents = [a \in Aircraft |-> 0]
  /\ revoked = {} /\ table = {}
  /\ peer = 0
  /\ unpaired = {}

\* verify
Accepts(t) == t \in Issued /\ ~Expired(t) /\ t \notin revoked

\* isMsdkBridgeSnapshot: both serial numbers must be there.
WellFormed(snapshot) == snapshot.sn # NoSn

\* isFreshSnapshot and snapshotIdentity
Identifies(snapshot) == snapshot.linked /\ now - snapshot.at <= MaxAge

\* MsdkBridgeService.heartbeat
HeartbeatAccepted(c) ==
  Accepts(c.token) /\ Identifies(c.body) /\ owner[c.token] = c.body.sn

\* POST /api/msdk/pair: a new token, whatever tokens are still valid.
Pair(c) ==
  /\ c.kind = "pair"
  /\ IF WellFormed(c.body) /\ Identifies(c.body)
     THEN \E t \in Tokens \ Issued :
            /\ \A other \in Tokens \ Issued : t <= other
            /\ exp' = [exp EXCEPT ![t] = now + Ttl]
            /\ owner' = [owner EXCEPT ![t] = c.body.sn]
            /\ agents' = [agents EXCEPT ![c.body.sn] = t]
            /\ Answer(c.id, "ok")
     ELSE /\ Answer(c.id, IF WellFormed(c.body) THEN "unauthorized" ELSE "invalid")
          /\ UNCHANGED <<exp, owner, agents>>
  /\ UNCHANGED <<unpairs, peer, revoked, unpaired>>

\* POST /api/msdk/heartbeat
Heartbeat(c) ==
  /\ c.kind = "heartbeat"
  /\ IF WellFormed(c.body) /\ HeartbeatAccepted(c)
     THEN agents' = [agents EXCEPT ![c.body.sn] = c.token] /\ Answer(c.id, "ok")
     ELSE /\ Answer(c.id, IF WellFormed(c.body) THEN "unauthorized" ELSE "invalid")
          /\ UNCHANGED agents
  /\ UNCHANGED <<exp, owner, unpairs, peer, revoked, unpaired>>

\* POST /api/msdk/unpair, up to the insert it awaits
Unpair(c) ==
  /\ c.kind = "unpair"
  /\ IF Accepts(c.token)
     THEN unpairs' = unpairs \cup {[id |-> c.id, token |-> c.token, stored |-> FALSE]} /\ UNCHANGED reply
     ELSE Answer(c.id, "unauthorized") /\ UNCHANGED unpairs
  /\ UNCHANGED <<exp, owner, agents, peer, revoked, unpaired>>

Handle(c) ==
  /\ running /\ c \in net
  /\ net' = net \ {c}
  /\ Pair(c) \/ Heartbeat(c) \/ Unpair(c)
  /\ UNCHANGED <<now, waiting, running, table, left>>

\* INSERT ... ON CONFLICT DO UPDATE
Store(t) == table' = table \cup {t}

Insert(u) ==
  /\ running /\ u \in unpairs /\ ~u.stored
  /\ Store(u.token)
  /\ unpairs' = (unpairs \ {u}) \cup {[u EXCEPT !.stored = TRUE]}
  /\ UNCHANGED <<now, exp, owner, net, waiting, reply, left, running, agents, revoked, peer, unpaired>>

\* The database fails: the row may have been written before the error.
InsertFails(u) ==
  /\ running /\ u \in unpairs /\ Spend("backend")
  /\ unpairs' = unpairs \ {u}
  /\ Answer(u.id, "failed")
  /\ UNCHANGED <<now, exp, owner, net, waiting, running, agents, revoked, table, peer, unpaired>>

\* Mutant of Forget: the record is left to the next heartbeat.
ForgetNothing(a) == UNCHANGED <<agents, peer>>

\* unpairAgent and disconnectAgent
Forget(a) ==
  /\ agents' = [agents EXCEPT ![a] = 0]
  /\ peer' = IF peer # 0 /\ owner[peer] = a THEN 0 ELSE peer

\* The rest of the unpair handler, after the await.
Revoke(u) ==
  /\ running /\ u \in unpairs /\ u.stored
  /\ revoked' = revoked \cup {u.token}
  /\ Forget(owner[u.token])
  /\ unpairs' = unpairs \ {u}
  /\ Answer(u.id, "ok")
  /\ unpaired' = unpaired \cup {u.token}
  /\ UNCHANGED <<now, exp, owner, net, waiting, running, table, left>>

\* The process dies with its memory; the calls it was handling are not answered.
Crash ==
  /\ running /\ Spend("backend")
  /\ running' = FALSE
  /\ unpairs' = {}
  /\ agents' = [a \in Aircraft |-> 0]
  /\ revoked' = {}
  /\ peer' = 0
  /\ UNCHANGED <<now, exp, owner, net, waiting, reply, table, unpaired>>

\* Mutant of Loaded: the table is only cleaned, not read.
LoadedNothing == {}

\* initialize: expired rows are deleted, the others are read.
Loaded == {t \in table : ~Expired(t)}

\* The top-level awaits of index.ts, before the servers listen.
Start ==
  /\ ~running
  /\ running' = TRUE
  /\ table' = {t \in table : ~Expired(t)}
  /\ revoked' = Loaded
  /\ UNCHANGED <<linkVars, agents, peer, unpaired>>

\* MsdkControlHub.tick: the token behind a control socket has expired.
ExpirePeer ==
  /\ running
  /\ peer # 0 /\ Expired(peer)
  /\ peer' = 0
  /\ UNCHANGED <<linkVars, running, agents, revoked, table, unpaired>>

===============================================================================
