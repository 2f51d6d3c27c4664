-------------------------------- MODULE DrcBroker --------------------------------
(***************************************************************************)
(* What the backend tells the MQTT broker: who a client is (authn.ts), what *)
(* it may publish and subscribe (authz.ts), and the audit of every answer   *)
(* (authz-audit.ts): a ring buffer that is written to the database in       *)
(* batches.  Whether a gateway's DRC session is active is the caller's      *)
(* business; it is passed in.                                               *)
(***************************************************************************)
EXTENDS Naturals, Sequences, FiniteSets

CONSTANTS
  Gateways,   \* serial numbers of gateways, each with one aircraft behind it
  Capacity,   \* audit records the ring buffer keeps
  BatchSize,  \* audit records one insert writes
  Budgets     \* bound: how much of each kind may happen in one behaviour together

Kinds == {"calls", "sends", "faults", "guards", "leases", "asks"}

ASSUME BrokerAssumption ==
  Capacity \in Nat \ {0} /\ BatchSize \in Nat \ {0} /\ Budgets \subseteq [Kinds -> Nat]

VARIABLES
  enabled,     \* gateways whose credential is enabled
  attached,    \* gateways whose client the broker has authenticated
  subscribed,  \* gateways subscribed to their drc/down
  database,    \* the audit has a database
  asked,       \* audit records to be kept so far; they are numbered
  buffer,      \* the ring buffer
  flying,      \* the batch that is being written
  stored,      \* records in the database
  dropped,     \* droppedFromDatabaseBuffer
  left         \* what this behaviour may still see

clientVars == <<enabled, attached, subscribed>>
auditVars == <<database, asked, buffer, flying, stored, dropped>>
brokerVars == <<clientVars, auditVars, left>>

Spend(kind) == left[kind] > 0 /\ left' = [left EXCEPT ![kind] = @ - 1]

BrokerInit ==
  /\ enabled = Gateways /\ attached = Gateways /\ subscribed = {}
  /\ left \in Budgets
  /\ database = (left.asks > 0)
  /\ asked = 0 /\ buffer = <<>> /\ flying = <<>> /\ stored = {} /\ dropped = 0

-----------------------------------------------------------------------------
(* Authorisation *)

\* A topic is a suffix under a gateway, or under the aircraft behind it.
Topics == [sn: Gateways, craft: BOOLEAN,
           suffix: {"drc/up", "drc/down", "osd", "services", "events_reply"}]
Requests == [user: Gateways \cup {"backend", "webui"}, publish: BOOLEAN, topic: Topics]

OwnPublish == {"osd"}
OwnSubscribe == {"services", "events_reply"}

\* isActiveBinding: asked for every decision, not only when the client connects.
PrincipalActive(g) == g \in enabled

\* evaluateDjiGatewayAuthorization: its own topics, the telemetry of the aircraft
\* behind it, and the DRC topics while its session is active.
GatewayMay(g, publish, topic, active) ==
  /\ PrincipalActive(g)
  /\ topic.sn = g
  /\ IF topic.craft THEN publish /\ topic.suffix \in OwnPublish
     ELSE \/ topic.suffix = (IF publish THEN "drc/up" ELSE "drc/down") /\ active
          \/ topic.suffix \in (IF publish THEN OwnPublish ELSE OwnSubscribe)

\* evaluateBackendDrc: the other direction; "ignore" leaves it to the file ACL.  The
\* topology knows every gateway of the model.
Backend(publish, topic, active) ==
  IF topic.craft \/ topic.suffix # (IF publish THEN "drc/down" ELSE "drc/up") THEN "ignore"
  ELSE IF active THEN "allow" ELSE "deny"

WebUi(publish, topic) == IF ~publish /\ topic.suffix = "osd" THEN "ignore" ELSE "deny"

Decision(r, active) ==
  CASE r.user = "backend" -> Backend(r.publish, r.topic, active)
    [] r.user = "webui"   -> WebUi(r.publish, r.topic)
    [] OTHER -> IF GatewayMay(r.user, r.publish, r.topic, active) THEN "allow" ELSE "deny"

-----------------------------------------------------------------------------
(* The audit *)

\* shouldPersistAuthzRecord
Persisted(result, topic) == result # "allow" \/ topic.suffix \in {"drc/up", "drc/down", "services"}

\* enqueue: a full ring buffer loses its oldest record, and counts it.
Audit(result, topic) ==
  IF database /\ Persisted(result, topic)
  THEN LET full == Len(buffer) >= Capacity
       IN  /\ asked' = asked + 1
           /\ buffer' = Append(IF full THEN Tail(buffer) ELSE buffer, asked + 1)
           /\ dropped' = IF full THEN dropped + 1 ELSE dropped
           /\ UNCHANGED <<database, flying, stored>>
  ELSE UNCHANGED auditVars

\* flush, one batch at a time: by the interval or because a batch is full.
Flush ==
  /\ buffer # <<>> /\ flying = <<>>
  /\ LET n == IF Len(buffer) < BatchSize THEN Len(buffer) ELSE BatchSize
     IN  flying' = SubSeq(buffer, 1, n) /\ buffer' = SubSeq(buffer, n + 1, Len(buffer))
  /\ UNCHANGED <<clientVars, database, asked, stored, dropped, left>>

Flushed ==
  /\ flying # <<>>
  /\ stored' = stored \cup {flying[i] : i \in DOMAIN flying}
  /\ flying' = <<>>
  /\ UNCHANGED <<clientVars, database, asked, buffer, dropped, left>>

\* Mutant of Restored: the whole batch is given up.
NothingRestored(free) == <<>>

\* Of a batch that could not be written the newest records go back to the front,
\* as many as the buffer has room for by now.
Restored(free) ==
  LET n == Len(flying) IN SubSeq(flying, IF n > free THEN n - free + 1 ELSE 1, n)

FlushFails ==
  /\ flying # <<>>
  /\ Spend("faults")
  /\ LET free == IF Len(buffer) < Capacity THEN Capacity - Len(buffer) ELSE 0
         lost == IF Len(flying) > free THEN Len(flying) - free ELSE 0
     IN  buffer' = Restored(free) \o buffer /\ dropped' = dropped + lost
  /\ flying' = <<>>
  /\ UNCHANGED <<clientVars, database, asked, stored>>

-----------------------------------------------------------------------------
(* Clients *)

\* authenticateEmqx: the credential of the gateway is looked up, and its password
\* compared; a gateway has the right one.
Authenticated(g) == g \in enabled

Attach(g) ==
  /\ g \notin attached /\ Authenticated(g)
  /\ attached' = attached \cup {g}
  /\ UNCHANGED <<enabled, subscribed, auditVars, left>>

\* The client goes, its subscriptions with it; or its credential is disabled.
Detach(g) ==
  /\ g \in attached
  /\ Spend("faults")
  /\ attached' = attached \ {g}
  /\ subscribed' = subscribed \ {g}
  /\ UNCHANGED <<enabled, auditVars>>

Disable(g) ==
  /\ g \in enabled
  /\ Spend("faults")
  /\ enabled' = enabled \ {g}
  /\ UNCHANGED <<attached, subscribed, auditVars>>

\* The broker asks; a gateway that may is subscribed to its drc/down.
Ask(r, active) ==
  /\ r.user \in Gateways => r.user \in attached
  /\ LET result == Decision(r, active)
         down == [sn |-> r.user, craft |-> FALSE, suffix |-> "drc/down"]
     IN  /\ Audit(result, r.topic)
         /\ subscribed' = IF result = "allow" /\ ~r.publish /\ r.topic = down
                          THEN subscribed \cup {r.user} ELSE subscribed
  /\ UNCHANGED <<enabled, attached>>

BrokerStep ==
  \/ Flush \/ Flushed \/ FlushFails
  \/ \E g \in Gateways : Attach(g) \/ Detach(g) \/ Disable(g)

===============================================================================
