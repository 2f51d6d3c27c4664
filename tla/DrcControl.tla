------------------------------- MODULE DrcControl -------------------------------
(***************************************************************************)
(* Direct remote control end to end: the coordinator's calls and the shared *)
(* transport (DrcCoordinator) with the broker, whose decisions the backend  *)
(* takes from the sessions as they are when it is asked (DrcBroker).        *)
(***************************************************************************)
EXTENDS DrcCoordinator

vars == <<brokerVars, coordinatorVars>>

Init == BrokerInit /\ CoordinatorInit

Continue(c) ==
  /\ Granted(c) \/ Linked(c) \/ Dial(c) \/ OpenClient(c) \/ Refuse(c) \/ Close(c) \/ Hangup(c)
  /\ UNCHANGED <<clientVars, auditVars>>

Settles(c) ==
  \/ \E ok \in BOOLEAN : Enter(c, ok) \/ Exit(c, ok) \/ Release(c, ok)
  \/ Ended(c) \/ Connected(c) \/ ConnectFails(c)

Asked ==
  \/ \E c \in Slots, g \in Gateways : (\E h \in Holders : Start(c, g, h)) \/ Stop(c, g) \/ Recover(c, g)
  \/ \E g \in Gateways, h \in Holders : Send(g, h)

Event ==
  /\ Settled
  /\ \/ Asked
     \/ \E g \in Gateways, ok, granted \in BOOLEAN : Consent(g, ok, granted)
     \/ \E c \in DOMAIN calls : Settles(c)
     \/ \E g \in Gateways : Tick(g)
     \/ Lost \/ Publish \/ BeatFails \/ LeaseChanges \/ GuardsChange
  /\ UNCHANGED <<clientVars, auditVars>>

\* The broker asks whether the backend may publish the next frame, and hands it to
\* the gateway that is subscribed.
Deliver ==
  /\ Settled /\ wire # <<>>
  /\ LET g == Head(wire)
         down == [sn |-> g, craft |-> FALSE, suffix |-> "drc/down"]
         result == Decision([user |-> "backend", publish |-> TRUE, topic |-> down], Active(g))
     IN  /\ Audit(result, down)
         /\ reached' = IF result = "allow" /\ g \in subscribed THEN [reached EXCEPT ![g] = @ + 1] ELSE reached
  /\ wire' = Tail(wire)
  /\ UNCHANGED <<sessionVars, transportVars, guardVars, calls, clientVars, left>>

Subscription(g) == [user |-> g, publish |-> FALSE, topic |-> [sn |-> g, craft |-> FALSE, suffix |-> "drc/down"]]

\* A gateway subscribes to its drc/down.
Subscribe(g) ==
  /\ Settled /\ g \notin subscribed
  /\ Ask(Subscription(g), Active(g))
  /\ IF database THEN Spend("asks") ELSE UNCHANGED left
  /\ UNCHANGED coordinatorVars

\* Any other question of the broker.
AskOther ==
  /\ Settled /\ Spend("asks")
  /\ \E r \in Requests : Ask(r, Active(r.topic.sn))
  /\ UNCHANGED coordinatorVars

Broker == Settled /\ BrokerStep /\ UNCHANGED coordinatorVars

Next ==
  \/ \E c \in DOMAIN calls : Continue(c)
  \/ Event
  \/ Deliver
  \/ \E g \in Gateways : Subscribe(g)
  \/ AskOther
  \/ Broker

Spec == Init /\ [][Next]_vars

\* The process goes on with what it need not wait for, and the watchdog of a session
\* that can get no input because the transport is down keeps firing.
Fairness ==
  /\ \A c \in Slots \cup Gateways : WF_vars(Continue(c))
  /\ \A g \in Gateways : WF_vars(~up /\ Settled /\ Tick(g) /\ UNCHANGED <<clientVars, auditVars>>)

FairSpec == Spec /\ Fairness

-----------------------------------------------------------------------------

\* There is one transport and one heartbeat, so there is one open session at a time,
\* however starts, stops and watchdogs overlap: until a suspended call has
\* overwritten a record it had not read (control-coordinator.ts 56-79).
OneSession == ~stale => Cardinality({g \in Gateways : Open(g)}) <= 1

\* A start that succeeds has activated a session of its own operator, also when the
\* session it requested is gone and the gateway has a newer one: session records are
\* not told apart, but the guards are read again (control-coordinator.ts 97-99).  They
\* cannot tell when the lease has gone to another operator and come back meanwhile.
HolderActivates ==
  [][\A c \in Slots :
       calls[c].op = "start" /\ calls[c].at = "linked" /\ calls'[c] = Idle /\ ~calls[c].back
         => rec[calls[c].g].holder = calls[c].by]_vars

\* After a stop whose release was acknowledged no frame reaches the gateway before it
\* is started again, whatever was still queued or on the wire, and whatever comes of
\* the guards: until a suspended call has overwritten a record it had not read.
NothingAfterStop == [][~stale => \A g \in stopped : reached'[g] = reached[g]]_vars

\* A session that was cut off when another call took the transport away ends, or gets
\* the transport back, or is marked disconnected.
CutOff(g) == ~stale /\ ~up /\ rec[g].conn /\ rec[g].state \in InControl

CutOffEnds == \A g \in Gateways : CutOff(g) ~> ~CutOff(g)

\* Every audit record to be kept is stored, waiting, being written, or counted as
\* dropped, and the buffer stays within its capacity.
AuditAccounted ==
  /\ Len(buffer) <= Capacity
  /\ asked = Cardinality(stored) + Len(buffer) + Len(flying) + dropped

===============================================================================
