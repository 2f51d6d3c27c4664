-------------------------------- MODULE MsdkHub --------------------------------
(***************************************************************************)
(* MsdkControlHub and the WebSocket binding in front of it, for one        *)
(* aircraft.  Every handler is synchronous, so every handler is an action. *)
(*                                                                         *)
(* Whether requireControllableAgent passes (fresh heartbeat, arming, FC3,  *)
(* lease) and whether a timeout has run out is left open: a guard may fail *)
(* and a timer may fire at any time.  There is one holder; a second one is *)
(* refused without a change of state.                                      *)
(***************************************************************************)
EXTENDS MsdkLink

VARIABLES
  peer,     \* the registered socket, or 0
  session,  \* the stored MsdkControlSession: its number and state
  opened    \* history: the socket each session was opened on

hubVars == <<peer, session, opened>>

HubInit ==
  /\ peer = 0
  /\ session = [id |-> 0, state |-> "closed"]
  /\ opened = [x \in Sessions |-> 0]

Open == session.state # "closed"

Signals == <<[type |-> "neutral", sid |-> session.id],
             [type |-> "session_stop", sid |-> session.id]>>

\* closeSession: neutral before session_stop, on the socket that is registered;
\* a failed send does not keep the session from closing.
CloseSession ==
  /\ session' = [session EXCEPT !.state = "closed"]
  /\ down' = IF Open /\ CanSend(peer) THEN [down EXCEPT ![peer] = @ \o Signals] ELSE down

\* A session of the socket that is replaced ends before it is closed.
Replace(s) ==
  /\ CloseSession
  /\ server' = [x \in Sockets |-> IF x = s THEN "open"
                                  ELSE IF x = peer /\ server[x] = "open" THEN "closing"
                                  ELSE server[x]]

\* bindSocket
RegisterPeer(s) ==
  /\ s <= made
  /\ server[s] = "none"
  /\ \/ peer # 0 /\ Replace(s)
     \/ peer = 0 /\ server' = [server EXCEPT ![s] = "open"] /\ UNCHANGED <<session, down>>
  /\ peer' = s
  /\ UNCHANGED <<socket, made, up, opened>>

\* Mutant of Concerns: the close event of any socket unregisters the peer.
ConcernsAny(s) == TRUE

\* A socket that has been replaced has nothing to unregister.
Concerns(s) == peer = s

\* The close or error event of a socket.
UnregisterPeer(s) ==
  /\ server[s] \in {"open", "closing"}
  /\ server' = [server EXCEPT ![s] = "closed"]
  /\ up' = [up EXCEPT ![s] = <<>>]
  /\ IF Concerns(s)
     THEN peer' = 0 /\ session' = [session EXCEPT !.state = "closed"]
     ELSE UNCHANGED <<peer, session>>
  /\ UNCHANGED <<socket, made, down, opened>>

\* expirePeer and disconnectAgent
DropPeer ==
  /\ peer # 0
  /\ CloseSession
  /\ server' = [server EXCEPT ![peer] = IF @ = "open" THEN "closing" ELSE @]
  /\ peer' = 0
  /\ UNCHANGED <<socket, made, up, opened>>

\* The holder of an open session may open the next one without closing it; a
\* failed send leaves the session starting.
OpenSession ==
  /\ peer # 0
  /\ session.id < limit.sessions
  /\ session' = [id |-> session.id + 1, state |-> "starting"]
  /\ opened' = [opened EXCEPT ![session.id + 1] = peer]
  /\ down' = IF CanSend(peer)
             THEN [down EXCEPT ![peer] = Append(@, [type |-> "session_start", sid |-> session'.id])]
             ELSE down
  /\ UNCHANGED <<server, socket, made, up, peer>>

SendStick ==
  /\ session.state = "active"
  /\ CanSend(peer)
  /\ Len(down[peer]) < limit.link
  /\ down' = [down EXCEPT ![peer] = Append(@, [type |-> "stick", sid |-> session.id])]
  /\ UNCHANGED <<server, socket, made, up, hubVars>>

\* The operator's release, or a tick that finds the start timed out, the frames
\* silent or a guard lost.
EndSession ==
  /\ Open
  /\ CloseSession
  /\ UNCHANGED <<server, socket, made, up, peer, opened>>

Matches(m) == m.sid = session.id

Awaited == session.state = "starting"

\* session_ready; without its guards it is refused and the session keeps starting.
Ready(m) ==
  /\ m.type = "session_ready"
  /\ \/ /\ Matches(m) /\ Awaited
        /\ session' = [session EXCEPT !.state = "active"]
     \/ UNCHANGED session
  /\ UNCHANGED down

Rejected(m) ==
  /\ m.type = "session_rejected"
  /\ IF Matches(m) THEN CloseSession ELSE UNCHANGED <<session, down>>

Stopped(m) ==
  /\ m.type = "session_stopped"
  /\ session' = IF Matches(m) THEN [session EXCEPT !.state = "closed"] ELSE session
  /\ UNCHANGED down

\* A message is handled for the aircraft, from whichever of its sockets it comes.
HandleAgentMessage(s) ==
  /\ up[s] # <<>>
  /\ up' = [up EXCEPT ![s] = Tail(@)]
  /\ LET m == Head(up[s])
     IN  \/ peer # 0 /\ (Ready(m) \/ Rejected(m) \/ Stopped(m))
         \/ peer = 0 /\ UNCHANGED <<session, down>>
  /\ UNCHANGED <<server, socket, made, peer, opened>>

HubStep ==
  \/ \E s \in Sockets : RegisterPeer(s) \/ UnregisterPeer(s) \/ HandleAgentMessage(s)
  \/ DropPeer
  \/ OpenSession
  \/ SendStick
  \/ EndSession

===============================================================================
