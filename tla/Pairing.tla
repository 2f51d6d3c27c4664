--------------------------------- MODULE Pairing ---------------------------------
(***************************************************************************)
(* The pairing of a remote controller with the backend: the client         *)
(* (PairingAgent) and the bridge (PairingServer) over the calls and the    *)
(* control WebSocket between them.                                         *)
(***************************************************************************)
EXTENDS PairingServer, PairingAgent

vars == <<linkVars, serverVars, agentVars>>

Init == LinkInit /\ ServerInit /\ AgentInit

\* onUpgrade: the token is verified and the socket registered in one turn; the
\* socket it replaces is closed.
Upgrade ==
  /\ running /\ channel # 0 /\ peer # channel
  /\ IF Accepts(channel)
     THEN peer' = channel /\ UNCHANGED channel
     ELSE channel' = 0 /\ UNCHANGED peer
  /\ UNCHANGED <<linkVars, running, agents, revoked, table, unpaired,
                 pairingVars, task, heartbeats, resuming, glance, sourceVars>>

\* The two ends hear of the end of a socket, or the RC that there never was one.
ChannelLost ==
  /\ channel # peer
  /\ channel' = 0 /\ peer' = 0
  /\ UNCHANGED <<linkVars, running, agents, revoked, table, unpaired,
                 pairingVars, task, heartbeats, resuming, glance, sourceVars>>

ServerStep ==
  /\ \/ \E c \in net : Handle(c)
     \/ \E u \in unpairs : Insert(u) \/ InsertFails(u) \/ Revoke(u)
     \/ Crash
     \/ Start
     \/ ExpirePeer
  /\ UNCHANGED agentVars

Executor ==
  \/ StartPair \/ Paired \/ PairFails
  \/ StartUnpair \/ Unpaired \/ UnpairFails
  \/ Beat \/ BeatAccepted \/ BeatRefused \/ BeatFails
  \/ Resume

Sources == Callbacks \/ \E t \in Threads : ThreadStep(t) \/ HandlerFails(t)

AgentStep ==
  /\ \/ Executor
     \/ Sources
     \/ Restart
  /\ UNCHANGED serverVars

Network ==
  /\ GiveUp \/ Lose \/ Tick
  /\ UNCHANGED <<serverVars, agentVars>>

Next == ServerStep \/ AgentStep \/ Network \/ Upgrade \/ ChannelLost

Spec == Init /\ [][Next]_vars

\* The executor and the two threads run.
Fairness ==
  /\ WF_vars(Executor /\ UNCHANGED serverVars)
  /\ \A t \in Threads : WF_vars(ThreadStep(t) /\ UNCHANGED serverVars)

FairSpec == Spec /\ Fairness

-----------------------------------------------------------------------------

\* Once the backend has confirmed that a token is unpaired it never accepts it
\* again, whatever is restarted, repeated or answered late (index.ts 401-422,
\* msdk-token-revocations.ts 30-91).
UnpairIsFinal == running => \A t \in unpaired : ~Accepts(t)

\* What a revoked token has left behind is gone with it: no agent record that it
\* wrote last, and no control socket that it opened.
RevokedLeavesNothing ==
  \A t \in revoked : \A a \in Aircraft : agents[a] # t /\ peer # t

\* The operator is told "disconnected" after an unpairing only when the backend
\* refuses the token that was presented (Fh2BridgeClient.disconnect 203-264).
ClearedIsRefused ==
  [][task = "unpair" /\ status' = "disconnected" /\ left' = left /\ running => ~Accepts(Presented)]_vars

\* Once the snapshots say that everything is connected and the runtime ready, an RC that
\* has restarted with a valid pairing for this aircraft resumes it, whichever of the
\* conditions came true last, on whichever thread, and whatever has failed before.  The
\* snapshots may have lost what is connected to an update of the other thread; the pairing
\* then waits for the next report of it.
Resumable ==
  /\ status = "stored" /\ Valid(stored) /\ ready
  /\ links = Links /\ serial = owner[stored]

ResumesWhenConnected == Resumable ~> ~Resumable

===============================================================================
