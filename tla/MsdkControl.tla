------------------------------ MODULE MsdkControl ------------------------------
(***************************************************************************)
(* The MSDK control path: the hub in the backend and the agent on the      *)
(* remote controller, joined by their WebSockets.                          *)
(***************************************************************************)
EXTENDS MsdkHub, MsdkAgent

msdkVars == <<linkVars, limit, hubVars, agentVars>>

MsdkInit == LinkInit /\ HubInit /\ AgentInit

Network == \E s \in Sockets : Cut(s)

MsdkNext ==
  \/ HubStep /\ UNCHANGED <<agentVars, limit>>
  \/ AgentStep /\ UNCHANGED <<hubVars, limit>>
  \/ Network /\ UNCHANGED <<hubVars, agentVars, limit>>

\* The agent's main thread, its timers and the SDK go on; nothing is assumed of
\* the network, the hub, the pilot and the operator, none of whose steps changes what
\* the agent has.
MsdkFairness ==
  /\ WF_agentVars(RunMain)
  /\ WF_agentVars(RunWatchdog)
  /\ WF_agentVars(Elapse)
  /\ WF_agentVars(SdkStep)

MsdkSpec == MsdkInit /\ [][MsdkNext]_msdkVars /\ MsdkFairness

-------------------------------------------------------------------------------
(* Properties *)

\* The session and the agent belong together, however late the messages and the close
\* event of a replaced socket come: an open session is on the socket it was opened on,
\* it is active only if the agent has announced it, and the hub does not forget the
\* socket that is open (msdk-control.ts 79-115, 269-294).
SessionMeetsAgent ==
  /\ Open => peer = opened[session.id] /\ peer # 0
  /\ session.state = "active" => session.id \in announced
  /\ \A s \in Sockets : server[s] = "open" => peer = s

\* The sticks leave neutral only under a control session, and so under the local
\* dead-man.
MovedUnderDeadMan == stick # 0 => running # 0

\* Once the hub has closed its session the agent's control session ends as well, even
\* when every signal is lost: the agent is not in control for ever while the hub has no
\* session open.
ClosedEndsControl == []<>(running = 0 \/ Open)

===============================================================================
