-------------------------------- MODULE MsdkLink --------------------------------
(***************************************************************************)
(* The WebSockets between the backend's MSDK control hub and the agent on  *)
(* the remote controller.  Each side has its own view of a socket: the hub *)
(* knows what it may still send on, the agent which socket is its current  *)
(* one.  A socket delivers in order until it is cut; each side hears of    *)
(* the end of a socket in its own time.                                    *)
(***************************************************************************)
EXTENDS Naturals, Sequences

CONSTANTS
  MaxSockets,   \* bound: sockets in a behaviour
  MaxSessions,  \* bound: control sessions in a behaviour
  Limits        \* the bounds a behaviour may run under

ASSUME LinkAssumption ==
  /\ MaxSockets \in Nat \ {0}
  /\ MaxSessions \in Nat \ {0}
  /\ Limits \subseteq [sockets: 1 .. MaxSockets, sessions: 1 .. MaxSessions, link: Nat, posted: Nat]

Sockets  == 1 .. MaxSockets
Sessions == 1 .. MaxSessions

VARIABLES
  server,  \* the hub's end: "none", "open", "closing" (no more sends) or "closed"
  socket,  \* the agent's current socket, or 0
  made,    \* sockets the agent has made so far
  down,    \* messages on their way to the agent
  up,      \* messages on their way to the hub
  limit    \* the bounds of this behaviour: its sockets and sessions, the messages on
           \* their way in one direction, the runnables waiting when a reader posts

linkVars == <<server, socket, made, down, up>>

LinkInit ==
  /\ limit \in Limits
  /\ server = [s \in Sockets |-> "none"]
  /\ socket = 0
  /\ made = 0
  /\ down = [s \in Sockets |-> <<>>]
  /\ up = [s \in Sockets |-> <<>>]

\* peer.send refuses a socket that is not open.
CanSend(s) == s # 0 /\ server[s] = "open"

\* The agent's send is lost unless its socket still reaches the hub.
UpAfter(type, sid) ==
  IF socket # 0 /\ server[socket] \in {"open", "closing"}
  THEN [up EXCEPT ![socket] = Append(@, [type |-> type, sid |-> sid])]
  ELSE up

\* The network fails: whatever is on its way is lost.
Cut(s) ==
  /\ server[s] \in {"open", "closing"}
  /\ server' = [server EXCEPT ![s] = "closing"]
  /\ down' = [down EXCEPT ![s] = <<>>]
  /\ up' = [up EXCEPT ![s] = <<>>]
  /\ UNCHANGED <<socket, made>>

===============================================================================
