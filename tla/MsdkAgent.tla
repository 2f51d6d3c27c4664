------------------------------- MODULE MsdkAgent -------------------------------
(***************************************************************************)
(* The agent on the remote controller: MsdkControlClient,                  *)
(* RemoteControlSession and VirtualStickController.                        *)
(*                                                                         *)
(* Four threads share its state: a reader thread for each socket, the main *)
(* thread with its queue of posted runnables, the SDK's callback thread,   *)
(* and the thread that connects and disconnects.  What a handler does      *)
(* between two reads or writes of shared state that another thread can     *)
(* tell apart is a step of its own: a reader checks that its socket is the *)
(* current one, handles the message, and posts.                            *)
(*                                                                         *)
(* `silence' is the age of the last frame: 1 is past degradeAfterMs, 2     *)
(* past closeAfterMs.                                                      *)
(***************************************************************************)
EXTENDS MsdkLink

VARIABLES
  sid,      \* sessionId, or 0
  armed,    \* NetworkControlArm
  reader,   \* per socket: what its reader thread is about to do
  main,     \* runnables posted to the main thread
  sdk,      \* enable and disable requests the SDK has not finished
  polling,  \* sessions for which waitForMsdkAuthority is scheduled
  passed,   \* the session waitForMsdkAuthority has let through, or 0
  running,  \* controlSession: the session it was started for, or 0 when inactive
  silence,
  stick,    \* the session whose frame positions the sticks, or 0 when neutral
  virtual,  \* virtual stick is enabled and the SDK owns the authority
  announced \* history: sessions a session_ready was sent for

agentVars == <<sid, armed, reader, main, sdk, polling, passed, running, silence, stick, virtual,
               announced>>

Idle      == [do |-> "idle"]
Stop      == [do |-> "stop"]
Disable   == [do |-> "disable"]
Do(what, x) == [do |-> what, sid |-> x]

AgentInit ==
  /\ sid = 0
  /\ armed \in BOOLEAN
  /\ reader = [s \in Sockets |-> Idle]
  /\ main = <<>>
  /\ sdk = <<>>
  /\ polling = {}
  /\ passed = 0
  /\ running = 0
  /\ silence = 0
  /\ stick = 0
  /\ virtual = FALSE
  /\ announced = {}

\* A further disable behind a disable changes nothing.
Disabling == IF sdk # <<>> /\ sdk[Len(sdk)] = Disable THEN sdk ELSE Append(sdk, Disable)

\* Likewise for the posted stop.
Stopping(queue) ==
  IF queue # <<>> /\ queue[Len(queue)] = Stop THEN queue ELSE Append(queue, Stop)

Farewell(notify) == IF notify /\ sid # 0 THEN UpAfter("session_stopped", sid) ELSE up

\* Stop the control session, tell the server, forget the session.
FailClosed(queue, notify) ==
  /\ main' = Stopping(queue)
  /\ up' = Farewell(notify)
  /\ sid' = 0

\* rejectSession and clearSession, whichever session is stored.
RejectAndClear(x) ==
  /\ up' = UpAfter("session_rejected", x)
  /\ main' = Stopping(main)
  /\ sid' = 0

-------------------------------------------------------------------------------
(* Connecting *)

\* connect: the old session and the old socket go first.
Connect ==
  /\ made < limit.sockets
  /\ FailClosed(main, TRUE)
  /\ made' = made + 1
  /\ socket' = made'
  /\ UNCHANGED <<server, down, armed, reader, sdk, polling, passed, running, silence, stick,
                 virtual, announced>>

Disconnect ==
  /\ socket # 0
  /\ FailClosed(main, TRUE)
  /\ socket' = 0
  /\ UNCHANGED <<server, made, down, armed, reader, sdk, polling, passed, running, silence,
                 stick, virtual, announced>>

\* onClosed and onFailure, also of a socket the server refused.
SocketLost ==
  /\ socket # 0
  /\ server[socket] # "open"
  /\ FailClosed(main, FALSE)
  /\ socket' = 0
  /\ UNCHANGED <<server, made, down, armed, reader, sdk, polling, passed, running, silence,
                 stick, virtual, announced>>

Disarm ==
  /\ armed
  /\ armed' = FALSE
  /\ FailClosed(main, TRUE)
  /\ UNCHANGED <<server, socket, made, down, reader, sdk, polling, passed, running, silence, stick,
                 virtual, announced>>

Arm ==
  /\ ~armed
  /\ armed' = TRUE
  /\ UNCHANGED <<linkVars, sid, reader, main, sdk, polling, passed, running, silence, stick,
                 virtual, announced>>

-------------------------------------------------------------------------------
(* The reader threads *)

\* onMessage: a message on the current socket is taken, any other dropped.
Receive(s) ==
  /\ reader[s] = Idle
  /\ down[s] # <<>>
  /\ down' = [down EXCEPT ![s] = Tail(@)]
  /\ reader' = [reader EXCEPT ![s] =
                  IF socket = s THEN Do(Head(down[s]).type, Head(down[s]).sid) ELSE Idle]
  /\ UNCHANGED <<server, socket, made, up, sid, armed, main, sdk, polling, passed, running,
                 silence, stick, virtual, announced>>

\* What is left to do is posting to the main thread.
ThenPost(s, r) ==
  /\ reader' = [reader EXCEPT ![s] = r]
  /\ UNCHANGED main

\* handleSessionStart: the checks, and then what an admitted session stores.
HandleStart(s, x) ==
  /\ \/ /\ armed /\ sid = 0 /\ running = 0
        /\ ThenPost(s, Do("admit", x))
        /\ UNCHANGED up
     \/ \* not armed, no virtual stick, or session_busy
        /\ up' = UpAfter("session_rejected", x)
        /\ ThenPost(s, Idle)
  /\ UNCHANGED sid

Admit(s, x) ==
  /\ sid' = x
  /\ ThenPost(s, Do("enable", x))
  /\ UNCHANGED up

ForSession(x) == sid = x

HandleStick(s, x) ==
  \/ /\ ForSession(x) /\ ~armed
     /\ FailClosed(main, TRUE)
     /\ reader' = [reader EXCEPT ![s] = Idle]
  \/ /\ ForSession(x) /\ armed
     /\ ThenPost(s, Do("accept", x))
     /\ UNCHANGED <<up, sid>>
  \/ \* a mismatch, a stale sequence number, or an expired frame
     /\ ThenPost(s, Idle)
     /\ UNCHANGED <<up, sid>>

HandleNeutral(s, x) ==
  /\ ThenPost(s, IF ForSession(x) THEN Do("neutralise", x) ELSE Idle)
  /\ UNCHANGED <<up, sid>>

HandleStop(s, x) ==
  \/ ForSession(x) /\ FailClosed(main, TRUE) /\ reader' = [reader EXCEPT ![s] = Idle]
  \/ ~ForSession(x) /\ ThenPost(s, Idle) /\ UNCHANGED <<up, sid>>

Handle(s) ==
  /\ \/ reader[s].do = "session_start" /\ HandleStart(s, reader[s].sid)
     \/ reader[s].do = "admit"         /\ Admit(s, reader[s].sid)
     \/ reader[s].do = "stick"         /\ HandleStick(s, reader[s].sid)
     \/ reader[s].do = "neutral"       /\ HandleNeutral(s, reader[s].sid)
     \/ reader[s].do = "session_stop"  /\ HandleStop(s, reader[s].sid)
  /\ UNCHANGED <<server, socket, made, down, armed, sdk, polling, passed, running, silence, stick,
                 virtual, announced>>

\* mainHandler.post
PostToMain(s) ==
  /\ reader[s].do \in {"enable", "accept", "neutralise"}
  /\ Len(main) < limit.posted
  /\ main' = Append(main, reader[s])
  /\ reader' = [reader EXCEPT ![s] = Idle]
  /\ UNCHANGED <<linkVars, sid, armed, sdk, polling, passed, running, silence, stick, virtual, announced>>

-------------------------------------------------------------------------------
(* The main thread *)

\* The runnable of failClosed, handleSessionStop and clearSession: the control
\* session stops, the sticks go to neutral, the virtual stick is given back.
RunStop ==
  /\ Head(main) = Stop
  /\ main' = Tail(main)
  /\ running' = 0
  /\ stick' = 0
  /\ sdk' = Disabling
  /\ UNCHANGED <<up, sid, silence>>

RunEnable ==
  /\ Head(main).do = "enable"
  /\ main' = Tail(main)
  /\ sdk' = Append(sdk, Head(main))
  /\ UNCHANGED <<up, sid, running, silence, stick>>

RunNeutral ==
  /\ Head(main).do = "neutralise"
  /\ main' = Tail(main)
  /\ stick' = 0
  /\ UNCHANGED <<up, sid, sdk, running, silence>>

\* Mutant of Accepts: an inactive control session still moves the sticks.
AcceptsInactive == virtual

\* controlSession.accept and sendNormalized
Accepts == running # 0 /\ virtual

RunAccept ==
  /\ Head(main).do = "accept"
  /\ \/ /\ Accepts
        /\ main' = Tail(main)
        /\ stick' = Head(main).sid
        /\ silence' = 0
        /\ UNCHANGED <<up, sid>>
     \/ /\ ~Accepts
        /\ FailClosed(Tail(main), TRUE)
        /\ UNCHANGED <<stick, silence>>
  /\ UNCHANGED <<sdk, running>>

RunMain ==
  /\ main # <<>>
  /\ RunStop \/ RunEnable \/ RunNeutral \/ RunAccept
  /\ UNCHANGED <<server, socket, made, down, armed, reader, polling, passed, virtual,
                 announced>>

\* Mutant of Watchdog: it is not scheduled again after its first check.
WatchdogOnce ==
  /\ silence = 0
  /\ UNCHANGED <<up, sid, main, sdk, running, stick>>

\* The local dead-man: neutral after degradeAfterMs, the end after closeAfterMs.
Watchdog ==
  \/ /\ silence = 1
     /\ stick' = 0
     /\ UNCHANGED <<up, sid, main, sdk, running>>
  \/ /\ silence = 2
     /\ stick' = 0
     /\ running' = 0
     /\ sdk' = Disabling
     /\ FailClosed(main, TRUE)

RunWatchdog ==
  /\ running # 0
  /\ Watchdog
  /\ UNCHANGED <<server, socket, made, down, armed, reader, polling, passed, silence, virtual,
                 announced>>

Elapse ==
  /\ running # 0
  /\ silence < 2
  /\ silence' = silence + 1
  /\ UNCHANGED <<linkVars, sid, armed, reader, main, sdk, polling, passed, running, stick,
                 virtual, announced>>

-------------------------------------------------------------------------------
(* The SDK and its callbacks *)

\* onSuccess or onFailure of disable
SdkDisables ==
  /\ Head(sdk) = Disable
  /\ virtual' \in {FALSE, virtual}
  /\ UNCHANGED <<up, sid, main, polling>>

SdkEnables ==
  /\ Head(sdk).do = "enable"
  /\ virtual' = TRUE
  /\ polling' = polling \cup {Head(sdk).sid}
  /\ UNCHANGED <<up, sid, main>>

EnableFails ==
  /\ Head(sdk).do = "enable"
  /\ RejectAndClear(Head(sdk).sid)
  /\ UNCHANGED <<polling, virtual>>

SdkStep ==
  /\ sdk # <<>>
  /\ SdkDisables \/ SdkEnables \/ EnableFails
  /\ sdk' = Tail(sdk)
  /\ UNCHANGED <<server, socket, made, down, armed, reader, passed, running, silence, stick,
                 announced>>

\* The pilot takes the authority back.
AuthorityLost ==
  /\ virtual
  /\ virtual' = FALSE
  /\ UNCHANGED <<linkVars, sid, armed, reader, main, sdk, polling, passed, running, silence,
                 stick, announced>>

\* waitForMsdkAuthority up to the start of the control session.
Poll(x) ==
  /\ x \in polling
  /\ passed = 0
  /\ \/ sid # x /\ UNCHANGED <<up, main, sid, passed>>
     \/ sid = x /\ armed /\ virtual /\ passed' = x /\ UNCHANGED <<up, main, sid>>
     \/ \* disarmed, or past the deadline
        sid = x /\ ~(armed /\ virtual) /\ RejectAndClear(x) /\ UNCHANGED passed
  /\ polling' = polling \ {x}
  /\ UNCHANGED <<server, socket, made, down, armed, reader, sdk, running, silence, stick, virtual, announced>>

\* controlSession.start and session_ready
Start ==
  /\ passed # 0
  /\ passed' = 0
  /\ \/ /\ virtual
        /\ running' = passed
        /\ silence' = 0
        /\ up' = UpAfter("session_ready", passed)
        /\ announced' = announced \cup {passed}
        /\ UNCHANGED <<sid, main>>
     \/ /\ ~virtual
        /\ RejectAndClear(passed)
        /\ UNCHANGED <<running, silence, announced>>
  /\ UNCHANGED <<server, socket, made, down, armed, reader, sdk, polling, stick, virtual>>

AgentStep ==
  \/ Connect \/ Disconnect \/ SocketLost \/ Disarm \/ Arm
  \/ \E s \in Sockets : Receive(s) \/ Handle(s) \/ PostToMain(s)
  \/ RunMain \/ RunWatchdog \/ Elapse
  \/ SdkStep \/ AuthorityLost
  \/ \E x \in Sessions : Poll(x)
  \/ Start

===============================================================================
