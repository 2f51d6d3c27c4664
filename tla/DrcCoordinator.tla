----------------------------- MODULE DrcCoordinator -----------------------------
(***************************************************************************)
(* The control coordinator over several gateways: starts, stops and         *)
(* recoveries that overlap, the one MQTT transport and the one heartbeat    *)
(* they share, the flight authority and the guards.  A call that awaits     *)
(* something goes on when it has come; what follows without an await is     *)
(* done before the next event (Running).                                    *)
(***************************************************************************)
EXTENDS DrcBroker

CONSTANTS Holders, None, Slots

ASSUME CoordinatorAssumption ==
  Holders # {} /\ None \notin Gateways \cup Holders \cup Slots /\ Slots \cap Gateways = {}

VARIABLES
  rec,        \* the stored session record of each gateway
  sids,       \* sessions requested so far
  watched,    \* gateways with an armed watchdog
  beat,       \* the gateway the heartbeat timer serves, or None
  gen,        \* generation of the transport
  client,     \* generation of its current client, or 0
  up,         \* it is connected
  calls,      \* calls under way: of the coordinator in Slots, a watchdog's under its gateway
  queue,      \* frames in the controller's exclusive queue
  wire,       \* frames the broker has not decided upon
  runtime,    \* the holder the coordinator has started each gateway for
  fc3, lease, \* RuntimeControlGuardRegistry
  pair,       \* the products of the aircraft and of its gateway, from the topology
  authority,  \* gateways whose flight authority the registry holds granted
  stale,      \* history: a suspended call has overwritten a record it had not read
  stopped,    \* history: gateways stopped, authority released, and not started since
  reached     \* history: frames that have reached each gateway

sessionVars == <<rec, sids, watched, beat, queue, runtime, stale, stopped>>
transportVars == <<gen, client, up>>
guardVars == <<fc3, lease, pair, authority>>
coordinatorVars == <<sessionVars, transportVars, guardVars, calls, wire, reached>>

\* getDjiCloudControlProfile: what the cloud may control of a pair of products.
Pairs == {"mavic3e", "matrice4", "other"} \X {"rcPro", "rcPlus2", "other"}

Profile(p) ==
  [cloud   |-> p \in {<<"mavic3e", "rcPro">>, <<"matrice4", "rcPlus2">>},
   stick   |-> p = <<"matrice4", "rcPlus2">>,
   drone   |-> p = <<"matrice4", "rcPlus2">>,
   payload |-> p = <<"mavic3e", "rcPro">>]

Capable(g) == Profile(pair[g]).cloud /\ (Profile(pair[g]).stick \/ Profile(pair[g]).drone)

InControl == {"controlling", "degraded"}
AcceptsInput == {"drc_mode_active"} \cup InControl
Entered == {"authority_grabbed"} \cup AcceptsInput
SetUp == {"requesting", "authorized"}
Open(g) == rec[g].state \notin {"idle", "closed"}

\* A call remembers, as history, that the lease has come back to its operator since.
Idle == [op |-> "none", at |-> "idle"]
Call(op, g, by, sid, at) ==
  [op |-> op, g |-> g, by |-> by, sid |-> sid, at |-> at, failed |-> FALSE, gen |-> 0, back |-> FALSE]

CoordinatorInit ==
  /\ rec = [g \in Gateways |-> [sid |-> 0, state |-> "idle", conn |-> FALSE, holder |-> None]]
  /\ sids = 0 /\ watched = {} /\ beat = None
  /\ gen = 0 /\ client = 0 /\ up = FALSE
  /\ calls = [c \in Slots \cup Gateways |-> Idle]
  /\ queue = <<>> /\ wire = <<>>
  /\ runtime = [g \in Gateways |-> None]
  /\ fc3 = Gateways /\ lease = [g \in Gateways |-> CHOOSE h \in Holders : TRUE]
  /\ pair = [g \in Gateways |-> <<"matrice4", "rcPlus2">>] /\ authority = {}
  /\ stale = FALSE /\ stopped = {} /\ reached = [g \in Gateways |-> 0]

RequestGuards(g, h) == g \in fc3 /\ lease[g] = h /\ Capable(g)
AllGuards(g, h) == RequestGuards(g, h) /\ g \in authority

\* Mutant of Active: the session itself is not consulted.
ActiveByGuards(g) == AllGuards(g, rec[g].holder)

\* isDrcGatewayActive
Active(g) == rec[g].conn /\ rec[g].state \in InControl /\ AllGuards(g, rec[g].holder)

Goes(c, at) == calls' = [calls EXCEPT ![c].at = at]
Ends(c) == calls' = [calls EXCEPT ![c] = Idle]

\* What a call still does without waiting for anything.
Running(c) == calls[c].at \in {"granted", "refuse", "dial", "open", "linked", "close", "hangup"}
Settled == \A c \in Slots \cup Gateways : ~Running(c)

-----------------------------------------------------------------------------
(* Starting *)

\* Mutant of NoOtherSession: other gateways are not looked at.
AnySession(g) == TRUE

NoOtherSession(g) == \A o \in Gateways \ {g} : ~Open(o)

Start(c, g, h) ==
  /\ calls[c] = Idle /\ Spend("calls")
  /\ NoOtherSession(g)
  /\ RequestGuards(g, h) /\ g \notin authority /\ ~Open(g)
  /\ sids' = sids + 1
  /\ rec' = [rec EXCEPT ![g] = [sid |-> sids + 1, state |-> "requesting", conn |-> FALSE, holder |-> h]]
  /\ calls' = [calls EXCEPT ![c] = Call("start", g, h, sids + 1, "consent")]
  /\ stopped' = stopped \ {g}
  /\ UNCHANGED <<watched, beat, queue, runtime, stale, transportVars, guardVars, wire, reached>>

\* The pilot's answer, its timeout, or the end of the request without it: for all
\* starts that wait for this gateway's one request.
Consent(g, ok, granted) ==
  LET waiting == {c \in Slots : calls[c].at = "consent" /\ calls[c].g = g}
  IN  /\ waiting # {}
      /\ ok => granted
      /\ authority' = IF granted THEN authority \cup {g} ELSE authority \ {g}
      /\ calls' = [c \in DOMAIN calls |->
                     IF c \in waiting THEN [calls[c] EXCEPT !.at = IF ok THEN "granted" ELSE "refuse"]
                     ELSE calls[c]]
      /\ UNCHANGED <<sessionVars, transportVars, fc3, lease, pair, wire, reached, left>>

Expected(g, from) == rec[g].state = from

Granted(c) ==
  /\ calls[c].at = "granted"
  /\ LET g == calls[c].g
         ok == Expected(g, "requesting") /\ AllGuards(g, calls[c].by)
     IN  /\ rec' = IF Expected(g, "requesting")
                   THEN [rec EXCEPT ![g].state = IF ok THEN "authority_grabbed" ELSE "authorized"]
                   ELSE rec
         /\ Goes(c, IF ok THEN "enter" ELSE "refuse")
  /\ UNCHANGED <<sids, watched, beat, queue, runtime, stale, stopped, transportVars, guardVars, wire, reached, left>>

\* The reply to drc_mode_enter, or its timeout.
Enter(c, ok) ==
  /\ calls[c].at = "enter"
  /\ LET g == calls[c].g
         entered == ok /\ Expected(g, "authority_grabbed")
     IN  /\ rec' = IF entered THEN [rec EXCEPT ![g].state = "drc_mode_active"] ELSE rec
         /\ Goes(c, IF entered THEN "dial" ELSE IF ok THEN "close" ELSE "refuse")
  /\ UNCHANGED <<sids, watched, beat, queue, runtime, stale, stopped, transportVars, guardVars, wire, reached, left>>

\* Mutant of FinalGuards: the guards are not read again.
NoFinalGuards(c) == TRUE

FinalGuards(c) == AllGuards(calls[c].g, calls[c].by)

\* setTransportConnected and activate; or the end of a recovery.
Linked(c) ==
  /\ calls[c].at = "linked"
  /\ LET g == calls[c].g
         start == calls[c].op = "start"
         recovers == ~rec[g].conn /\ rec[g].state \in InControl
         active == start /\ rec[g].state = "drc_mode_active" /\ FinalGuards(c)
     IN  /\ rec' = [rec EXCEPT ![g].conn = TRUE]
         /\ watched' = IF recovers THEN watched \cup {g} ELSE watched
         /\ beat' = IF recovers \/ active THEN g ELSE beat
         /\ runtime' = IF active THEN [runtime EXCEPT ![g] = calls[c].by] ELSE runtime
         /\ IF start /\ ~active THEN Goes(c, "close") ELSE Ends(c)
  /\ UNCHANGED <<sids, queue, stale, stopped, transportVars, guardVars, wire, reached, left>>

\* recoverTransport, with a fresh drc_status of 2 and credentials that still hold.
Recover(c, g) ==
  /\ calls[c] = Idle /\ Spend("calls")
  /\ runtime[g] # None /\ AllGuards(g, runtime[g])
  /\ calls' = [calls EXCEPT ![c] = Call("recover", g, runtime[g], 0, "dial")]
  /\ UNCHANGED <<sessionVars, transportVars, guardVars, wire, reached>>

-----------------------------------------------------------------------------
(* The transport *)

\* disconnect: a new generation, and no listener is left on the old client, so a
\* connect that waits for it waits for ever.
Disconnect(c, wait, on) ==
  /\ client' = 0 /\ up' = FALSE /\ gen' = gen + 1
  /\ calls' = [d \in DOMAIN calls |->
                 CASE d = c -> [calls[d] EXCEPT !.at = IF client = 0 THEN on ELSE wait]
                   [] d # c /\ calls[d].at = "connect" /\ calls[d].gen = client /\ client # 0
                        -> [calls[d] EXCEPT !.at = "hung"]
                   [] OTHER -> calls[d]]
  /\ UNCHANGED <<sessionVars, guardVars, wire, reached, left>>

Dial(c) == calls[c].at = "dial" /\ Disconnect(c, "ending", "open")
Hangup(c) == calls[c].at = "hangup" /\ Disconnect(c, "parting", "release")

\* The old client has ended.
Ended(c) ==
  /\ calls[c].at \in {"ending", "parting"}
  /\ Goes(c, IF calls[c].at = "ending" THEN "open" ELSE "release")
  /\ UNCHANGED <<sessionVars, transportVars, guardVars, wire, reached, left>>

\* connect goes on: the new client is the current one, whichever that is by now.
OpenClient(c) ==
  /\ calls[c].at = "open"
  /\ gen' = gen + 1 /\ client' = gen + 1
  /\ calls' = [calls EXCEPT ![c].at = "connect", ![c].gen = gen + 1]
  /\ UNCHANGED <<sessionVars, up, guardVars, wire, reached, left>>

ConnectFailed(c) == IF calls[c].op = "start" THEN Goes(c, "close") ELSE Ends(c)

\* A client connects, of the current generation or superseded; or it fails.
Connected(c) ==
  /\ calls[c].at = "connect"
  /\ IF calls[c].gen = gen THEN up' = TRUE /\ Goes(c, "linked") ELSE UNCHANGED up /\ ConnectFailed(c)
  /\ UNCHANGED <<sessionVars, gen, client, guardVars, wire, reached, left>>

ConnectFails(c) ==
  /\ calls[c].at = "connect" /\ Spend("faults")
  /\ IF calls[c].gen = gen THEN up' = FALSE /\ client' = 0 ELSE UNCHANGED <<up, client>>
  /\ ConnectFailed(c)
  /\ UNCHANGED <<sessionVars, gen, guardVars, wire, reached>>

\* markAllDrcTransportsLost
LostSessions ==
  /\ rec' = [g \in Gateways |-> IF Open(g) THEN [rec[g] EXCEPT !.conn = FALSE] ELSE rec[g]]
  /\ watched' = {g \in watched : ~Open(g)}
  /\ beat' = IF \E g \in Gateways : Open(g) THEN None ELSE beat

\* close or offline of the current client.
Lost ==
  /\ up /\ Spend("faults")
  /\ up' = FALSE
  /\ LostSessions
  /\ \E n \in 0 .. Len(wire) : wire' = SubSeq(wire, 1, n)
  /\ UNCHANGED <<sids, queue, runtime, stale, stopped, gen, client, guardVars, calls, reached>>

-----------------------------------------------------------------------------
(* Closing *)

ForceClosed(g) ==
  /\ rec' = [rec EXCEPT ![g].state = "closed", ![g].conn = FALSE]
  /\ watched' = watched \ {g}
  /\ beat' = None

\* The failed start had not entered DRC mode: forceClose, of whatever session the
\* gateway has by now.
Refuse(c) ==
  /\ calls[c].at = "refuse"
  /\ ForceClosed(calls[c].g)
  /\ Goes(c, "hangup")
  /\ UNCHANGED <<sids, queue, runtime, stale, stopped, transportVars, guardVars, wire, reached, left>>

\* The coordinator disconnects and releases after a close, the watchdog does not.
CloseDone(c) == IF calls[c].op = "tick" THEN Ends(c) ELSE Goes(c, "hangup")

\* closeGracefully up to its first await.
Close(c) ==
  /\ calls[c].at = "close"
  /\ LET g == calls[c].g
         neutral == rec[g].conn /\ rec[g].state \in InControl
     IN  \/ /\ rec[g].state \notin Entered \cup SetUp
            /\ CloseDone(c) /\ UNCHANGED <<rec, watched, beat, queue>>
         \/ /\ rec[g].state \in SetUp
            /\ ForceClosed(g) /\ CloseDone(c) /\ UNCHANGED queue
         \/ /\ rec[g].state \in Entered
            /\ rec' = [rec EXCEPT ![g].state = "draining"]
            /\ watched' = watched \ {g}
            /\ beat' = IF neutral THEN beat ELSE None
            /\ queue' = IF neutral THEN Append(queue, [g |-> g, call |-> c, snap |-> rec'[g]]) ELSE queue
            /\ calls' = [calls EXCEPT ![c].at = IF neutral THEN "neutral" ELSE "exit", ![c].sid = rec[g].sid]
  /\ UNCHANGED <<sids, runtime, stale, stopped, transportVars, guardVars, wire, reached, left>>

\* The reply to drc_mode_exit, or its timeout: the call persists the closed form of
\* the draining record it read (whose holder nobody asks for any more).
Exit(c, ok) ==
  /\ calls[c].at = "exit"
  /\ LET g == calls[c].g
         forced == calls[c].op = "tick" /\ (calls[c].failed \/ ~ok)
     IN  /\ rec' = [rec EXCEPT ![g].sid = calls[c].sid, ![g].state = "closed", ![g].conn = FALSE]
         /\ watched' = IF forced THEN watched \ {g} ELSE watched
         /\ beat' = IF forced THEN None ELSE beat
         /\ stale' = (stale \/ rec[g].sid # calls[c].sid \/ rec[g].state \notin {"draining", "closed"})
  /\ CloseDone(c)
  /\ UNCHANGED <<sids, queue, runtime, stopped, transportVars, guardVars, wire, reached, left>>

\* The reply to cloud_control_release, or its timeout.
Release(c, ok) ==
  /\ calls[c].at = "release"
  /\ LET g == calls[c].g
     IN  /\ authority' = IF ok THEN authority \ {g} ELSE authority
         /\ stopped' = IF ok /\ calls[c].op = "stop" /\ rec[g].sid = calls[c].sid
                       THEN stopped \cup {g} ELSE stopped
  /\ Ends(c)
  /\ UNCHANGED <<rec, sids, watched, beat, queue, runtime, stale, transportVars, fc3, lease, pair, wire, reached, left>>

Stop(c, g) ==
  /\ calls[c] = Idle /\ Spend("calls")
  /\ runtime' = [runtime EXCEPT ![g] = None]
  /\ calls' = [calls EXCEPT ![c] = Call("stop", g, None, rec[g].sid, "close")]
  /\ UNCHANGED <<rec, sids, watched, beat, queue, stale, stopped, transportVars, guardVars, wire, reached>>

\* Mutant of Silent: a session whose transport is down is not watched.
SilentWhileUp(g) == g \in watched /\ rec[g].state \in InControl /\ up

\* The watchdog finds that there has been no input for closeAfterMs.
Silent(g) == g \in watched /\ rec[g].state \in InControl

Tick(g) ==
  /\ calls[g] = Idle
  /\ Silent(g)
  /\ calls' = [calls EXCEPT ![g] = Call("tick", g, None, 0, "close")]
  /\ UNCHANGED <<sessionVars, transportVars, guardVars, wire, reached, left>>

-----------------------------------------------------------------------------
(* Input, heartbeat and guards *)

\* sendStick or sendDroneControl up to its await.
Send(g, h) ==
  /\ Spend("sends")
  /\ AllGuards(g, h) /\ rec[g].state \in AcceptsInput /\ rec[g].conn
  /\ queue' = Append(queue, [g |-> g, call |-> None, snap |-> rec[g]])
  /\ UNCHANGED <<rec, sids, watched, beat, runtime, stale, stopped, transportVars, guardVars, calls, wire, reached>>

\* The first frame in the queue is published, or rejected without a connection.
Publish ==
  /\ queue # <<>>
  /\ queue' = Tail(queue)
  /\ LET f == Head(queue)
     IN  /\ wire' = IF up THEN Append(wire, f.g) ELSE wire
         /\ \/ /\ f.call # None
               /\ calls' = [calls EXCEPT ![f.call].at = "exit", ![f.call].failed = ~up]
               /\ beat' = None
               /\ UNCHANGED <<rec, watched, stale>>
            \/ /\ f.call = None /\ up
               /\ rec' = [rec EXCEPT ![f.g] = [f.snap EXCEPT !.state = "controlling"]]
               /\ watched' = IF f.snap.state = "drc_mode_active" THEN watched \cup {f.g} ELSE watched
               /\ stale' = (stale \/ rec[f.g].sid # f.snap.sid \/ ~rec[f.g].conn
                                  \/ rec[f.g].state \notin AcceptsInput)
               /\ UNCHANGED <<calls, beat>>
            \/ f.call = None /\ ~up /\ UNCHANGED <<rec, watched, stale, calls, beat>>
  /\ UNCHANGED <<sids, runtime, stopped, transportVars, guardVars, reached, left>>

\* publishHeartbeat: a heartbeat that cannot be published stops the timer.
BeatFails ==
  /\ beat # None /\ ~up
  /\ beat' = None
  /\ UNCHANGED <<rec, sids, watched, queue, runtime, stale, stopped, transportVars, guardVars, calls, wire, reached, left>>

\* Leases end and are given; FC3 is switched, a topology update names another
\* aircraft, and state frames or late answers of a gateway change its authority.
LeaseChanges ==
  /\ Spend("leases")
  /\ \E g \in Gateways, h \in Holders \cup {None} :
       /\ (lease[g] = None) # (h = None)
       /\ lease' = [lease EXCEPT ![g] = h]
       /\ calls' = [c \in DOMAIN calls |->
                      IF calls[c].op = "start" /\ calls[c].g = g /\ calls[c].by = h
                      THEN [calls[c] EXCEPT !.back = TRUE] ELSE calls[c]]
  /\ UNCHANGED <<fc3, pair, authority, sessionVars, transportVars, wire, reached>>

GuardsChange ==
  /\ Spend("guards")
  /\ \E g \in Gateways :
       \/ fc3' = (IF g \in fc3 THEN fc3 \ {g} ELSE fc3 \cup {g}) /\ UNCHANGED <<pair, authority>>
       \/ (\E p \in Pairs : p[1] # pair[g][1] /\ p[2] = pair[g][2] /\ pair' = [pair EXCEPT ![g] = p]) /\ UNCHANGED <<fc3, authority>>
       \/ /\ \A c \in Slots : calls[c].at = "consent" => calls[c].g # g
          /\ authority' = (IF g \in authority THEN authority \ {g} ELSE authority \cup {g})
          /\ UNCHANGED <<fc3, pair>>
  /\ UNCHANGED <<lease, sessionVars, transportVars, calls, wire, reached>>

===============================================================================
