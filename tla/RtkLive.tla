-------------------------------- MODULE RtkLive --------------------------------
(***************************************************************************)
(* The RTK state of the aircraft, from the backend to the console.         *)
(* RtkTelemetryService keeps the last status and the fix of each aircraft  *)
(* in memory; an event stream (SSE) sends a snapshot when it is opened and *)
(* every change after that.  The hook useRtkLive keeps a copy, a history   *)
(* and the alerts for as long as its page is mounted.                      *)
(*                                                                         *)
(* A stream delivers in order until it is cut.  The browser opens it again *)
(* unless the proxy answered for a backend that is down: then it gives up. *)
(* Ages are left out: both sides derive them from the clock.               *)
(***************************************************************************)
EXTENDS Budget

CONSTANTS
  Aircraft,
  RtkMissions,     \* missions an aircraft may fly
  NoMission,
  MaxTransitions,  \* how many the backend keeps (200)
  MaxShown,        \* how many alerts the console keeps (20)
  MaxHistory       \* how many samples of an aircraft it keeps (120)

ASSUME RtkAssumption ==
  /\ NoMission \notin RtkMissions
  /\ {MaxTransitions, MaxShown, MaxHistory} \subseteq Nat \ {0}

VARIABLES
  flies,    \* missions.getActive of each aircraft
  clock,    \* the time of the last frame
  service,  \* RtkTelemetryService, or Down
  stream,   \* the browser's EventSource: "none", "connecting", "open" or "failed"
  wire,     \* what the backend wrote and the browser has not handled
  view      \* the state of useRtkLive

rtkVars == <<flies, clock, service, stream, wire, view>>

Down == [up |-> FALSE, subscribed |-> FALSE, latest |-> <<>>, fixed |-> <<>>, transitions |-> <<>>]
NoView == [devices |-> <<>>, history |-> <<>>, alerts |-> <<>>, connected |-> FALSE]

RtkInit ==
  /\ flies = [d \in Aircraft |-> NoMission]
  /\ clock = 0
  /\ service = [Down EXCEPT !.up = TRUE]
  /\ stream = "none" /\ wire = <<>> /\ view = NoView

\* Map.set and a property of an object: f with d mapped to e.
With(f, d, e) == [x \in DOMAIN f \cup {d} |-> IF x = d THEN e ELSE f[x]]

Newest(s, n) == IF Len(s) > n THEN SubSeq(s, Len(s) - n + 1, Len(s)) ELSE s
Oldest(s, n) == IF Len(s) > n THEN SubSeq(s, 1, n) ELSE s

-----------------------------------------------------------------------------
(* The backend *)

\* RtkFixMonitor.observe: a first observation is no transition.
FixChanges(d, fix) ==
  /\ fix # "unknown"
  /\ d \in DOMAIN service.fixed /\ service.fixed[d] # fix

\* publish
Write(messages) == wire' = IF service.subscribed THEN wire \o messages ELSE wire

\* parseDjiRtkStatus: what isFixed says, or "unknown"; a frame without evidence of RTK
\* is not looked at.
Fixes == {"fixed", "not_fixed", "unknown"}

\* observe
RtkObserved(d, fix) ==
  /\ service.up /\ Spend("rtk")
  /\ clock' \in {clock, clock + 1}
  /\ LET status     == [at |-> clock', fix |-> fix]
         transition == [of |-> d, at |-> clock', to |-> fix]
     IN /\ service' = [service EXCEPT
             !.latest = With(@, d, status),
             !.fixed = IF fix = "unknown" THEN @ ELSE With(@, d, fix),
             !.transitions = IF FixChanges(d, fix) THEN Newest(Append(@, transition), MaxTransitions) ELSE @]
        /\ Write(<<[type |-> "status", of |-> d, mission |-> flies[d], status |-> status]>>
                 \o IF FixChanges(d, fix) THEN <<[type |-> "transition", alert |-> transition]>> ELSE <<>>)
  /\ UNCHANGED <<flies, stream, view>>

\* list, with the missions of this moment
RtkList ==
  [d \in DOMAIN service.latest |->
     [at |-> service.latest[d].at, fix |-> service.latest[d].fix, mission |-> flies[d]]]

\* openEventStream: the snapshot and the subscription are one step.
StreamOpens ==
  /\ stream = "connecting" /\ service.up
  /\ stream' = "open"
  /\ service' = [service EXCEPT !.subscribed = TRUE]
  /\ wire' = <<[type |-> "open"], [type |-> "snapshot", list |-> RtkList]>>
  /\ UNCHANGED <<flies, clock, view, left>>

Flies(d, m) ==
  /\ flies[d] # m /\ Spend("rtk")
  /\ flies' = [flies EXCEPT ![d] = m]
  /\ UNCHANGED <<clock, service, stream, wire, view>>

\* The service keeps everything in memory.
ServiceStops ==
  /\ service.up /\ Spend("rtk")
  /\ service' = Down
  /\ UNCHANGED <<flies, clock, stream, wire, view>>

ServiceStarts ==
  /\ ~service.up
  /\ service' = [Down EXCEPT !.up = TRUE]
  /\ UNCHANGED <<flies, clock, stream, wire, view, left>>

-----------------------------------------------------------------------------
(* The browser *)

\* The effect of the hook; whoever mounts the page pays for it.
MountRtk ==
  /\ stream = "none"
  /\ stream' = "connecting"
  /\ UNCHANGED <<flies, clock, service, wire, view>>

\* The effect's cleanup closes the stream; the state goes with the component.
UnmountRtk ==
  /\ stream # "none"
  /\ stream' = "none" /\ wire' = <<>> /\ view' = NoView
  /\ service' = [service EXCEPT !.subscribed = FALSE]
  /\ UNCHANGED <<flies, clock>>

\* onerror: what was on its way is lost.
StreamCut ==
  /\ stream = "open"
  /\ IF service.subscribed THEN Spend("rtk") ELSE UNCHANGED left
  /\ stream' = "connecting" /\ wire' = <<>>
  /\ view' = [view EXCEPT !.connected = FALSE]
  /\ service' = [service EXCEPT !.subscribed = FALSE]
  /\ UNCHANGED <<flies, clock>>

\* The proxy answers 502: the browser does not try again.
StreamRefused ==
  /\ stream = "connecting" /\ ~service.up
  /\ stream' = "failed"
  /\ view' = [view EXCEPT !.connected = FALSE]
  /\ UNCHANGED <<flies, clock, service, wire, left>>

\* Mutant of Replaced: an aircraft that the snapshot does not list stays.
ReplacedMerging(devices, list) ==
  [d \in DOMAIN devices \cup DOMAIN list |-> IF d \in DOMAIN list THEN list[d] ELSE devices[d]]

\* The snapshot's listener: what was known before is forgotten.
Replaced(devices, list) == list

\* The status' listener: a status without a mission keeps the one shown before.
Updated(devices, m) ==
  With(devices, m.of,
    [at |-> m.status.at, fix |-> m.status.fix,
     mission |-> IF m.mission = NoMission /\ m.of \in DOMAIN devices THEN devices[m.of].mission ELSE m.mission])

\* The same listener: a sample of the instant of the last one is not added.
Recorded(history, m) ==
  LET before == IF m.of \in DOMAIN history THEN history[m.of] ELSE <<>>
      same   == before # <<>> /\ before[Len(before)].at = m.status.at
  IN With(history, m.of, Newest(IF same THEN before ELSE Append(before, m.status), MaxHistory))

Heard(m) ==
  CASE m.type = "open" -> [view EXCEPT !.connected = TRUE]
    [] m.type = "snapshot" ->
         [view EXCEPT !.devices = Replaced(@, m.list),
                      !.history = [d \in DOMAIN m.list |-> <<[at |-> m.list[d].at, fix |-> m.list[d].fix]>>]]
    [] m.type = "status" -> [view EXCEPT !.devices = Updated(@, m), !.history = Recorded(@, m)]
    [] m.type = "transition" -> [view EXCEPT !.alerts = Oldest(<<m.alert>> \o @, MaxShown)]

\* The guards of rtkSseGuards.js pass everything that the backend writes.
Hear ==
  /\ wire # <<>>
  /\ view' = Heard(Head(wire)) /\ wire' = Tail(wire)
  /\ UNCHANGED <<flies, clock, service, stream, left>>

RtkStep ==
  \/ \E d \in Aircraft, fix \in Fixes : RtkObserved(d, fix)
  \/ \E d \in Aircraft, m \in RtkMissions \cup {NoMission} : Flies(d, m)
  \/ ServiceStops \/ ServiceStarts \/ StreamOpens
  \/ StreamCut \/ StreamRefused \/ Hear

-----------------------------------------------------------------------------

StatusesOf(devices) == [d \in DOMAIN devices |-> [at |-> devices[d].at, fix |-> devices[d].fix]]

\* While the stream lasts and nothing is on its way, the console shows exactly the
\* aircraft and the statuses that the backend knows, whatever was lost or restarted
\* before; the history of each aircraft ends at the instant of its status, and the
\* console says that it is connected.  (useRtkLive and openEventStream.)
ConsoleIsCurrent ==
  stream = "open" /\ service.subscribed /\ wire = <<>> =>
    /\ view.connected
    /\ StatusesOf(view.devices) = service.latest
    /\ DOMAIN view.history = DOMAIN view.devices
    /\ \A d \in DOMAIN view.history : view.history[d][Len(view.history[d])].at = view.devices[d].at

===============================================================================
