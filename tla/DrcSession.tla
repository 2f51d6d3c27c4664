------------------------------ MODULE DrcSession ------------------------------
(***************************************************************************)
(* The backend's DRC session manager for one gateway: the stored record,   *)
(* the dead-man timer, the heartbeat, the exclusive send queue of          *)
(* DrcController, and the calls that are suspended at an await.            *)
(*                                                                         *)
(* The process is single-threaded.  An await on the in-memory store does   *)
(* not let another handler run, so it is part of the same action; an await *)
(* on a publish or on a service reply does, so the call continues in an    *)
(* action of its own and carries with it the record it read before.        *)
(*                                                                         *)
(* Time is counted in intervals of the watchdog timer: `silence' is the    *)
(* age of the last accepted input.                                         *)
(***************************************************************************)
EXTENDS Naturals, Sequences, FiniteSets, Functions

CONSTANTS
  Methods,        \* control methods of the aircraft, a subset of {"stick", "drone"}
  Calls,          \* slots for closeGracefully calls that are still suspended
  MaxSessions,    \* bound: sessions requested in a behaviour
  MaxQueue,       \* bound: frames waiting in the send queue
  DegradeAfter,   \* degradeAfterMs, in watchdog intervals
  CloseAfter      \* closeAfterMs, in watchdog intervals

ASSUME MethodsAssumption == Methods # {} /\ "none" \notin Methods
ASSUME BoundsAssumption  == MaxSessions \in Nat /\ MaxQueue \in Nat
ASSUME DeadlineAssumption ==
  /\ DegradeAfter \in Nat \ {0}
  /\ CloseAfter \in Nat
  /\ CloseAfter > DegradeAfter

States == {"idle", "requesting", "authorized", "authority_grabbed",
           "drc_mode_active", "controlling", "degraded", "draining", "closed"}

\* DRC_TRANSITIONS: the successors of each state.
Successors ==
  [ idle              |-> {"requesting"},
    requesting        |-> {"authorized", "closed"},
    authorized        |-> {"authority_grabbed", "closed"},
    authority_grabbed |-> {"drc_mode_active", "draining", "closed"},
    drc_mode_active   |-> {"controlling", "draining", "closed"},
    controlling       |-> {"degraded", "draining", "closed"},
    degraded          |-> {"controlling", "draining", "closed"},
    draining          |-> {"closed"},
    closed            |-> {"requesting"} ]

Records == [sid: Nat, state: States, conn: BOOLEAN, method: Methods \cup {"none"}]

\* store.get finds nothing before the first request.
NoRecord == [sid |-> 0, state |-> "idle", conn |-> FALSE, method |-> "none"]

InControl  == {"controlling", "degraded"}
AcceptsInput == {"drc_mode_active"} \cup InControl
Entered    == {"authority_grabbed"} \cup AcceptsInput
SetUp      == {"requesting", "authorized"}

\* A send or the neutral frame of a closing call, and the record read before it.
Frames == [kind: {"input", "neutral"}, snap: Records, method: Methods \cup {"none"},
           call: Calls \cup {"none"}]

\* A closeGracefully call: what it awaits, the draining record it will finish
\* with, who awaits it, and whether a cleanup step has failed.
Closers == [phase: {"neutral", "exit"}, snap: Records,
            by: {"caller", "tick", "shutdown"}, failed: BOOLEAN]
Idle == [phase |-> "none"]

VARIABLES
  rec,         \* the stored DrcSessionRecord
  timer,       \* the watchdog interval is armed
  heartbeat,   \* the controller's heartbeat interval is armed
  queue,       \* frames handed to the controller and not yet settled
  closer,      \* closeGracefully calls in progress
  silence,     \* watchdog intervals since lastInputAt
  guards,      \* what getDrcGuards would answer now
  sessions,    \* sessionIds handed out so far
  staleWrite,  \* history: a suspended call has overwritten a record it had not read
  lastFrame,   \* history: method of the last input frame published, by session
  neutralised, \* history: sessions whose neutral frame has been published
  crossed      \* history: closing calls whose neutral frame waits and is of another
               \* method than an input frame of their session published meanwhile

vars == <<rec, timer, heartbeat, queue, closer, silence, guards, sessions,
          staleWrite, lastFrame, neutralised, crossed>>
history == <<staleWrite, lastFrame, neutralised, crossed>>

RequestGuards == guards.local
AllGuards     == guards.local /\ guards.authority

Init ==
  /\ rec = NoRecord
  /\ timer = FALSE
  /\ heartbeat = FALSE
  /\ queue = <<>>
  /\ closer = [c \in Calls |-> Idle]
  /\ silence = 0
  /\ guards \in [local: BOOLEAN, authority: BOOLEAN]
  /\ sessions = 0
  /\ staleWrite = FALSE
  /\ lastFrame = [s \in 1 .. MaxSessions |-> "none"]
  /\ neutralised = {}
  /\ crossed = {}

-------------------------------------------------------------------------------
(* Setting a session up *)

Request ==
  /\ RequestGuards
  /\ rec.state \in {"idle", "closed"}
  /\ sessions < MaxSessions
  /\ sessions' = sessions + 1
  /\ rec' = [sid |-> sessions + 1, state |-> "requesting", conn |-> FALSE,
             method |-> "none"]
  /\ UNCHANGED <<timer, heartbeat, queue, closer, silence, guards, history>>

Expected(from) == rec.state = from

Transition(from, to) ==
  /\ Expected(from)
  /\ rec' = [rec EXCEPT !.state = to]
  /\ UNCHANGED <<timer, heartbeat, queue, closer, silence, guards, sessions, history>>

MarkAuthorized       == Transition("requesting", "authorized")
MarkAuthorityGrabbed == Transition("authorized", "authority_grabbed")
MarkDrcModeActive    == Transition("authority_grabbed", "drc_mode_active")

\* Mutant of Recovers: the watchdog and the heartbeat are not restarted.
NeverRecovers(connected) == FALSE

Recovers(connected) == connected /\ ~rec.conn /\ rec.state \in InControl

\* Reconnecting a session in control restarts its heartbeat and its watchdog.
SetTransportConnected(connected) ==
  /\ rec.state # "idle"
  /\ rec' = [rec EXCEPT !.conn = connected]
  /\ timer' = (timer \/ Recovers(connected))
  /\ heartbeat' = (heartbeat \/ Recovers(connected))
  /\ UNCHANGED <<queue, closer, silence, guards, sessions, history>>

\* The dead-man is off while the transport is lost.
MarkTransportLost ==
  /\ rec.state \notin {"idle", "closed"}
  /\ rec' = [rec EXCEPT !.conn = FALSE]
  /\ timer' = FALSE
  /\ heartbeat' = FALSE
  /\ UNCHANGED <<queue, closer, silence, guards, sessions, history>>

Activate ==
  /\ AllGuards
  /\ rec.state = "drc_mode_active"
  /\ rec.conn
  /\ heartbeat' = TRUE
  /\ UNCHANGED <<rec, timer, queue, closer, silence, guards, sessions, history>>

-------------------------------------------------------------------------------
(* Control input *)

\* sendStick and sendDroneControl up to the await of the publish.
Send(m) ==
  /\ AllGuards
  /\ rec.state \in AcceptsInput
  /\ rec.conn
  /\ Len(queue) < MaxQueue
  /\ queue' = Append(queue, [kind |-> "input", snap |-> rec, method |-> m,
                             call |-> "none"])
  /\ UNCHANGED <<rec, timer, heartbeat, closer, silence, guards, sessions, history>>

\* The record a suspended send read still describes the stored session.
SendIsCurrent(snap) ==
  rec.sid = snap.sid /\ rec.state \in AcceptsInput /\ rec.conn

\* runExclusive hands the next frame to the broker.
Dequeued == Tail(queue)

\* Closing calls whose neutral frame waits behind the input frame f of their session
\* and is of the other control method.
CrossedBy(f) ==
  {g.call : g \in {h \in Range(queue) : /\ h.kind = "neutral"
                                       /\ h.snap.sid = f.snap.sid
                                       /\ h.method # f.method}}

\* The publish settles and the send persists the record it read before it,
\* whatever the store holds by now.
InputPublished ==
  /\ queue # <<>>
  /\ LET f == Head(queue)
     IN  /\ f.kind = "input"
         /\ rec' = [f.snap EXCEPT !.state = "controlling", !.method = f.method]
         /\ timer' = (timer \/ f.snap.state = "drc_mode_active")
         /\ staleWrite' = (staleWrite \/ ~SendIsCurrent(f.snap))
         /\ lastFrame' = [lastFrame EXCEPT ![f.snap.sid] = f.method]
         /\ crossed' = crossed \cup CrossedBy(f)
  /\ queue' = Dequeued
  /\ silence' = 0
  /\ UNCHANGED <<heartbeat, closer, guards, sessions, neutralised>>

InputRejected ==
  /\ queue # <<>>
  /\ Head(queue).kind = "input"
  /\ queue' = Dequeued
  /\ UNCHANGED <<rec, timer, heartbeat, closer, silence, guards, sessions, history>>

\* A failed publish of the heartbeat stops it.
HeartbeatFails ==
  /\ heartbeat
  /\ heartbeat' = FALSE
  /\ UNCHANGED <<rec, timer, queue, closer, silence, guards, sessions, history>>

-------------------------------------------------------------------------------
(* Closing *)

\* forceClose: no neutral frame, no drc_mode_exit.
ForceClosed ==
  /\ rec' = [rec EXCEPT !.state = "closed", !.conn = FALSE]
  /\ timer' = FALSE
  /\ heartbeat' = FALSE

\* A closing call that has started: its slot and its neutral frame.
Suspend(c, by, draining, neutral, method) ==
  /\ closer[c] = Idle
  /\ timer' = FALSE
  /\ heartbeat' = (heartbeat /\ neutral)
  /\ closer' = [closer EXCEPT ![c] =
                  [phase |-> IF neutral THEN "neutral" ELSE "exit",
                   snap |-> draining, by |-> by, failed |-> FALSE]]
  /\ queue' = IF neutral
              THEN Append(queue, [kind |-> "neutral", snap |-> draining,
                                  method |-> method, call |-> c])
              ELSE queue

\* Mutants of StartDraining: the draining record is not persisted; the neutral
\* frame is always a stick frame.
DrainUnannounced(c, by) ==
  /\ Suspend(c, by, [rec EXCEPT !.state = "draining"],
             rec.conn /\ rec.state \in InControl, rec.method)
  /\ UNCHANGED rec
DrainWithStick(c, by) ==
  /\ rec' = [rec EXCEPT !.state = "draining"]
  /\ Suspend(c, by, rec', rec.conn /\ rec.state \in InControl, "stick")

\* closeGracefully up to its first await, for a session that has entered DRC.
StartDraining(c, by) ==
  /\ rec' = [rec EXCEPT !.state = "draining"]
  /\ Suspend(c, by, rec', rec.conn /\ rec.state \in InControl, rec.method)

CloseGracefully(by) ==
  /\ \/ /\ rec.state \in SetUp
        /\ ForceClosed
        /\ UNCHANGED <<queue, closer>>
     \/ /\ rec.state \in Entered
        /\ \E c \in Calls : StartDraining(c, by)
  /\ UNCHANGED <<silence, guards, sessions, history>>

ForceClose ==
  /\ rec.state # "idle"
  /\ ForceClosed
  /\ UNCHANGED <<queue, closer, silence, guards, sessions, history>>

\* The neutral frame settles; the call stops the heartbeat and asks for the exit.
NeutralSettles(published) ==
  /\ queue # <<>>
  /\ LET f == Head(queue)
         c == f.call
     IN  /\ f.kind = "neutral"
         /\ closer' = [closer EXCEPT ![c].phase = "exit", ![c].failed = ~published]
         /\ neutralised' = IF published THEN neutralised \cup {f.snap.sid} ELSE neutralised
         /\ crossed' = crossed \ {c}
  /\ queue' = Dequeued
  /\ heartbeat' = FALSE
  /\ UNCHANGED <<rec, timer, silence, guards, sessions, staleWrite, lastFrame>>

ExitAwaited(c) == closer[c] # Idle /\ closer[c].phase = "exit"

\* Mutant of ExitSettles: a failed exit leaves the session draining.
ExitFailureEscapes(c, ok) ==
  /\ ExitAwaited(c)
  /\ rec' = IF ok THEN [closer[c].snap EXCEPT !.state = "closed", !.conn = FALSE] ELSE rec
  /\ closer' = [closer EXCEPT ![c] = Idle]
  /\ UNCHANGED <<timer, heartbeat, queue, silence, guards, sessions, history>>

\* The reply to drc_mode_exit, or its timeout: the call persists the closed form
\* of the draining record it started with.  A failed call of the watchdog is
\* followed by a forceClose, a finished shutdown by the stop of all timers.
ExitSettles(c, ok) ==
  /\ ExitAwaited(c)
  /\ LET call   == closer[c]
         errors == call.failed \/ ~ok
         forced == call.by = "tick" /\ errors
     IN  /\ rec' = [call.snap EXCEPT !.state = "closed", !.conn = FALSE]
         /\ timer' = (timer /\ ~forced /\ call.by # "shutdown")
         /\ heartbeat' = (heartbeat /\ ~forced)
         /\ staleWrite' =
              (staleWrite \/ rec.sid # call.snap.sid
                          \/ rec.state \notin {"draining", "closed"})
  /\ closer' = [closer EXCEPT ![c] = Idle]
  /\ UNCHANGED <<queue, silence, guards, sessions, lastFrame, neutralised, crossed>>

\* reevaluateGuards: authority loss closes at once, the other guards drain.
ReevaluateGuards ==
  /\ rec.state \notin {"idle", "closed"}
  /\ \/ ~guards.authority /\ ForceClose
     \/ /\ guards.authority
        /\ ~guards.local
        /\ CloseGracefully("caller")

\* shutdown: an unfinished drain is cut short, every other session is closed.
Shutdown ==
  \/ rec.state = "draining" /\ ForceClose
  \/ CloseGracefully("shutdown")

-------------------------------------------------------------------------------
(* The dead-man watchdog *)

Ticking == \E c \in Calls : closer[c] # Idle /\ closer[c].by = "tick"

\* Mutant of Watched: a session that is already degraded is not watched.
WatchedWhenHealthy == {"controlling"}

Watched == InControl

\* One firing of the interval; a firing during an unfinished tick does nothing.
Tick ==
  /\ timer
  /\ ~Ticking
  /\ \/ /\ rec.state \notin Watched
        /\ timer' = FALSE
        /\ UNCHANGED <<rec, heartbeat, queue, closer, silence, guards, sessions, history>>
     \/ /\ rec.state \in Watched
        /\ silence >= CloseAfter
        /\ CloseGracefully("tick")
     \/ /\ rec.state = "controlling"
        /\ silence >= DegradeAfter
        /\ silence < CloseAfter
        /\ rec' = [rec EXCEPT !.state = "degraded"]
        /\ UNCHANGED <<timer, heartbeat, queue, closer, silence, guards, sessions, history>>

-------------------------------------------------------------------------------
(* The environment *)

\* Ages beyond the close threshold are not told apart.
Elapse ==
  /\ silence < CloseAfter
  /\ rec.state \in InControl
  /\ silence' = silence + 1
  /\ UNCHANGED <<rec, timer, heartbeat, queue, closer, guards, sessions, history>>

GuardsChange ==
  /\ guards' \in [local: BOOLEAN, authority: BOOLEAN]
  /\ guards' # guards
  /\ UNCHANGED <<rec, timer, heartbeat, queue, closer, silence, sessions, history>>

Setup == \/ Request \/ MarkAuthorized \/ MarkAuthorityGrabbed \/ MarkDrcModeActive
         \/ \E connected \in BOOLEAN : SetTransportConnected(connected)
         \/ MarkTransportLost \/ Activate

FrameSettles == \/ InputPublished \/ InputRejected
                \/ \E published \in BOOLEAN : NeutralSettles(published)

CallSettles(c) == \E ok \in BOOLEAN : ExitSettles(c, ok)

Next ==
  \/ Setup
  \/ \E m \in Methods : Send(m)
  \/ FrameSettles
  \/ \E c \in Calls : CallSettles(c)
  \/ HeartbeatFails
  \/ CloseGracefully("caller")
  \/ ForceClose
  \/ ReevaluateGuards
  \/ Shutdown
  \/ Tick
  \/ Elapse
  \/ GuardsChange

\* Every publish settles (the broker client calls back or reports an error) and
\* every service request ends in a reply or its timeout; timers keep firing.
Fairness ==
  /\ WF_vars(FrameSettles)
  /\ \A c \in Calls : WF_vars(CallSettles(c))
  /\ WF_vars(Tick)
  /\ WF_vars(Elapse)

Spec == Init /\ [][Next]_vars /\ Fairness

-------------------------------------------------------------------------------
(* Properties *)

TypeOK ==
  /\ rec \in Records
  /\ timer \in BOOLEAN
  /\ heartbeat \in BOOLEAN
  /\ queue \in Seq(Frames)
  /\ closer \in [Calls -> Closers \cup {Idle}]
  /\ silence \in 0 .. CloseAfter
  /\ guards \in [local: BOOLEAN, authority: BOOLEAN]
  /\ sessions \in 0 .. MaxSessions
  /\ staleWrite \in BOOLEAN
  /\ lastFrame \in [1 .. MaxSessions -> Methods \cup {"none"}]
  /\ neutralised \subseteq 1 .. MaxSessions
  /\ crossed \subseteq Calls

\* As long as no suspended call has overwritten a newer record, a session in
\* control with a connected transport is under the dead-man watchdog, unless
\* its own silence was the reason for the tick that is closing it.
DeadManArmed ==
  ~staleWrite => (rec.state \in InControl /\ rec.conn => timer)

\* The heartbeat never outlives the session: it runs only for a connected
\* session that has entered DRC mode and has not finished draining.
HeartbeatOnlyInSession ==
  ~staleWrite /\ heartbeat =>
     /\ rec.state \in AcceptsInput \cup {"draining"}
     /\ rec.state = "draining" =>
          \E c \in Calls : closer[c] # Idle /\ closer[c].phase = "neutral"

NeutralLeaves == queue # <<>> /\ Head(queue).kind = "neutral" /\ queue' = Dequeued

\* A neutral frame uses the control method of the last frame that its session sent
\* before it, stale writes or not, with one exception: the close takes the method from
\* the record (drc-session.ts 554), which knows nothing of a frame that is still in
\* flight, so the neutral frame behind a frame of the other method does not fit.
NeutralMatchesLastFrame ==
  [][ NeutralLeaves =>
        LET f == Head(queue) IN lastFrame[f.snap.sid] = f.method \/ f.call \in crossed ]_vars

\* After a session's neutral frame no further input frame of it is published.
NothingAfterNeutral ==
  [][ \A s \in neutralised : ~staleWrite' => lastFrame'[s] = lastFrame[s] ]_vars

\* The state changes only along the documented table.
FollowsTransitions ==
  [][ rec'.state # rec.state => rec'.state \in Successors[rec.state] ]_vars

\* A session that has been closed or replaced never comes back.
NoResurrection ==
  [][ ~staleWrite' =>
        /\ rec'.sid >= rec.sid
        /\ rec'.sid = rec.sid /\ rec.state = "closed" => rec'.state = "closed" ]_vars

\* A drain ends: the session is closed, even when neutral frame and exit fail.
DrainEnds == rec.state = "draining" ~> rec.state = "closed"

\* A silent session under the watchdog is closed, or gets input, or loses its
\* transport.
SilenceCloses ==
  (rec.state \in InControl /\ timer /\ silence = CloseAfter)
     ~> (rec.state \notin InControl \/ ~rec.conn \/ silence = 0)

===============================================================================
