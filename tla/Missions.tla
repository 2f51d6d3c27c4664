------------------------------- MODULE Missions -------------------------------
(***************************************************************************)
(* Automatic flight missions: the in-memory tracker, the retain-all retry  *)
(* queue in front of the database, the rows it writes, and the restart of  *)
(* the service, which forgets the tracker and the queue but not the rows.  *)
(*                                                                         *)
(* Missions are numbered in the order in which they start.  Time is        *)
(* discrete; 0 stands for undefined and NULL.  What the queue guarantees   *)
(* by itself is checked in RetryQueue: here it retries its head until the  *)
(* write succeeds.                                                         *)
(***************************************************************************)
EXTENDS Naturals, Sequences

CONSTANTS
  Devices,
  StandbyGrace,      \* standbyGraceMs
  DisconnectedGrace, \* disconnectedGraceMs
  Timeout,           \* telemetryTimeoutMs
  MaxMissions,       \* bound: missions started
  MaxTime,           \* bound: the clock
  MaxRuns,           \* bound: starts of the service; the last one is not stopped
  MaxFaults          \* bound: failed writes

ASSUME DurationsAssumption == {StandbyGrace, DisconnectedGrace, Timeout} \subseteq Nat \ {0}
ASSUME BoundsAssumption == {MaxMissions, MaxTime, MaxRuns, MaxFaults} \subseteq Nat

Missions == 1 .. MaxMissions
Times    == 1 .. MaxTime

\* What a frame says of the aircraft; "silent": it carries no mode_code.
Modes    == {"flight", "standby", "disconnected", "other", "silent"}

NoFlight == [id |-> 0]
NoRow    == [run |-> 0]

VARIABLES
  now,        \* Date.now()
  phase,      \* "booting"; "up"; "closing": the sweep has stopped; "stopping": so has
              \* DJI ingest, and the queue drains; "down"
  run,        \* the number of the service's run
  flights,    \* per device: the tracker's active session with its grace marks
  started,    \* missions the trackers of all runs have started
  queue,      \* writes not yet acknowledged by the database
  rows,       \* the missions table
  faults,     \* failed writes so far
  airborne    \* history, per mission: the time of its last flight-active frame

vars == <<now, phase, run, flights, started, queue, rows, faults, airborne>>

Recover == [op |-> "recover"]
Open(f, d) == [op |-> "open", id |-> f.id, device |-> d, at |-> f.startedAt]
Close(f, at, reason) == [op |-> "close", id |-> f.id, at |-> at, reason |-> reason]

Init ==
  /\ now = 1
  /\ phase = "booting"
  /\ run = 1
  /\ flights = [d \in Devices |-> NoFlight]
  /\ started = 0
  /\ queue = <<Recover>>
  /\ rows = [m \in Missions |-> NoRow]
  /\ faults = 0
  /\ airborne = [m \in Missions |-> 0]

-------------------------------------------------------------------------------
(* The tracker *)

Active(d) == flights[d] # NoFlight

\* Mutant of Enqueued: a mission's write overtakes the recovery that is retried.
EnqueuedFirst(w) == <<w>> \o queue

Enqueued(w) == Append(queue, w)

\* A flight-active frame of a device without a mission starts one.
Begin(d) ==
  /\ ~Active(d)
  /\ started < MaxMissions
  /\ started' = started + 1
  /\ LET f == [id |-> started', startedAt |-> now, last |-> now, standbySince |-> 0,
               disconnectedSince |-> 0]
     IN  /\ flights' = [flights EXCEPT ![d] = f]
         /\ queue' = Enqueued(Open(f, d))
  /\ airborne' = [airborne EXCEPT ![started'] = now]

\* state.standbySince ??= message.receivedAt
Since(mark) == IF mark = 0 THEN now ELSE mark

\* Mutant of Mark: a frame in flight does not withdraw the standby it interrupts.
MarkKept(f, mode) ==
  [f EXCEPT !.last = now,
            !.standbySince = IF mode = "standby" THEN Since(@) ELSE @,
            !.disconnectedSince = IF mode = "disconnected" THEN Since(@) ELSE 0]

\* Every frame is a sign of life; one with a mode code withdraws the other marks.
Mark(f, mode) ==
  IF mode = "silent" THEN [f EXCEPT !.last = now]
  ELSE [f EXCEPT !.last = now,
                 !.standbySince = IF mode = "standby" THEN Since(@) ELSE 0,
                 !.disconnectedSince = IF mode = "disconnected" THEN Since(@) ELSE 0]

\* The grace of a mark has passed.
Expired(mark, grace) == mark # 0 /\ now - mark >= grace

\* Mutant of End: the end is not persisted.
EndSilently(d, at, reason) ==
  /\ flights' = [flights EXCEPT ![d] = NoFlight]
  /\ UNCHANGED <<started, queue, airborne>>

\* end: the session leaves the tracker and its row is to be closed.
End(d, at, reason) ==
  /\ flights' = [flights EXCEPT ![d] = NoFlight]
  /\ queue' = Enqueued(Close(flights[d], at, reason))
  /\ UNCHANGED <<started, airborne>>

\* A frame of an active mission confirms an end or moves its marks.
Track(d, mode) ==
  LET f == Mark(flights[d], mode)
  IN  /\ Active(d)
      /\ IF mode = "standby" /\ Expired(f.standbySince, StandbyGrace)
         THEN End(d, f.standbySince, "standby")
         ELSE IF mode = "disconnected" /\ Expired(f.disconnectedSince, DisconnectedGrace)
         THEN End(d, f.disconnectedSince, "device_disconnected")
         ELSE /\ flights' = [flights EXCEPT ![d] = f]
              /\ airborne' = IF mode = "flight" THEN [airborne EXCEPT ![f.id] = now]
                             ELSE airborne
              /\ UNCHANGED <<started, queue>>

\* An OSD or state frame reaches observe and its handler.
Observe(d, mode) ==
  /\ phase \in {"up", "closing"}
  /\ \/ mode = "flight" /\ Begin(d)
     \/ Track(d, mode)
  /\ UNCHANGED <<now, phase, run, rows, faults>>

\* No frame for the timeout.
Silent(f) == now - f.last >= Timeout

\* The sweep of the interval timer, and the write of what it ended.
Sweep(d) ==
  /\ phase = "up"
  /\ Active(d)
  /\ Silent(flights[d])
  /\ End(d, flights[d].last + Timeout, "telemetry_timeout")
  /\ UNCHANGED <<now, phase, run, rows, faults>>

-------------------------------------------------------------------------------
(* The database *)

IsOpen(row) == row # NoRow /\ row.ended = 0

\* INSERT ... ON CONFLICT DO NOTHING
Insert(table, w) ==
  IF table[w.id] # NoRow THEN table
  ELSE [table EXCEPT ![w.id] = [run |-> run, device |-> w.device, started |-> w.at,
                                ended |-> 0, reason |-> "none"]]

Ended(row, at, reason) == [row EXCEPT !.ended = at, !.reason = reason]

\* The statement of a queued write, executed now.
Applied(table, w) ==
  CASE w.op = "recover" ->
         [m \in Missions |-> IF IsOpen(table[m]) THEN Ended(table[m], now, "service_restart")
                             ELSE table[m]]
    [] w.op = "open" -> Insert(table, w)
    [] w.op = "close" -> IF table[w.id] = NoRow THEN table
                         ELSE [table EXCEPT ![w.id] = Ended(@, w.at, w.reason)]

Written ==
  /\ queue # <<>>
  /\ rows' = Applied(rows, Head(queue))
  /\ queue' = Tail(queue)
  /\ UNCHANGED <<now, phase, run, flights, started, faults, airborne>>

\* The write fails, before or after it took effect; the service that is shutting
\* down gives up, the running one retries.
WriteFails(effect) ==
  /\ queue # <<>>
  /\ faults < MaxFaults
  /\ faults' = faults + 1
  /\ rows' = IF effect THEN Applied(rows, Head(queue)) ELSE rows
  /\ IF phase = "stopping" THEN phase' = "down" /\ queue' = <<>>
     ELSE UNCHANGED <<phase, queue>>
  /\ UNCHANGED <<now, run, flights, started, airborne>>

-------------------------------------------------------------------------------
(* The service *)

\* dji.start
StartIngest ==
  /\ phase = "booting"
  /\ phase' = "up"
  /\ UNCHANGED <<now, run, flights, started, queue, rows, faults, airborne>>

\* SIGTERM: the sweep stops; the tracker's missions are left as they are.
Shutdown ==
  /\ phase \in {"booting", "up"}
  /\ run < MaxRuns
  /\ phase' = IF phase = "up" THEN "closing" ELSE "stopping"
  /\ UNCHANGED <<now, run, flights, started, queue, rows, faults, airborne>>

\* dji.stop, then the shutdown of the queue
StopIngest ==
  /\ phase = "closing"
  /\ phase' = "stopping"
  /\ UNCHANGED <<now, run, flights, started, queue, rows, faults, airborne>>

Exit ==
  /\ phase = "stopping"
  /\ queue = <<>>
  /\ phase' = "down"
  /\ UNCHANGED <<now, run, flights, started, queue, rows, faults, airborne>>

\* The process dies with everything that is in memory.
Crash ==
  /\ phase # "down"
  /\ run < MaxRuns
  /\ phase' = "down"
  /\ queue' = <<>>
  /\ UNCHANGED <<now, run, flights, started, rows, faults, airborne>>

\* Mutant of FirstWrites: a restarted service does not recover.
NoFirstWrites == <<>>

\* recoverOpenSessions is the first write of every run.
FirstWrites == <<Recover>>

Boot ==
  /\ phase = "down"
  /\ run < MaxRuns
  /\ run' = run + 1
  /\ phase' = "booting"
  /\ flights' = [d \in Devices |-> NoFlight]
  /\ queue' = FirstWrites
  /\ UNCHANGED <<now, started, rows, faults, airborne>>

Tick ==
  /\ now < MaxTime
  /\ now' = now + 1
  /\ UNCHANGED <<phase, run, flights, started, queue, rows, faults, airborne>>

Tracker  == \E d \in Devices : Sweep(d) \/ \E mode \in Modes : Observe(d, mode)
Database == Written \/ \E effect \in BOOLEAN : WriteFails(effect)
Service  == StartIngest \/ Shutdown \/ StopIngest \/ Exit \/ Crash \/ Boot

Next == Tracker \/ Database \/ Service \/ Tick

Spec == Init /\ [][Next]_vars

-------------------------------------------------------------------------------
(* Properties *)

Exists(m) == rows[m] # NoRow

\* The missions recorded for one aircraft follow one another: a later one has a row
\* only if the earlier one is closed, and it starts after the tracker has ended
\* the earlier one.
MissionsFollow ==
  \A m, n \in Missions :
    m < n /\ Exists(m) /\ Exists(n) /\ rows[m].device = rows[n].device =>
      /\ ~IsOpen(rows[m])
      /\ rows[m].reason # "service_restart" => rows[m].ended <= rows[n].started

\* The recovery closes what earlier runs have left open, and no mission of its own
\* run, although it is retried while new missions start.
RecoverySparesThisRun ==
  \A m \in Missions :
    Exists(m) /\ rows[m].reason = "service_restart" => rows[m].run < run

\* The write closes the mission's row.
Closes(w, m) == w.op = "recover" \/ (w.op = "close" /\ w.id = m)

\* The mission's row is open once everything queued is written: it is open and nothing
\* queued closes it, or it is still to be inserted and nothing behind that closes it.
EndsOpen(m) ==
  \/ IsOpen(rows[m]) /\ \A i \in 1 .. Len(queue) : ~Closes(queue[i], m)
  \/ /\ ~Exists(m)
     /\ \E i \in 1 .. Len(queue) :
          /\ queue[i].op = "open" /\ queue[i].id = m
          /\ \A j \in i + 1 .. Len(queue) : ~Closes(queue[j], m)

\* What the queue leads to are open rows of the tracker's missions and of no others,
\* whatever was repeated after an ambiguous failure.
HistoryAgrees ==
  phase # "down" =>
    \A m \in Missions : EndsOpen(m) <=> \E d \in Devices : Active(d) /\ flights[d].id = m

\* docs/MISSIONEN.md: a grace period confirms the end of a flight but does not move
\* it: the aircraft was not in the air after the end that is recorded.
NotAirborneAfterEnd ==
  \A m \in Missions :
    Exists(m) /\ rows[m].reason \in {"standby", "device_disconnected"} =>
      airborne[m] <= rows[m].ended

===============================================================================
