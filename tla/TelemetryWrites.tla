---------------------------- MODULE TelemetryWrites ----------------------------
(***************************************************************************)
(* What the telemetry store's queue does to the database.  A write is up to *)
(* three statements: the history row, the update of the mission's telemetry *)
(* row of that instant, and its insert if there was none to update, which   *)
(* the foreign key refuses until the mission is recorded.  Between them     *)
(* other handlers run, and any of them may fail before or after its effect; *)
(* the write is then repeated from its first statement.                     *)
(*                                                                          *)
(* Writes are numbered.  A parameter sample is enqueued together with the   *)
(* sample that the parameter registry holds current for its key, fused from *)
(* all adapters, and it is that one which the telemetry table gets.  A raw  *)
(* message, and a key without a column, is a sample without a projection.   *)
(***************************************************************************)
EXTENDS Naturals, Sequences, FiniteSets

CONSTANTS
  Missions,
  Instants,   \* sampledAt
  Columns,    \* columns of a telemetry row, each for one key of the parameters
  Adapters,   \* adapter ids, in the order of localeCompare
  Qualities,  \* quality ranks
  Offered,    \* bound: the samples that come, with the mission active then
  Capacity,   \* queueCapacity
  MaxSamples, \* bound: samples enqueued
  MaxFaults   \* bound: statements that fail

ASSUME BoundsAssumption == Capacity \in Nat \ {0} /\ MaxSamples \in Nat /\ MaxFaults \in Nat

None    == "none"
ASSUME NoneAssumption == None \notin Missions \cup Columns
ASSUME RankAssumption == Instants \subseteq Nat /\ Adapters \subseteq Nat /\ Qualities \subseteq Nat

Numbers == 1 .. MaxSamples

\* Of one aircraft: a sample of a parameter (number: it has a finite value), and a message.
Parameters == [mission: Missions \cup {None}, at: Instants, key: Columns,
               adapter: Adapters, quality: Qualities, number: BOOLEAN]
Messages   == [mission: Missions \cup {None}, at: Instants, key: {None}]
Samples    == Parameters \cup Messages

ASSUME OfferedAssumption == Offered \subseteq Samples

VARIABLES
  sent,      \* the samples enqueued so far, in order
  shown,     \* beside each one the number of its projection sample
  latest,    \* ParameterRegistry: by key the numbers of each adapter's latest sample
  queue,     \* the backlog: their numbers, oldest first
  active,    \* the head is being written
  step,      \* its next statement: "history", "update" or "insert"
  history,   \* numbers of the rows of raw_messages and normalized_parameters; as many
             \* rows as a write is repeated stand for one
  rows,      \* the telemetry table: mission, instant and by column the write whose
             \* projection sample is the value, 0 for NULL
  known,     \* missions whose row exists
  unsaved,   \* missions whose row is still in the mission queue
  stage,     \* "open"; "stopped": no new samples; "closing": the store drains; "closed"; "aborted"
  written,   \* history: samples whose write was acknowledged
  dropped,   \* history: samples dropped from the backlog
  faults     \* statements that failed

samples == <<sent, shown, latest>>
queued == <<queue, active, step>>
tables == <<history, rows, known>>
vars   == <<samples, queued, tables, unsaved, stage, written, dropped, faults>>

Init ==
  /\ sent = <<>> /\ shown = <<>> /\ latest = [k \in Columns |-> {}]
  /\ queue = <<>> /\ active = FALSE /\ step = "history"
  /\ history = <<>> /\ rows = <<>> /\ known = {}
  /\ unsaved \in SUBSET Missions
  /\ stage = "open"
  /\ written = {} /\ dropped = {}
  /\ faults = 0

-------------------------------------------------------------------------------
(* The queue *)

\* Drop-oldest: the oldest one that is not being written.
Dropped == IF active THEN 2 ELSE 1
Kept    == [i \in 1 .. Len(queue) - 1 |-> IF i < Dropped THEN queue[i] ELSE queue[i + 1]]

\* A sample of a mission the tracker has started joins the queue.
Enqueue(s) ==
  /\ stage = "open"
  /\ Len(sent) < MaxSamples
  /\ s.mission \in unsaved \cup known \cup {None}
  /\ sent' = Append(sent, s)
  /\ \/ /\ Len(queue) < Capacity
        /\ queue' = Append(queue, Len(sent'))
        /\ active' = TRUE
        /\ UNCHANGED dropped
     \/ /\ Len(queue) >= Capacity /\ Dropped <= Len(queue)
        /\ dropped' = dropped \cup {queue[Dropped]}
        /\ queue' = Append(Kept, Len(sent'))
        /\ active' = TRUE
     \/ /\ Len(queue) >= Capacity /\ Dropped > Len(queue)
        /\ dropped' = dropped \cup {Len(sent')}
        /\ UNCHANGED <<queue, active>>
  /\ UNCHANGED <<step, tables, unsaved, stage, written, faults>>

\* enqueueRaw; a parameter without a column is like it.
EnqueueRaw(s) ==
  /\ s \in Messages
  /\ Enqueue(s)
  /\ shown' = Append(shown, Len(sent'))
  /\ UNCHANGED latest

\* compareSamples: by time, then quality, then adapter.
Outranks(m, n) ==
  LET a == sent'[m]
      b == sent'[n]
  IN  \/ a.at > b.at
      \/ a.at = b.at /\ a.quality > b.quality
      \/ a.at = b.at /\ a.quality = b.quality /\ a.adapter > b.adapter

\* selectCurrentSample
Selected(ns) == {n \in ns : \A m \in ns : ~Outranks(m, n)}

\* The registry's update: a sample older than its adapter's latest one changes nothing.
Updating(s) ==
  LET own == {n \in latest[s.key] : sent[n].adapter = s.adapter}
  IN  latest' = IF \E n \in own : s.at < sent[n].at THEN latest
                ELSE [latest EXCEPT ![s.key] = (@ \ own) \cup {Len(sent')}]

\* ingestParameterSample
IngestParameterSample(s) ==
  /\ s \in Parameters
  /\ Enqueue(s)
  /\ Updating(s)
  /\ \E n \in Selected(latest'[s.key]) : shown' = Append(shown, n)

\* Mutant of Waiting: only a full backlog is retried.
WaitingFull   == ~active /\ Len(queue) = Capacity

Waiting == ~active /\ queue # <<>>

\* The retry interval, ping or a flush.
Kick ==
  /\ stage \in {"open", "stopped"}
  /\ Waiting
  /\ active' = TRUE
  /\ UNCHANGED <<samples, queue, step, tables, unsaved, stage, written, dropped, faults>>

\* The write is acknowledged and the next one begins.
Done ==
  /\ queue' = Tail(queue)
  /\ active' = (queue' # <<>>)
  /\ step' = "history"
  /\ written' = written \cup {Head(queue)}
  /\ stage' = IF stage = "closing" /\ ~active' THEN "closed" ELSE stage

\* Mutant of Backlog: the failed write goes to the end of the backlog.
BacklogRotated == Append(Tail(queue), Head(queue))

Backlog == queue

\* A statement fails: the write starts again later.
Retry ==
  /\ queue' = Backlog
  /\ active' = FALSE
  /\ step' = "history"
  /\ stage' = IF stage = "closing" THEN "aborted" ELSE stage
  /\ UNCHANGED written

-------------------------------------------------------------------------------
(* The statements *)

\* What a write projects: the mission is that of its sample, the rest that of the fused
\* sample; a value that is no number has no column.
Projection(n) ==
  LET p == sent[shown[n]]
  IN  [mission |-> sent[n].mission, at |-> p.at,
       column |-> IF p.key \in Columns /\ p.number THEN p.key ELSE None]

Sample == Projection(Head(queue))

\* Only a mission's sample that maps to a column is projected.
Projected(s) == s.mission # None /\ s.column # None

Matches(row, s) == row.mission = s.mission /\ row.at = s.at

\* INSERT INTO raw_messages, normalized_parameters
InsertHistory ==
  /\ history' = IF history # <<>> /\ history[Len(history)] = Head(queue) THEN history
                ELSE Append(history, Head(queue))
  /\ UNCHANGED <<rows, known>>

\* Mutant of Updated: the update does not look for the row of the instant.
UpdatedNone(s) == {}

\* Rows the UPDATE counts.
Updated(s) == {i \in 1 .. Len(rows) : Matches(rows[i], s)}

\* UPDATE telemetry SET column = value
UpdateRows ==
  /\ rows' = [i \in 1 .. Len(rows) |->
                IF i \in Updated(Sample) THEN [rows[i] EXCEPT !.values[Sample.column] = Head(queue)]
                ELSE rows[i]]
  /\ UNCHANGED <<history, known>>

\* INSERT INTO telemetry
InsertRow ==
  /\ Sample.mission \in known
  /\ rows' = Append(rows, [mission |-> Sample.mission, at |-> Sample.at,
                           values |-> [c \in Columns |-> IF c = Sample.column THEN Head(queue) ELSE 0]])
  /\ UNCHANGED <<history, known>>

Statement ==
  \/ step = "history" /\ InsertHistory
  \/ step = "update" /\ UpdateRows
  \/ step = "insert" /\ InsertRow

\* Mutant of After: a projection that finds no row to update is given up.
AfterUpdateOnly ==
  IF step = "history" /\ Projected(Sample) THEN "update" ELSE "done"

\* The statement that follows; "done" after the last.
After ==
  CASE step = "history" -> IF Projected(Sample) THEN "update" ELSE "done"
    [] step = "update"  -> IF Updated(Sample) # {} THEN "done" ELSE "insert"
    [] step = "insert"  -> "done"

\* A statement succeeds.
Proceed ==
  /\ active
  /\ Statement
  /\ IF After = "done" THEN Done
     ELSE step' = After /\ UNCHANGED <<queue, active, written, stage>>
  /\ UNCHANGED <<samples, unsaved, dropped, faults>>

\* The mission's row is not there yet.
ForeignKeyFails ==
  /\ active
  /\ step = "insert"
  /\ Sample.mission \notin known
  /\ Retry
  /\ UNCHANGED <<samples, tables, unsaved, dropped, faults>>

\* The connection fails, before or after the statement took effect.
StatementFails ==
  /\ active
  /\ faults < MaxFaults
  /\ faults' = faults + 1
  /\ Statement \/ UNCHANGED tables
  /\ Retry
  /\ UNCHANGED <<samples, unsaved, dropped>>

-------------------------------------------------------------------------------
(* The mission queue and the shutdown *)

\* The mission queue writes the row of a mission.
SaveMission(m) ==
  /\ m \in unsaved
  /\ unsaved' = unsaved \ {m}
  /\ known' = known \cup {m}
  /\ UNCHANGED <<samples, queued, history, rows, stage, written, dropped, faults>>

\* The mission queue gives up what it could not write during the shutdown.
LoseMissions ==
  /\ stage = "stopped"
  /\ faults < MaxFaults
  /\ faults' = faults + 1
  /\ unsaved' = {}
  /\ UNCHANGED <<samples, queued, tables, stage, written, dropped>>

\* The adapters are stopped.
StopIngest ==
  /\ stage = "open"
  /\ stage' = "stopped"
  /\ UNCHANGED <<samples, queued, tables, unsaved, written, dropped, faults>>

\* The mission queue has been drained before.
MissionsSaved == unsaved = {}

\* close: the queue is drained, joining a drain that runs.
Close ==
  /\ stage = "stopped"
  /\ MissionsSaved
  /\ active' = (queue # <<>>)
  /\ stage' = IF queue = <<>> THEN "closed" ELSE "closing"
  /\ UNCHANGED <<samples, queue, step, tables, unsaved, written, dropped, faults>>

Writes == Proceed \/ ForeignKeyFails \/ StatementFails

Next ==
  \/ \E s \in Offered : EnqueueRaw(s) \/ IngestParameterSample(s)
  \/ Kick
  \/ Writes
  \/ \E m \in Missions : SaveMission(m)
  \/ LoseMissions
  \/ StopIngest
  \/ Close

\* Statements are answered, the interval fires, the mission queue gets through, and a
\* shutdown goes on to its next step.
Fairness ==
  /\ WF_vars(Writes) /\ WF_vars(Kick) /\ WF_vars(Close)
  /\ \A m \in Missions : WF_vars(SaveMission(m))

Spec == Init /\ [][Next]_vars /\ Fairness

-------------------------------------------------------------------------------
(* Properties *)

\* The samples of one instant share one row of the telemetry table, although it has
\* no key and the insert is repeated after an ambiguous failure.
OneRowPerInstant ==
  \A i, j \in 1 .. Len(rows) :
    rows[i].mission = rows[j].mission /\ rows[i].at = rows[j].at => i = j

\* Write n projects to column c of a row.
Projects(n, row, c) ==
  LET s == Projection(n) IN Projected(s) /\ Matches(row, s) /\ s.column = c

\* The value of a column is what a write to it projected, the sample that was fused then,
\* and no acknowledged write to it is later: no repetition brings an older value back.
NewestWins ==
  \A i \in 1 .. Len(rows), c \in Columns :
    LET v == rows[i].values[c]
    IN  /\ v # 0 => Projects(v, rows[i], c)
        /\ \A n \in written : Projects(n, rows[i], c) => n <= v

\* An acknowledged sample is in the history; in a mission, the sample that was current
\* for its key when it came is in the projection, at its own instant, which is not always
\* that of the acknowledged one.  The history is in the order in which the samples came,
\* repetitions apart.
AcknowledgedIsStored ==
  /\ \A n \in written :
       /\ \E i \in 1 .. Len(history) : history[i] = n
       /\ LET s == Projection(n)
          IN  Projected(s) => \E i \in 1 .. Len(rows) : Matches(rows[i], s) /\ rows[i].values[s.column] # 0
  /\ \A i, j \in 1 .. Len(history) : i < j => history[i] <= history[j]

\* A shutdown without a database failure writes everything: no sample is refused
\* because the row of its mission is still to come.
CleanShutdown == stage = "aborted" => faults > 0

\* A sample that waits for its mission's row, or behind one that does, is written or
\* dropped in the end.
SamplesSettle ==
  \A n \in Numbers :
    (\E i \in 1 .. Len(queue) : queue[i] = n) ~> (n \in written \cup dropped \/ stage = "aborted")

===============================================================================
