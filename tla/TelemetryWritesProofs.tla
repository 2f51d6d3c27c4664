------------------------- MODULE TelemetryWritesProofs -------------------------
(***************************************************************************)
(* What the telemetry queue's writes leave in the database, for any number *)
(* of missions, instants, columns, samples and faults and every capacity:  *)
(* one row per instant, the newest value of each column, nothing that was  *)
(* acknowledged lost, and a shutdown that only a failure aborts.           *)
(***************************************************************************)
EXTENDS TelemetryWrites, SequenceTheorems, TLAPS

Rows == [mission: Missions, at: Instants, values: [Columns -> Nat]]

\* The variables' ranges; a written statement belongs to a head that is being written.
TypeOK ==
  /\ sent \in Seq(Samples)
  /\ queue \in Seq(1 .. Len(sent))
  /\ active \in BOOLEAN /\ (active => queue # <<>>)
  /\ step \in {"history", "update", "insert"}
  /\ history \in Seq(1 .. Len(sent))
  /\ rows \in Seq(Rows)
  /\ known \subseteq Missions /\ unsaved \subseteq Missions
  /\ stage \in {"open", "stopped", "closing", "closed", "aborted"}
  /\ written \subseteq 1 .. Len(sent)
  /\ faults \in Nat

\* Every sample has a projection sample, and the registry knows samples that came.
ShownInv ==
  /\ shown \in Seq(1 .. Len(sent)) /\ Len(shown) = Len(sent)
  /\ latest \in [Columns -> SUBSET (1 .. Len(sent))]

\* The backlog is in the order of arrival, and what has been written is older.
OrderInv ==
  /\ \A i, j \in 1 .. Len(queue) : i < j => queue[i] < queue[j]
  /\ \A n \in written, i \in 1 .. Len(queue) : n < queue[i]
  /\ \A k \in 1 .. Len(history), i \in 1 .. Len(queue) : history[k] <= queue[i]
  /\ \A i, j \in 1 .. Len(history) : i < j => history[i] <= history[j]

\* A write past its first statement is in the history, and an insert follows an update
\* that found no row.
StepInv ==
  step # "history" =>
    /\ active
    /\ Projected(Sample)
    /\ \E k \in 1 .. Len(history) : history[k] = Head(queue)
    /\ step = "insert" => Updated(Sample) = {}

\* The acknowledged samples are stored.
StoredInv ==
  \A n \in written :
    /\ \E k \in 1 .. Len(history) : history[k] = n
    /\ Projected(Projection(n)) => \E i \in 1 .. Len(rows) : Matches(rows[i], Projection(n))

\* A value in the table is that of a sample, no older than an acknowledged one and no
\* newer than the one being written.
ValueInv ==
  \A i \in 1 .. Len(rows), c \in Columns :
    LET v == rows[i].values[c]
    IN  /\ v # 0 => v \in 1 .. Len(sent) /\ Projects(v, rows[i], c)
        /\ \A k \in 1 .. Len(queue) : v <= queue[k]
        /\ \A n \in written : Projects(n, rows[i], c) => n <= v

\* The row of a sample's mission exists or is on its way, unless a write of it failed.
MissionInv ==
  /\ faults = 0 => \A n \in 1 .. Len(sent) : sent[n].mission \in known \cup unsaved \cup {None}
  /\ stage \in {"closing", "closed"} => unsaved = {}
  /\ CleanShutdown

IInv == TypeOK /\ ShownInv /\ OrderInv /\ StepInv /\ StoredInv /\ ValueInv /\ OneRowPerInstant /\ MissionInv

USE DEF samples

\* What a write projects.
Projections == [mission: Missions \cup {None}, at: Instants, column: Columns \cup {None}]

\* A projection has its sample's mission, and the instant and column of another sample.
LEMMA ProjectionType ==
  ASSUME TypeOK, ShownInv, NEW n \in 1 .. Len(sent)
  PROVE  Projection(n) \in Projections /\ Projection(n).mission = sent[n].mission
<1>1. shown[n] \in 1 .. Len(sent)
  BY DEF ShownInv
<1>2. sent[n] \in Samples /\ sent[shown[n]] \in Samples
  BY <1>1 DEF TypeOK
<1>3. sent[n].mission \in Missions \cup {None} /\ sent[shown[n]].at \in Instants
  BY <1>2 DEF Samples, Parameters, Messages
<1> QED
  BY <1>3 DEF Projection, Projections

\* As long as the samples stay, so does a write's projection.
LEMMA ProjectionKept ==
  ASSUME UNCHANGED samples, NEW n
  PROVE  Projection(n)' = Projection(n)
  BY DEF Projection

-------------------------------------------------------------------------------

\* The initial states satisfy the inductive invariant.
LEMMA InitIInv == Init => IInv
<1> SUFFICES ASSUME Init PROVE IInv
  OBVIOUS
<1>1. TypeOK
  <2>1. sent \in Seq(Samples) /\ rows \in Seq(Rows)
    BY DEF Init
  <2>2. queue \in Seq(1 .. Len(sent)) /\ history \in Seq(1 .. Len(sent))
    BY DEF Init
  <2> QED
    BY <2>1, <2>2 DEF Init, TypeOK
<1>5. ShownInv
  <2>1. shown = <<>> /\ sent = <<>> /\ latest = [k \in Columns |-> {}]
    BY DEF Init
  <2> QED
    BY <2>1 DEF ShownInv
<1>2. OrderInv /\ OneRowPerInstant
  BY DEF Init, OrderInv, OneRowPerInstant
<1>3. StepInv /\ StoredInv /\ ValueInv
  BY DEF Init, StepInv, StoredInv, ValueInv
<1>4. MissionInv
  BY DEF Init, MissionInv, CleanShutdown
<1> QED
  BY <1>1, <1>2, <1>3, <1>4, <1>5 DEF IInv

-------------------------------------------------------------------------------
(* Enqueue *)

\* The backlog without the sample that a full queue drops: its order is kept, and so is
\* the head that is being written.
LEMMA KeptIsQueue ==
  ASSUME IInv, Dropped <= Len(queue)
  PROVE  /\ Kept \in Seq(1 .. Len(sent))
         /\ Len(Kept) = Len(queue) - 1
         /\ \A j \in 1 .. Len(Kept) : \E i \in 1 .. Len(queue) : Kept[j] = queue[i]
         /\ \A i, j \in 1 .. Len(Kept) : i < j => Kept[i] < Kept[j]
         /\ active => Len(Kept) >= 1 /\ Kept[1] = queue[1]
<1> DEFINE n == Len(queue) - 1
<1>1. n \in Nat /\ Len(queue) = n + 1 /\ Dropped \in {1, 2} /\ (active <=> Dropped = 2)
  BY DEF IInv, TypeOK, Dropped
<1>2. \A j \in 1 .. n : Kept[j] = IF j < Dropped THEN queue[j] ELSE queue[j + 1]
  BY DEF Kept
<1>3. \A j \in 1 .. n : Kept[j] \in 1 .. Len(sent)
  BY <1>1, <1>2 DEF IInv, TypeOK
<1>4. Kept \in Seq(1 .. Len(sent)) /\ Len(Kept) = n
  <2>1. Kept \in Seq(1 .. Len(sent))
    <3>1. \A j \in 1 .. n :
            (IF j < Dropped THEN queue[j] ELSE queue[j + 1]) \in 1 .. Len(sent)
      BY <1>2, <1>3
    <3>2. Kept = [j \in 1 .. n |-> IF j < Dropped THEN queue[j] ELSE queue[j + 1]]
      BY DEF Kept
    <3> HIDE DEF n
    <3> QED
      BY <1>1, <3>1, <3>2
  <2>2. Len(Kept) = n
    BY <1>1 DEF Kept
  <2> QED
    BY <2>1, <2>2
<1>5. \A j \in 1 .. n : \E i \in 1 .. Len(queue) : Kept[j] = queue[i]
  BY <1>1, <1>2
<1>6. ASSUME NEW i \in 1 .. n, NEW j \in 1 .. n, i < j PROVE Kept[i] < Kept[j]
  <2>1. \A k, l \in 1 .. Len(queue) : k < l => queue[k] < queue[l]
    BY DEF IInv, OrderInv
  <2>2. i \in 1 .. Len(queue) /\ j \in 1 .. Len(queue) /\ i + 1 \in 1 .. Len(queue)
        /\ j + 1 \in 1 .. Len(queue) /\ i < j + 1 /\ i + 1 < j + 1
    BY <1>1, <1>6
  <2>3. queue[i] < queue[j] /\ queue[i] < queue[j + 1] /\ queue[i + 1] < queue[j + 1]
    BY <1>6, <2>1, <2>2
  <2> QED
    BY <1>1, <1>2, <1>6, <2>3
<1>7. active => n >= 1 /\ Kept[1] = queue[1]
  BY <1>1, <1>2
<1> QED
  BY <1>4, <1>5, <1>6, <1>7

\* A sequence over a set is one over every larger set.
LEMMA SeqGrows ==
  ASSUME NEW S, NEW T, S \subseteq T, NEW s \in Seq(S)
  PROVE  s \in Seq(T)
  OBVIOUS

\* A number above all those of an ascending backlog is appended.
LEMMA AppendAscending ==
  ASSUME NEW n \in Nat, NEW q \in Seq(1 .. n), \A i, j \in 1 .. Len(q) : i < j => q[i] < q[j]
  PROVE  LET r == Append(q, n + 1)
         IN  /\ r \in Seq(1 .. n + 1) /\ Len(r) = Len(q) + 1 /\ Len(q) \in Nat
             /\ \A j \in 1 .. Len(q) : r[j] = q[j]
             /\ r[Len(q) + 1] = n + 1
             /\ \A i, j \in 1 .. Len(r) : i < j => r[i] < r[j]
<1> DEFINE r == Append(q, n + 1)
<1>1. q \in Seq(1 .. n + 1) /\ n + 1 \in 1 .. n + 1 /\ Len(q) \in Nat
  OBVIOUS
<1>2. /\ r \in Seq(1 .. n + 1) /\ Len(r) = Len(q) + 1
      /\ \A j \in 1 .. Len(q) : r[j] = q[j]
      /\ r[Len(q) + 1] = n + 1
  BY <1>1, AppendProperties
<1>3. ASSUME NEW i \in 1 .. Len(r), NEW j \in 1 .. Len(r), i < j PROVE r[i] < r[j]
  <2>1. i \in 1 .. Len(q) /\ q[i] \in 1 .. n /\ r[i] = q[i]
    BY <1>1, <1>2, <1>3
  <2>2. CASE j = Len(q) + 1
    BY <1>2, <2>1, <2>2
  <2>3. CASE j \in 1 .. Len(q)
    BY <1>2, <1>3, <2>1, <2>3
  <2> QED
    BY <1>1, <1>2, <2>2, <2>3
<1> QED
  BY <1>1, <1>2, <1>3

\* The new sample has the highest number; the backlog keeps its order and its head.
LEMMA EnqueueBacklog ==
  ASSUME IInv, NEW s \in Samples, Enqueue(s)
  PROVE  /\ sent' \in Seq(Samples) /\ Len(sent') = Len(sent) + 1
         /\ \A k \in 1 .. Len(sent) : sent'[k] = sent[k]
         /\ sent'[Len(sent) + 1] = s
         /\ queue' \in Seq(1 .. Len(sent'))
         /\ \A j \in 1 .. Len(queue') :
              queue'[j] = Len(sent) + 1 \/ \E i \in 1 .. Len(queue) : queue'[j] = queue[i]
         /\ \A i, j \in 1 .. Len(queue') : i < j => queue'[i] < queue'[j]
         /\ active' \in BOOLEAN /\ (active' => queue' # <<>>)
         /\ active => active' /\ Head(queue') = Head(queue)
<1> DEFINE x == Len(sent) + 1
<1>1. s \in Samples
  OBVIOUS
<1>2. sent' = Append(sent, s) /\ sent \in Seq(Samples) /\ Len(sent) \in Nat
  BY DEF Enqueue, IInv, TypeOK
<1>3. /\ sent' \in Seq(Samples) /\ Len(sent') = x /\ x \in 1 .. Len(sent')
      /\ \A k \in 1 .. Len(sent) : sent'[k] = sent[k]
      /\ sent'[x] = s
  BY <1>1, <1>2
<1>4. ASSUME NEW q \in Seq(1 .. Len(sent)), queue' = Append(q, x), active' = TRUE,
             \A j \in 1 .. Len(q) : \E i \in 1 .. Len(queue) : q[j] = queue[i],
             \A i, j \in 1 .. Len(q) : i < j => q[i] < q[j],
             active => Len(q) >= 1 /\ q[1] = queue[1]
      PROVE  /\ queue' \in Seq(1 .. Len(sent'))
             /\ \A j \in 1 .. Len(queue') :
                  queue'[j] = x \/ \E i \in 1 .. Len(queue) : queue'[j] = queue[i]
             /\ \A i, j \in 1 .. Len(queue') : i < j => queue'[i] < queue'[j]
             /\ active' \in BOOLEAN /\ (active' => queue' # <<>>)
             /\ active => active' /\ Head(queue') = Head(queue)
  <2>1. /\ queue' \in Seq(1 .. x) /\ Len(queue') = Len(q) + 1 /\ Len(q) \in Nat
        /\ \A j \in 1 .. Len(q) : queue'[j] = q[j]
        /\ queue'[Len(q) + 1] = x
        /\ \A i, j \in 1 .. Len(queue') : i < j => queue'[i] < queue'[j]
    BY <1>2, <1>4, AppendAscending
  <2>2. active => Head(queue') = Head(queue)
    <3>1. active => queue # <<>> /\ queue \in Seq(1 .. Len(sent))
      BY DEF IInv, TypeOK
    <3>2. active => queue'[1] = queue[1] /\ queue' # <<>>
      BY <1>4, <2>1
    <3> QED
      BY <2>1, <3>1, <3>2
  <2>3. \A j \in 1 .. Len(queue') :
          queue'[j] = x \/ \E i \in 1 .. Len(queue) : queue'[j] = queue[i]
    BY <1>4, <2>1
  <2>4. queue' # <<>>
    BY <2>1
  <2> QED
    BY <1>3, <1>4, <2>1, <2>2, <2>3, <2>4
<1>5. CASE Len(queue) < Capacity
  <2>1. queue' = Append(queue, x) /\ active' = TRUE
    <3>1. ~(Len(queue) >= Capacity)
      BY <1>5, BoundsAssumption DEF BoundsAssumption, IInv, TypeOK
    <3> QED
      BY <1>3, <3>1 DEF Enqueue
  <2>2. queue \in Seq(1 .. Len(sent)) /\ (active => Len(queue) >= 1)
    BY DEF IInv, TypeOK
  <2>3. \A i, j \in 1 .. Len(queue) : i < j => queue[i] < queue[j]
    BY DEF IInv, OrderInv
  <2>4. \A j \in 1 .. Len(queue) : \E i \in 1 .. Len(queue) : queue[j] = queue[i]
    OBVIOUS
  <2>5. active => Len(queue) >= 1 /\ queue[1] = queue[1]
    BY <2>2
  <2>6. /\ queue' \in Seq(1 .. Len(sent'))
        /\ \A j \in 1 .. Len(queue') :
             queue'[j] = x \/ \E i \in 1 .. Len(queue) : queue'[j] = queue[i]
        /\ \A i, j \in 1 .. Len(queue') : i < j => queue'[i] < queue'[j]
        /\ active' \in BOOLEAN /\ (active' => queue' # <<>>)
        /\ active => active' /\ Head(queue') = Head(queue)
    <3> HIDE DEF x
    <3> QED
      BY <1>4, <2>1, <2>2, <2>3, <2>4, <2>5
  <2> QED
    BY <1>3, <2>6
<1>6. CASE Len(queue) >= Capacity /\ Dropped <= Len(queue)
  <2>1. queue' = Append(Kept, x) /\ active' = TRUE
    <3>1. ~(Len(queue) < Capacity) /\ ~(Dropped > Len(queue))
      BY <1>6, BoundsAssumption DEF BoundsAssumption, IInv, TypeOK, Dropped
    <3> QED
      BY <1>3, <3>1 DEF Enqueue
  <2>2. /\ Kept \in Seq(1 .. Len(sent))
        /\ \A j \in 1 .. Len(Kept) : \E i \in 1 .. Len(queue) : Kept[j] = queue[i]
        /\ \A i, j \in 1 .. Len(Kept) : i < j => Kept[i] < Kept[j]
        /\ active => Len(Kept) >= 1 /\ Kept[1] = queue[1]
    BY <1>6, KeptIsQueue
  <2>3. /\ queue' \in Seq(1 .. Len(sent'))
        /\ \A j \in 1 .. Len(queue') :
             queue'[j] = x \/ \E i \in 1 .. Len(queue) : queue'[j] = queue[i]
        /\ \A i, j \in 1 .. Len(queue') : i < j => queue'[i] < queue'[j]
        /\ active' \in BOOLEAN /\ (active' => queue' # <<>>)
        /\ active => active' /\ Head(queue') = Head(queue)
    <3> HIDE DEF x
    <3> QED
      BY <1>4, <2>1, <2>2
  <2> QED
    BY <1>3, <2>3
<1>7. CASE UNCHANGED <<queue, active>>
  <2>1. queue \in Seq(1 .. x)
    BY <1>2 DEF IInv, TypeOK
  <2> QED
    BY <1>3, <1>7, <2>1 DEF IInv, TypeOK, OrderInv
<1> QED
  BY <1>3, <1>5, <1>6, <1>7 DEF Enqueue

\* A sample comes with a projection sample that has been enqueued, itself at the latest.
LEMMA EnqueueShown ==
  ASSUME IInv, NEW s \in Samples, EnqueueRaw(s) \/ IngestParameterSample(s)
  PROVE  /\ Enqueue(s)
         /\ shown' \in Seq(1 .. Len(sent')) /\ Len(shown') = Len(sent')
         /\ \A k \in 1 .. Len(shown) : shown'[k] = shown[k]
         /\ latest' \in [Columns -> SUBSET (1 .. Len(sent'))]
<1>1. /\ Enqueue(s) /\ Len(sent') = Len(sent) + 1 /\ Len(sent) \in Nat
      /\ 1 .. Len(sent) \subseteq 1 .. Len(sent') /\ Len(sent') \in 1 .. Len(sent')
  <2>1. Enqueue(s)
    BY DEF EnqueueRaw, IngestParameterSample
  <2>2. Len(sent') = Len(sent) + 1 /\ Len(sent) \in Nat
    BY <2>1, EnqueueBacklog DEF IInv, TypeOK
  <2> QED
    BY <2>1, <2>2
<1>2. shown \in Seq(1 .. Len(sent')) /\ Len(shown) = Len(sent)
  BY <1>1, SeqGrows DEF IInv, ShownInv
<1>3. latest \in [Columns -> SUBSET (1 .. Len(sent'))]
  BY <1>1 DEF IInv, ShownInv
<1>4. ASSUME NEW n \in 1 .. Len(sent'), shown' = Append(shown, n)
      PROVE  /\ shown' \in Seq(1 .. Len(sent')) /\ Len(shown') = Len(sent')
             /\ \A k \in 1 .. Len(shown) : shown'[k] = shown[k]
  BY <1>1, <1>2, <1>4, AppendProperties
<1>5. CASE EnqueueRaw(s)
  BY <1>1, <1>3, <1>4, <1>5 DEF EnqueueRaw
<1>6. CASE IngestParameterSample(s)
  <2>1. s.key \in Columns /\ Updating(s)
    BY <1>6 DEF IngestParameterSample, Parameters
  <2>2. latest' \in [Columns -> SUBSET (1 .. Len(sent'))]
    <3> DEFINE own == {n \in latest[s.key] : sent[n].adapter = s.adapter}
    <3>1. \/ latest' = latest
          \/ latest' = [latest EXCEPT ![s.key] = (@ \ own) \cup {Len(sent')}]
      BY <2>1 DEF Updating
    <3> HIDE DEF own
    <3> QED
      BY <1>1, <1>3, <2>1, <3>1
  <2>3. PICK n \in Selected(latest'[s.key]) : shown' = Append(shown, n)
    BY <1>6 DEF IngestParameterSample
  <2>4. n \in 1 .. Len(sent')
    BY <2>1, <2>2, <2>3 DEF Selected
  <2> QED
    BY <1>1, <1>4, <2>2, <2>3, <2>4
<1> QED
  BY <1>5, <1>6

\* A write's projection does not depend on the samples that come after it.
LEMMA EnqueueIInv ==
  ASSUME IInv, NEW s \in Samples, EnqueueRaw(s) \/ IngestParameterSample(s)
  PROVE  IInv'
<1>1. /\ sent' \in Seq(Samples) /\ Len(sent') = Len(sent) + 1
      /\ \A k \in 1 .. Len(sent) : sent'[k] = sent[k]
      /\ sent'[Len(sent) + 1] = s
      /\ queue' \in Seq(1 .. Len(sent'))
      /\ \A j \in 1 .. Len(queue') :
           queue'[j] = Len(sent) + 1 \/ \E i \in 1 .. Len(queue) : queue'[j] = queue[i]
      /\ \A i, j \in 1 .. Len(queue') : i < j => queue'[i] < queue'[j]
      /\ active' \in BOOLEAN /\ (active' => queue' # <<>>)
      /\ active => active' /\ Head(queue') = Head(queue)
  BY EnqueueShown, EnqueueBacklog
<1>2. UNCHANGED <<step, history, rows, known, unsaved, stage, written, faults>>
  BY EnqueueShown DEF Enqueue, tables
<1>11. /\ shown' \in Seq(1 .. Len(sent')) /\ Len(shown') = Len(sent')
       /\ latest' \in [Columns -> SUBSET (1 .. Len(sent'))]
  BY EnqueueShown
<1>12. ASSUME NEW n \in 1 .. Len(sent) PROVE Projection(n)' = Projection(n)
  <2>1. n \in 1 .. Len(shown) /\ shown[n] \in 1 .. Len(sent)
    BY DEF IInv, ShownInv
  <2>2. shown'[n] = shown[n]
    BY <2>1, EnqueueShown
  <2>3. sent'[n] = sent[n] /\ sent'[shown[n]] = sent[shown[n]]
    BY <1>1, <2>1
  <2> QED
    BY <2>2, <2>3 DEF Projection
<1>3. Len(sent) \in Nat /\ 1 .. Len(sent) \subseteq 1 .. Len(sent')
  BY <1>1 DEF IInv, TypeOK
<1>4. TypeOK'
  <2>1. history' \in Seq(1 .. Len(sent'))
    BY <1>2, <1>3, SeqGrows DEF IInv, TypeOK
  <2>2. written' \subseteq 1 .. Len(sent')
    BY <1>2, <1>3 DEF IInv, TypeOK
  <2> QED
    BY <1>1, <1>2, <2>1, <2>2 DEF IInv, TypeOK
<1>13. ShownInv'
  BY <1>11 DEF ShownInv
<1>5. OrderInv'
  <2>1. \A n \in written', j \in 1 .. Len(queue') : n < queue'[j]
    <3>1. \A n \in written : n <= Len(sent) /\ n \in Nat
      BY <1>3 DEF IInv, TypeOK
    <3>2. \A n \in written, j \in 1 .. Len(queue) : n < queue[j]
      BY DEF IInv, OrderInv
    <3> SUFFICES ASSUME NEW n \in written, NEW j \in 1 .. Len(queue')
                 PROVE  n < queue'[j]
      BY <1>2
    <3>3. CASE queue'[j] = Len(sent) + 1
      BY <1>3, <3>1, <3>3
    <3>4. CASE \E i \in 1 .. Len(queue) : queue'[j] = queue[i]
      BY <3>2, <3>4
    <3> QED
      BY <1>1, <3>3, <3>4
  <2>2. \A k \in 1 .. Len(history'), j \in 1 .. Len(queue') : history'[k] <= queue'[j]
    <3>1. \A k \in 1 .. Len(history) : history[k] <= Len(sent) /\ history[k] \in Nat
      BY <1>3 DEF IInv, TypeOK
    <3>2. \A k \in 1 .. Len(history), j \in 1 .. Len(queue) : history[k] <= queue[j]
      BY DEF IInv, OrderInv
    <3> SUFFICES ASSUME NEW k \in 1 .. Len(history), NEW j \in 1 .. Len(queue')
                 PROVE  history[k] <= queue'[j]
      BY <1>2
    <3>3. CASE queue'[j] = Len(sent) + 1
      BY <1>3, <3>1, <3>3
    <3>4. CASE \E i \in 1 .. Len(queue) : queue'[j] = queue[i]
      BY <3>2, <3>4
    <3> QED
      BY <1>1, <3>3, <3>4
  <2> QED
    BY <1>1, <1>2, <2>1, <2>2 DEF IInv, OrderInv
<1>6. StepInv'
  <2> SUFFICES ASSUME step' # "history"
               PROVE  /\ active'
                      /\ Projected(Sample)'
                      /\ \E k \in 1 .. Len(history') : history'[k] = Head(queue')
                      /\ step' = "insert" => Updated(Sample)' = {}
    BY DEF StepInv
  <2>1. active /\ active' /\ Head(queue') = Head(queue) /\ Head(queue) \in 1 .. Len(sent)
    <3>1. active
      BY <1>2 DEF IInv, StepInv
    <3>2. queue # <<>> /\ Head(queue) \in 1 .. Len(sent)
      BY <3>1 DEF IInv, TypeOK
    <3> QED
      BY <1>1, <3>1, <3>2
  <2>2. Sample' = Sample
    <3>1. Sample' = Projection(Head(queue))'
      BY <2>1 DEF Sample, Projection
    <3> QED
      BY <1>12, <2>1, <3>1 DEF Sample
  <2>3. Updated(Sample)' = Updated(Sample)
    BY <1>2, <2>2 DEF Updated, Matches
  <2> QED
    BY <1>2, <2>1, <2>2, <2>3 DEF IInv, StepInv, Projected
<1>7. StoredInv'
  <2>1. \A n \in written' : n \in 1 .. Len(sent) /\ Projection(n)' = Projection(n)
    BY <1>2, <1>12 DEF IInv, TypeOK
  <2> QED
    BY <1>2, <2>1 DEF IInv, StoredInv, Projected, Matches
<1>8. ValueInv'
  <2> SUFFICES ASSUME NEW i \in 1 .. Len(rows), NEW col \in Columns
               PROVE  LET v == rows[i].values[col]
                      IN  /\ v # 0 => v \in 1 .. Len(sent') /\ Projects(v, rows[i], col)'
                          /\ \A k \in 1 .. Len(queue') : v <= queue'[k]
                          /\ \A n \in written : Projects(n, rows[i], col)' => n <= v
    BY <1>2 DEF ValueInv, Projects, Projected, Matches
  <2> DEFINE v == rows[i].values[col]
  <2>1. /\ v # 0 => v \in 1 .. Len(sent) /\ Projects(v, rows[i], col)
        /\ \A k \in 1 .. Len(queue) : v <= queue[k]
        /\ \A n \in written : Projects(n, rows[i], col) => n <= v
    BY DEF IInv, ValueInv
  <2>2. \A n \in 1 .. Len(sent) : Projects(n, rows[i], col)' <=> Projects(n, rows[i], col)
    BY <1>2, <1>12 DEF Projects, Projected, Matches
  <2>3. v <= Len(sent)
    BY <1>3, <2>1
  <2>4. \A k \in 1 .. Len(queue') : v <= queue'[k]
    <3>1. v \in Nat
      BY <1>3, <2>1
    <3> SUFFICES ASSUME NEW k \in 1 .. Len(queue') PROVE v <= queue'[k]
      OBVIOUS
    <3> HIDE DEF v
    <3>2. CASE queue'[k] = Len(sent) + 1
      BY <1>3, <2>3, <3>1, <3>2
    <3>3. CASE \E j \in 1 .. Len(queue) : queue'[k] = queue[j]
      BY <2>1, <3>3
    <3> QED
      BY <1>1, <3>2, <3>3
  <2>5. \A n \in written : n \in 1 .. Len(sent)
    BY DEF IInv, TypeOK
  <2>6. v # 0 => v \in 1 .. Len(sent') /\ Projects(v, rows[i], col)'
    BY <1>2, <1>3, <2>1, <2>2
  <2>7. \A n \in written : Projects(n, rows[i], col)' => n <= v
    BY <2>1, <2>2, <2>5
  <2> QED
    BY <2>4, <2>6, <2>7
<1>9. OneRowPerInstant'
  BY <1>2 DEF IInv, OneRowPerInstant
<1>10. MissionInv'
  <2>1. s.mission \in known \cup unsaved \cup {None}
    BY EnqueueShown DEF Enqueue
  <2>2. \A n \in 1 .. Len(sent') : n \in 1 .. Len(sent) \/ n = Len(sent) + 1
    BY <1>1, <1>3
  <2> QED
    BY <1>1, <1>2, <2>1, <2>2 DEF IInv, MissionInv, CleanShutdown
<1> QED
  BY <1>4, <1>13, <1>5, <1>6, <1>7, <1>8, <1>9, <1>10 DEF IInv

-------------------------------------------------------------------------------
(* The statements *)

\* The head of the backlog is its oldest sample.
LEMMA HeadIsOldest ==
  ASSUME IInv, NEW n \in 1 .. Len(sent), n <= Head(queue)
  PROVE  \A i \in 1 .. Len(queue) : n <= queue[i]
<1> SUFFICES ASSUME NEW i \in 1 .. Len(queue) PROVE n <= queue[i]
  OBVIOUS
<1>1. /\ queue # <<>> /\ Head(queue) = queue[1] /\ 1 \in 1 .. Len(queue)
      /\ queue[1] \in Nat /\ queue[i] \in Nat /\ n \in Nat
  BY DEF IInv, TypeOK
<1>2. queue[1] <= queue[i]
  <2>1. CASE i = 1
    BY <1>1, <2>1
  <2>2. CASE 1 < i
    BY <1>1, <2>2 DEF IInv, OrderInv
  <2> QED
    BY <2>1, <2>2
<1> QED
  BY <1>1, <1>2

\* What the effect of a statement is, whether it is acknowledged or not: rows keep their
\* place and their instant, no instant gets a second row, and the values are those of
\* samples up to the one being written.
LEMMA StatementEffect ==
  ASSUME IInv, active, Statement
  PROVE  /\ history' \in Seq(1 .. Len(sent)) /\ rows' \in Seq(Rows) /\ UNCHANGED known
         /\ \A k, l \in 1 .. Len(history') : k < l => history'[k] <= history'[l]
         /\ \A k \in 1 .. Len(history') : history'[k] <= Head(queue)
         /\ \A k \in 1 .. Len(history) : \E l \in 1 .. Len(history') : history'[l] = history[k]
         /\ \E k \in 1 .. Len(history') : history'[k] = Head(queue)
         /\ \A i \in 1 .. Len(rows) : \E j \in 1 .. Len(rows') :
              rows'[j].mission = rows[i].mission /\ rows'[j].at = rows[i].at
         /\ OneRowPerInstant'
         /\ \A i \in 1 .. Len(rows'), c \in Columns :
              LET v == rows'[i].values[c]
              IN  /\ v # 0 => v \in 1 .. Len(sent) /\ Projects(v, rows'[i], c)
                  /\ v <= Head(queue)
                  /\ \A n \in written : Projects(n, rows'[i], c) => n <= v
         /\ After = "update" => UNCHANGED rows
         /\ After = "insert" => UNCHANGED rows
         /\ After = "done" /\ Projected(Sample) =>
              /\ \E i \in 1 .. Len(rows') : Matches(rows'[i], Sample)
              /\ \A i \in 1 .. Len(rows'), c \in Columns :
                   Projects(Head(queue), rows'[i], c) => rows'[i].values[c] = Head(queue)
<1> DEFINE h == Head(queue)
<1>1. /\ queue # <<>> /\ h \in 1 .. Len(sent) /\ Len(sent) \in Nat /\ h = queue[1]
      /\ 1 \in 1 .. Len(queue) /\ Projection(h) = Sample
      /\ Sample \in Projections
  <2>1. queue \in Seq(1 .. Len(sent)) /\ queue # <<>> /\ Len(sent) \in Nat
    BY DEF IInv, TypeOK
  <2> QED
    BY <2>1, ProjectionType DEF Sample, IInv
<1>2. /\ \A k \in 1 .. Len(history) : history[k] <= h /\ history[k] \in 1 .. Len(sent)
      /\ Len(history) \in Nat /\ Len(rows) \in Nat
  <2>1. history \in Seq(1 .. Len(sent)) /\ rows \in Seq(Rows)
    BY DEF IInv, TypeOK
  <2>2. \A k \in 1 .. Len(history), i \in 1 .. Len(queue) : history[k] <= queue[i]
    BY DEF IInv, OrderInv
  <2> HIDE DEF h
  <2> QED
    BY <1>1, <2>1, <2>2
<1>3. \A i \in 1 .. Len(rows), c \in Columns :
        LET v == rows[i].values[c]
        IN  /\ v # 0 => v \in 1 .. Len(sent) /\ Projects(v, rows[i], c)
            /\ v <= h
            /\ \A n \in written : Projects(n, rows[i], c) => n <= v
  BY <1>1 DEF IInv, ValueInv
<1>4. \A n \in written : n < h /\ n \in Nat
  BY <1>1 DEF IInv, OrderInv, TypeOK
<1>5. CASE step = "history" /\ InsertHistory
  <2>1. UNCHANGED <<rows, known>>
    BY <1>5 DEF InsertHistory
  <2>2. /\ history' \in Seq(1 .. Len(sent))
        /\ \A k, l \in 1 .. Len(history') : k < l => history'[k] <= history'[l]
        /\ \A k \in 1 .. Len(history') : history'[k] <= h
        /\ \A k \in 1 .. Len(history) : \E l \in 1 .. Len(history') : history'[l] = history[k]
        /\ \E k \in 1 .. Len(history') : history'[k] = h
    <3>1. CASE history # <<>> /\ history[Len(history)] = h
      <4>1. history' = history /\ Len(history) \in 1 .. Len(history)
        BY <1>2, <1>5, <3>1 DEF InsertHistory, IInv, TypeOK
      <4> QED
        BY <1>2, <3>1, <4>1 DEF IInv, TypeOK, OrderInv
    <3>2. CASE ~(history # <<>> /\ history[Len(history)] = h)
      <4>1. history' = Append(history, h) /\ history \in Seq(1 .. Len(sent))
        BY <1>5, <3>2 DEF InsertHistory, IInv, TypeOK
      <4>2. /\ history' \in Seq(1 .. Len(sent)) /\ Len(history') = Len(history) + 1
            /\ \A k \in 1 .. Len(history) : history'[k] = history[k]
            /\ history'[Len(history) + 1] = h
        BY <1>1, <4>1, AppendProperties
      <4>3. \A k, l \in 1 .. Len(history) : k < l => history[k] <= history[l]
        BY DEF IInv, OrderInv
      <4>4. \A k \in 1 .. Len(history') : k \in 1 .. Len(history) \/ k = Len(history) + 1
        BY <1>2, <4>2
      <4> HIDE DEF h
      <4>5. ASSUME NEW k \in 1 .. Len(history') PROVE history'[k] <= h
        <5>1. h \in Nat /\ h <= h
          BY <1>1
        <5>2. CASE k \in 1 .. Len(history)
          BY <1>2, <4>2, <5>2
        <5>3. CASE k = Len(history) + 1
          BY <4>2, <5>1, <5>3
        <5> QED
          BY <4>4, <5>2, <5>3
      <4>6. ASSUME NEW k \in 1 .. Len(history'), NEW l \in 1 .. Len(history'), k < l
            PROVE  history'[k] <= history'[l]
        <5>1. k \in 1 .. Len(history) /\ history'[k] = history[k]
          BY <1>2, <4>2, <4>6
        <5>2. CASE l \in 1 .. Len(history)
          BY <4>2, <4>3, <4>6, <5>1, <5>2
        <5>3. CASE l = Len(history) + 1
          BY <1>2, <4>2, <5>1, <5>3
        <5> QED
          BY <4>4, <5>2, <5>3
      <4>7. \A k \in 1 .. Len(history) : k \in 1 .. Len(history') /\ history'[k] = history[k]
        BY <1>2, <4>2
      <4>8. Len(history) + 1 \in 1 .. Len(history') /\ history'[Len(history) + 1] = h
        BY <1>2, <4>2
      <4>9. /\ \A k \in 1 .. Len(history) : \E l \in 1 .. Len(history') : history'[l] = history[k]
            /\ \E k \in 1 .. Len(history') : history'[k] = h
        BY <4>7, <4>8, Zenon
      <4> QED
        BY <4>2, <4>5, <4>6, <4>9
    <3> QED
      BY <3>1, <3>2
  <2>3. After = "done" => ~Projected(Sample)
    BY <1>5 DEF After
  <2> QED
    BY <1>3, <2>1, <2>2, <2>3 DEF IInv, TypeOK, OneRowPerInstant
<1>6. ASSUME step # "history"
      PROVE  /\ Projected(Sample) /\ Sample \in Projections
             /\ Sample.mission \in Missions /\ Sample.column \in Columns /\ Sample.at \in Instants
             /\ \E k \in 1 .. Len(history) : history[k] = h
             /\ step = "insert" => Updated(Sample) = {}
  <2>1. Sample \in Projections
    BY <1>1
  <2> QED
    BY <1>6, <2>1 DEF IInv, StepInv, Projected, Projections
<1>7. CASE step = "update" /\ UpdateRows
  <2>1. /\ history' = history /\ known' = known /\ Len(rows') = Len(rows)
        /\ \A i \in 1 .. Len(rows) :
             rows'[i] = IF i \in Updated(Sample)
                        THEN [rows[i] EXCEPT !.values[Sample.column] = h]
                        ELSE rows[i]
    BY <1>2, <1>7 DEF UpdateRows
  <2>2. \A i \in 1 .. Len(rows) : rows[i] \in Rows
    BY DEF IInv, TypeOK
  <2>3. \A i \in 1 .. Len(rows) :
          /\ rows'[i] \in Rows
          /\ rows'[i].mission = rows[i].mission /\ rows'[i].at = rows[i].at
          /\ \A c \in Columns :
               rows'[i].values[c] = IF i \in Updated(Sample) /\ c = Sample.column THEN h
                                    ELSE rows[i].values[c]
    <3> SUFFICES ASSUME NEW i \in 1 .. Len(rows)
                 PROVE  /\ rows'[i] \in Rows
                        /\ rows'[i].mission = rows[i].mission /\ rows'[i].at = rows[i].at
                        /\ \A c \in Columns :
                             rows'[i].values[c] = IF i \in Updated(Sample) /\ c = Sample.column
                                                  THEN h ELSE rows[i].values[c]
      OBVIOUS
    <3>1. rows[i] \in Rows /\ h \in Nat
      BY <1>1, <2>2
    <3>2. CASE i \in Updated(Sample)
      <4>1. rows'[i] = [rows[i] EXCEPT !.values[Sample.column] = h]
        BY <2>1, <3>2
      <4> HIDE DEF h
      <4>2. rows'[i].values = [rows[i].values EXCEPT ![Sample.column] = h]
        BY <3>1, <4>1 DEF Rows
      <4> QED
        BY <3>1, <3>2, <4>1, <4>2 DEF Rows
    <3>3. CASE i \notin Updated(Sample)
      BY <2>1, <3>1, <3>3
    <3> QED
      BY <3>2, <3>3
  <2>4. rows' \in Seq(Rows)
    <3>1. rows' = [i \in 1 .. Len(rows) |->
                IF i \in Updated(Sample) THEN [rows[i] EXCEPT !.values[Sample.column] = h]
                ELSE rows[i]]
      BY <1>7 DEF UpdateRows
    <3>2. \A i \in 1 .. Len(rows) :
            (IF i \in Updated(Sample) THEN [rows[i] EXCEPT !.values[Sample.column] = h]
             ELSE rows[i]) \in Rows
      BY <2>1, <2>3
    <3> QED
      BY <1>2, <3>1, <3>2
  <2>5. OneRowPerInstant'
    BY <2>1, <2>3 DEF IInv, OneRowPerInstant
  <2>6. ASSUME NEW i \in 1 .. Len(rows), NEW c \in Columns
        PROVE  LET v == rows'[i].values[c]
               IN  /\ v # 0 => v \in 1 .. Len(sent) /\ Projects(v, rows'[i], c)
                   /\ v <= h
                   /\ \A n \in written : Projects(n, rows'[i], c) => n <= v
    <3>1. \A n : Projects(n, rows'[i], c) <=> Projects(n, rows[i], c)
      BY <2>3 DEF Projects, Matches
    <3>2. CASE i \in Updated(Sample) /\ c = Sample.column
      <4>1. rows'[i].values[c] = h /\ Projects(h, rows[i], c)
        BY <1>1, <1>6, <1>7, <2>3, <3>2 DEF Projects, Updated
      <4> HIDE DEF h
      <4> QED
        BY <1>1, <1>4, <3>1, <4>1
    <3>3. CASE ~(i \in Updated(Sample) /\ c = Sample.column)
      BY <1>3, <2>3, <3>1, <3>3
    <3> QED
      BY <3>2, <3>3
  <2>7. ASSUME After = "done"
        PROVE  /\ \E i \in 1 .. Len(rows') : Matches(rows'[i], Sample)
               /\ \A i \in 1 .. Len(rows'), c \in Columns :
                    Projects(h, rows'[i], c) => rows'[i].values[c] = h
    <3>1. Updated(Sample) # {}
      BY <1>7, <2>7 DEF After
    <3>2. \E i \in 1 .. Len(rows') : Matches(rows'[i], Sample)
      BY <2>1, <2>3, <3>1 DEF Updated, Matches
    <3>3. \A i \in 1 .. Len(rows'), c \in Columns :
            Projects(h, rows'[i], c) => i \in Updated(Sample) /\ c = Sample.column
      BY <1>1, <2>1, <2>3 DEF Projects, Updated, Matches
    <3> QED
      BY <2>1, <2>3, <3>2, <3>3
  <2>8. After = "insert" => UNCHANGED rows
    <3>1. After = "insert" => Updated(Sample) = {}
      BY <1>7 DEF After
    <3>2. Updated(Sample) = {} => \A i \in 1 .. Len(rows) : rows'[i] = rows[i]
      BY <2>1
    <3> QED
      BY <1>2, <2>1, <2>4, <3>1, <3>2, SeqEqual DEF IInv, TypeOK
  <2>9. After # "update"
    BY <1>7 DEF After
  <2>10. \A i \in 1 .. Len(rows) : \E j \in 1 .. Len(rows') :
              rows'[j].mission = rows[i].mission /\ rows'[j].at = rows[i].at
    BY <2>1, <2>3
  <2> QED
    BY <1>2, <1>6, <1>7, <2>1, <2>4, <2>5, <2>6, <2>7, <2>8, <2>9, <2>10
       DEF IInv, TypeOK, OrderInv
<1>8. CASE step = "insert" /\ InsertRow
  <2> DEFINE r == [mission |-> Sample.mission, at |-> Sample.at,
                   values |-> [c \in Columns |-> IF c = Sample.column THEN h ELSE 0]]
  <2>1. /\ history' = history /\ known' = known /\ rows' = Append(rows, r)
    BY <1>8 DEF InsertRow
  <2>2. r \in Rows
    BY <1>1, <1>6, <1>8 DEF Rows
  <2>3. /\ rows' \in Seq(Rows) /\ Len(rows') = Len(rows) + 1
        /\ \A i \in 1 .. Len(rows) : rows'[i] = rows[i]
        /\ rows'[Len(rows) + 1] = r
    BY <2>1, <2>2, AppendProperties DEF IInv, TypeOK
  <2>4. \A i \in 1 .. Len(rows) : ~Matches(rows[i], Sample)
    BY <1>6, <1>8 DEF Updated
  <2>5. \A i \in 1 .. Len(rows') : i \in 1 .. Len(rows) \/ i = Len(rows) + 1
    BY <1>2, <2>3
  <2>6. Matches(r, Sample)
    BY DEF Matches
  <2>7. OneRowPerInstant'
    <3>1. \A i, j \in 1 .. Len(rows) :
            rows[i].mission = rows[j].mission /\ rows[i].at = rows[j].at => i = j
      BY DEF IInv, OneRowPerInstant
    <3>2. \A i \in 1 .. Len(rows) :
            ~(rows[i].mission = r.mission /\ rows[i].at = r.at)
      BY <2>4 DEF Matches
    <3> HIDE DEF r, h
    <3> QED
      BY <2>3, <2>5, <3>1, <3>2 DEF OneRowPerInstant
  <2>8. ASSUME NEW i \in 1 .. Len(rows'), NEW c \in Columns
        PROVE  LET v == rows'[i].values[c]
               IN  /\ v # 0 => v \in 1 .. Len(sent) /\ Projects(v, rows'[i], c)
                   /\ v <= h
                   /\ \A n \in written : Projects(n, rows'[i], c) => n <= v
    <3>1. CASE i \in 1 .. Len(rows)
      BY <1>3, <2>3, <3>1
    <3>2. CASE i = Len(rows) + 1
      <4>1. rows'[i].values[c] = IF c = Sample.column THEN h ELSE 0
        BY <2>3, <3>2
      <4>2. rows'[i].mission = Sample.mission /\ rows'[i].at = Sample.at
        BY <2>3, <3>2
      <4>3. \A n \in written : ~Projects(n, rows'[i], c)
        <5> SUFFICES ASSUME NEW n \in written, Projects(n, rows'[i], c) PROVE FALSE
          OBVIOUS
        <5>1. Projected(Projection(n)) /\ Projection(n).mission = Sample.mission /\ Projection(n).at = Sample.at
          BY <4>2 DEF Projects, Matches
        <5>2. PICK k \in 1 .. Len(rows) : Matches(rows[k], Projection(n))
          BY <5>1 DEF IInv, StoredInv
        <5> QED
          BY <2>4, <5>1, <5>2 DEF Matches
      <4>4. c = Sample.column => Projects(h, rows'[i], c)
        BY <1>1, <1>6, <1>8, <4>2 DEF Projects, Matches
      <4> HIDE DEF h
      <4> QED
        BY <1>1, <4>1, <4>3, <4>4
    <3> QED
      BY <2>5, <3>1, <3>2
  <2>9. /\ \E i \in 1 .. Len(rows') : Matches(rows'[i], Sample)
        /\ \A i \in 1 .. Len(rows'), c \in Columns :
             Projects(h, rows'[i], c) => rows'[i].values[c] = h
    <3>1. Len(rows) + 1 \in 1 .. Len(rows')
      BY <1>2, <2>3
    <3>2. ASSUME NEW i \in 1 .. Len(rows'), NEW c \in Columns, Projects(h, rows'[i], c)
          PROVE  rows'[i].values[c] = h
      <4>1. i = Len(rows) + 1 /\ c = Sample.column
        BY <1>1, <2>3, <2>4, <2>5, <3>2 DEF Projects
      <4> QED
        BY <2>3, <3>2, <4>1
    <3> QED
      BY <2>3, <2>6, <3>1, <3>2
  <2>10. After # "update" /\ After # "insert"
    BY <1>8 DEF After
  <2>11. \A i \in 1 .. Len(rows) : \E j \in 1 .. Len(rows') :
              rows'[j].mission = rows[i].mission /\ rows'[j].at = rows[i].at
    BY <1>2, <2>3
  <2> QED
    BY <1>2, <1>6, <1>8, <2>1, <2>3, <2>7, <2>8, <2>9, <2>10, <2>11
       DEF IInv, TypeOK, OrderInv
<1> QED
  BY <1>5, <1>7, <1>8 DEF Statement

-------------------------------------------------------------------------------
(* The queue's steps *)

\* A statement that is followed by another one of the same write.
LEMMA ContinueIInv ==
  ASSUME IInv, active, Statement, After # "done", step' = After,
         UNCHANGED <<samples, queue, active, written, stage, unsaved, faults>>
  PROVE  IInv'
<1>1. /\ history' \in Seq(1 .. Len(sent)) /\ rows' \in Seq(Rows) /\ UNCHANGED known
      /\ \A k, l \in 1 .. Len(history') : k < l => history'[k] <= history'[l]
      /\ \A k \in 1 .. Len(history') : history'[k] <= Head(queue)
      /\ \A k \in 1 .. Len(history) : \E l \in 1 .. Len(history') : history'[l] = history[k]
      /\ \E k \in 1 .. Len(history') : history'[k] = Head(queue)
      /\ UNCHANGED rows
      /\ After \in {"update", "insert"}
  <2>1. After \in {"update", "insert"}
    BY DEF After, Statement
  <2> QED
    BY <2>1, StatementEffect
<1>2. Sample' = Sample /\ Projected(Sample)' = Projected(Sample) /\ Updated(Sample)' = Updated(Sample)
  BY <1>1 DEF Sample, Projection, Projected, Updated, Matches
<1>3. Projected(Sample) /\ (After = "insert" => Updated(Sample) = {})
  BY <1>1 DEF After, Statement, IInv, StepInv
<1>4. TypeOK'
  BY <1>1 DEF IInv, TypeOK
<1>10. ShownInv'
  BY DEF IInv, ShownInv
<1>5. OrderInv'
  <2>1. \A k \in 1 .. Len(history'), i \in 1 .. Len(queue) : history'[k] <= queue[i]
    <3>1. \A k \in 1 .. Len(history') : history'[k] \in 1 .. Len(sent)
      BY <1>1
    <3> QED
      BY <1>1, <3>1, HeadIsOldest
  <2> QED
    BY <1>1, <2>1 DEF IInv, OrderInv
<1>6. StepInv'
  <2>1. step' \in {"update", "insert"} /\ active' /\ Head(queue') = Head(queue)
    BY <1>1
  <2>2. \E k \in 1 .. Len(history') : history'[k] = Head(queue)
    BY <1>1
  <2> QED
    BY <1>2, <1>3, <2>1, <2>2 DEF StepInv
<1>7. StoredInv'
  <2>1. \A n \in written : \E k \in 1 .. Len(history') : history'[k] = n
    BY <1>1 DEF IInv, StoredInv
  <2> QED
    BY <1>1, <2>1 DEF IInv, StoredInv, Matches, Projected, Projection
<1>8. ValueInv' /\ OneRowPerInstant'
  <2>1. rows' = rows
    BY <1>1
  <2>2. OneRowPerInstant'
    BY <2>1 DEF IInv, OneRowPerInstant
  <2>3. ValueInv'
    BY <2>1 DEF IInv, ValueInv, Projects, Matches, Projected, Projection
  <2> QED
    BY <2>2, <2>3
<1>9. MissionInv'
  BY <1>1 DEF IInv, MissionInv, CleanShutdown
<1> QED
  BY <1>4, <1>10, <1>5, <1>6, <1>7, <1>8, <1>9 DEF IInv

\* A write that failed and will be repeated, whatever its statement did.
LEMMA RetryIInv ==
  ASSUME IInv, active, Retry, UNCHANGED <<samples, unsaved>>, faults' \in Nat, faults <= faults',
         \/ Statement
         \/ UNCHANGED tables,
         stage = "closing" => faults' > 0
  PROVE  IInv'
<1>1. /\ queue' = queue /\ active' = FALSE /\ step' = "history" /\ written' = written
      /\ stage' = IF stage = "closing" THEN "aborted" ELSE stage
  BY DEF Retry, Backlog
<1>2. queue # <<>> /\ Head(queue) \in 1 .. Len(sent)
  BY DEF IInv, TypeOK
<1>3. /\ history' \in Seq(1 .. Len(sent)) /\ rows' \in Seq(Rows) /\ UNCHANGED known
      /\ \A k, l \in 1 .. Len(history') : k < l => history'[k] <= history'[l]
      /\ \A k \in 1 .. Len(history'), i \in 1 .. Len(queue) : history'[k] <= queue[i]
      /\ \A k \in 1 .. Len(history) : \E l \in 1 .. Len(history') : history'[l] = history[k]
      /\ \A i \in 1 .. Len(rows) : \E j \in 1 .. Len(rows') :
           rows'[j].mission = rows[i].mission /\ rows'[j].at = rows[i].at
      /\ OneRowPerInstant'
      /\ \A i \in 1 .. Len(rows'), c \in Columns :
           LET v == rows'[i].values[c]
           IN  /\ v # 0 => v \in 1 .. Len(sent) /\ Projects(v, rows'[i], c)
               /\ \A k \in 1 .. Len(queue) : v <= queue[k]
               /\ \A n \in written : Projects(n, rows'[i], c) => n <= v
  <2>1. CASE Statement
    <3>1. \A n \in 1 .. Len(sent) : n <= Head(queue) => \A i \in 1 .. Len(queue) : n <= queue[i]
      BY HeadIsOldest
    <3>2. \A k \in 1 .. Len(history') : history'[k] \in 1 .. Len(sent) /\ history'[k] <= Head(queue)
      BY <2>1, StatementEffect
    <3>3. \A i \in 1 .. Len(rows'), c \in Columns :
            LET v == rows'[i].values[c]
            IN  /\ v # 0 => v \in 1 .. Len(sent) /\ Projects(v, rows'[i], c)
                /\ v <= Head(queue)
                /\ \A n \in written : Projects(n, rows'[i], c) => n <= v
      BY <2>1, StatementEffect
    <3>4. \A i \in 1 .. Len(rows'), c \in Columns :
            \A k \in 1 .. Len(queue) : rows'[i].values[c] <= queue[k]
      <4>1. \A k \in 1 .. Len(queue) : 0 <= queue[k]
        BY DEF IInv, TypeOK
      <4> QED
        BY <3>1, <3>3, <4>1
    <3> QED
      BY <2>1, <3>1, <3>2, <3>3, <3>4, StatementEffect
  <2>2. CASE UNCHANGED tables
    <3>1. history' = history /\ rows' = rows /\ known' = known
      BY <2>2 DEF tables
    <3>2. \A i \in 1 .. Len(rows) : \E j \in 1 .. Len(rows) :
            rows[j].mission = rows[i].mission /\ rows[j].at = rows[i].at
      OBVIOUS
    <3> QED
      BY <3>1, <3>2 DEF IInv, TypeOK, OrderInv, ValueInv, OneRowPerInstant
  <2> QED
    BY <2>1, <2>2
<1>4. TypeOK'
  BY <1>1, <1>3 DEF IInv, TypeOK
<1>9. ShownInv'
  BY DEF IInv, ShownInv
<1>5. OrderInv' /\ StepInv'
  BY <1>1, <1>3 DEF IInv, OrderInv, StepInv
<1>6. StoredInv'
  <2>1. \A n \in written : \E k \in 1 .. Len(history') : history'[k] = n
    BY <1>3 DEF IInv, StoredInv
  <2>2. \A n \in written :
          Projected(Projection(n)) => \E i \in 1 .. Len(rows') : Matches(rows'[i], Projection(n))
    <3> SUFFICES ASSUME NEW n \in written, Projected(Projection(n))
                 PROVE  \E i \in 1 .. Len(rows') : Matches(rows'[i], Projection(n))
      OBVIOUS
    <3>1. PICK i \in 1 .. Len(rows) : Matches(rows[i], Projection(n))
      BY DEF IInv, StoredInv
    <3>2. \A k \in 1 .. Len(rows) : \E j \in 1 .. Len(rows') :
            rows'[j].mission = rows[k].mission /\ rows'[j].at = rows[k].at
      BY <1>3
    <3>3. PICK j \in 1 .. Len(rows') : rows'[j].mission = rows[i].mission /\ rows'[j].at = rows[i].at
      BY <3>2
    <3> QED
      BY <3>1, <3>3 DEF Matches
  <2> QED
    BY <1>1, <2>1, <2>2 DEF StoredInv, Matches, Projected, Projection
<1>7. ValueInv'
  BY <1>1, <1>3 DEF ValueInv, Projects, Matches, Projected, Projection
<1>8. MissionInv'
  <2>1. faults' = 0 => faults = 0
    BY DEF IInv, TypeOK
  <2> QED
    BY <1>1, <1>3, <2>1 DEF IInv, MissionInv, CleanShutdown
<1> QED
  BY <1>3, <1>4, <1>5, <1>6, <1>7, <1>8, <1>9 DEF IInv

\* The last statement of a write is acknowledged.
LEMMA DoneIInv ==
  ASSUME IInv, active, Statement, After = "done", Done, UNCHANGED <<samples, unsaved, faults>>
  PROVE  IInv'
<1> DEFINE h == Head(queue)
           q == Tail(queue)
<1>1. /\ queue' = q /\ active' = (q # <<>>) /\ step' = "history"
      /\ written' = written \cup {h}
      /\ stage' = IF stage = "closing" /\ ~active' THEN "closed" ELSE stage
  BY DEF Done
<1>2. /\ queue # <<>> /\ h \in 1 .. Len(sent) /\ h = queue[1] /\ Len(queue) \in Nat
      /\ 1 \in 1 .. Len(queue) /\ Projection(h) = Sample /\ Len(sent) \in Nat
  BY DEF IInv, TypeOK, Sample
<1>3. /\ q \in Seq(1 .. Len(sent)) /\ Len(q) = Len(queue) - 1
      /\ \A i \in 1 .. Len(q) : q[i] = queue[i + 1]
  BY <1>2, HeadTailProperties DEF IInv, TypeOK
<1>4. \A i \in 1 .. Len(q) : i + 1 \in 1 .. Len(queue) /\ 1 < i + 1
  BY <1>2, <1>3
<1>5. \A i \in 1 .. Len(q) : h < q[i]
  BY <1>2, <1>3, <1>4 DEF IInv, OrderInv
<1>6. /\ history' \in Seq(1 .. Len(sent)) /\ rows' \in Seq(Rows) /\ UNCHANGED known
      /\ \A k, l \in 1 .. Len(history') : k < l => history'[k] <= history'[l]
      /\ \A k \in 1 .. Len(history') : history'[k] <= h /\ history'[k] \in 1 .. Len(sent)
      /\ \A k \in 1 .. Len(history) : \E l \in 1 .. Len(history') : history'[l] = history[k]
      /\ \E k \in 1 .. Len(history') : history'[k] = h
      /\ \A i \in 1 .. Len(rows) : \E j \in 1 .. Len(rows') :
           rows'[j].mission = rows[i].mission /\ rows'[j].at = rows[i].at
      /\ OneRowPerInstant'
      /\ Projected(Sample) => \E i \in 1 .. Len(rows') : Matches(rows'[i], Sample)
  BY StatementEffect
<1>7. \A i \in 1 .. Len(rows'), c \in Columns :
        LET v == rows'[i].values[c]
        IN  /\ v # 0 => v \in 1 .. Len(sent) /\ Projects(v, rows'[i], c)
            /\ v <= h
            /\ \A n \in written : Projects(n, rows'[i], c) => n <= v
            /\ Projects(h, rows'[i], c) => v = h
  <2>1. \A i \in 1 .. Len(rows'), c \in Columns :
          Projects(h, rows'[i], c) /\ Projected(Sample) => rows'[i].values[c] = h
    BY StatementEffect
  <2>2. \A i \in 1 .. Len(rows'), c \in Columns : Projects(h, rows'[i], c) => Projected(Sample)
    BY <1>2 DEF Projects
  <2>3. \A i \in 1 .. Len(rows'), c \in Columns :
          LET v == rows'[i].values[c]
          IN  /\ v # 0 => v \in 1 .. Len(sent) /\ Projects(v, rows'[i], c)
              /\ v <= h
              /\ \A n \in written : Projects(n, rows'[i], c) => n <= v
    BY StatementEffect
  <2> HIDE DEF h
  <2> QED
    BY <2>1, <2>2, <2>3
<1>8. TypeOK'
  <2>1. active' \in BOOLEAN /\ (active' => queue' # <<>>)
    BY <1>1, Zenon
  <2>2. written' \subseteq 1 .. Len(sent)
    BY <1>1, <1>2 DEF IInv, TypeOK
  <2>3. stage' \in {"open", "stopped", "closing", "closed", "aborted"}
    BY <1>1 DEF IInv, TypeOK
  <2> QED
    BY <1>1, <1>3, <1>6, <2>1, <2>2, <2>3 DEF IInv, TypeOK
<1>13. ShownInv'
  BY DEF IInv, ShownInv
<1>9. OrderInv' /\ StepInv'
  <2>1. \A i, j \in 1 .. Len(q) : i < j => q[i] < q[j]
    <3>1. \A i, j \in 1 .. Len(q) : i < j => i + 1 < j + 1
      BY <1>3
    <3> HIDE DEF q
    <3> QED
      BY <1>3, <1>4, <3>1 DEF IInv, OrderInv
  <2>2. \A n \in written', i \in 1 .. Len(q) : n < q[i]
    <3> HIDE DEF q
    <3> QED
      BY <1>1, <1>3, <1>4, <1>5 DEF IInv, OrderInv
  <2>3. \A k \in 1 .. Len(history'), i \in 1 .. Len(q) : history'[k] <= q[i]
    <3>1. \A i \in 1 .. Len(q) : q[i] \in Nat
      BY <1>3
    <3> HIDE DEF q, h
    <3> QED
      BY <1>2, <1>5, <1>6, <3>1
  <2>4. OrderInv'
    <3> HIDE DEF h, q
    <3> QED
      BY <1>1, <1>6, <2>1, <2>2, <2>3 DEF OrderInv
  <2> QED
    BY <1>1, <2>4 DEF StepInv
<1>10. StoredInv'
  <2>1. \A n \in written : \E k \in 1 .. Len(history') : history'[k] = n
    <3>1. \A n \in written : \E k \in 1 .. Len(history) : history[k] = n
      BY DEF IInv, StoredInv
    <3>2. \A k \in 1 .. Len(history) : \E l \in 1 .. Len(history') : history'[l] = history[k]
      BY <1>6
    <3> HIDE DEF h, q
    <3> QED
      BY <3>1, <3>2
  <2>2. \A n \in written :
          Projected(Projection(n)) => \E i \in 1 .. Len(rows') : Matches(rows'[i], Projection(n))
    <3>1. \A i \in 1 .. Len(rows) : \E j \in 1 .. Len(rows') :
            rows'[j].mission = rows[i].mission /\ rows'[j].at = rows[i].at
      BY <1>6
    <3> QED
      BY <3>1 DEF IInv, StoredInv, Matches
  <2>3. Projected(Projection(h)) => \E i \in 1 .. Len(rows') : Matches(rows'[i], Projection(h))
    BY <1>2, <1>6
  <2>4. \E k \in 1 .. Len(history') : history'[k] = h
    BY <1>6
  <2>5. sent' = sent /\ written' = written \cup {h}
    BY <1>1
  <2> HIDE DEF h
  <2> QED
    BY <2>1, <2>2, <2>3, <2>4, <2>5 DEF StoredInv, Matches, Projected, Projection
<1>11. ValueInv'
  <2> SUFFICES ASSUME NEW i \in 1 .. Len(rows'), NEW c \in Columns
               PROVE  LET v == rows'[i].values[c]
                      IN  /\ v # 0 => v \in 1 .. Len(sent) /\ Projects(v, rows'[i], c)
                          /\ \A k \in 1 .. Len(q) : v <= q[k]
                          /\ \A n \in written' : Projects(n, rows'[i], c) => n <= v
    BY <1>1 DEF ValueInv, Projects, Matches, Projected, Projection
  <2> DEFINE v == rows'[i].values[c]
  <2>1. /\ v # 0 => v \in 1 .. Len(sent) /\ Projects(v, rows'[i], c)
        /\ v <= h
        /\ \A n \in written : Projects(n, rows'[i], c) => n <= v
        /\ Projects(h, rows'[i], c) => v = h
    BY <1>7
  <2>2. v \in Nat
    BY <1>2, <2>1
  <2>3. \A k \in 1 .. Len(q) : q[k] \in Nat
    BY <1>3
  <2>4. \A k \in 1 .. Len(q) : v <= q[k]
    <3> HIDE DEF v, h, q
    <3> QED
      BY <1>2, <1>5, <2>1, <2>2, <2>3
  <2>5. \A n \in written' : Projects(n, rows'[i], c) => n <= v
    <3> HIDE DEF v, h
    <3> QED
      BY <1>1, <1>2, <2>1
  <2> QED
    BY <2>1, <2>4, <2>5
<1>12. MissionInv'
  BY <1>1, <1>6 DEF IInv, MissionInv, CleanShutdown
<1> QED
  BY <1>6, <1>8, <1>9, <1>10, <1>11, <1>12, <1>13 DEF IInv

-------------------------------------------------------------------------------

\* The batch goes on with its next statement.
LEMMA ProceedIInv == IInv /\ Proceed => IInv'
<1> SUFFICES ASSUME IInv, Proceed PROVE IInv'
  OBVIOUS
<1>1. active /\ Statement /\ UNCHANGED <<samples, unsaved, faults>>
  BY DEF Proceed
<1>2. CASE After = "done"
  BY <1>1, <1>2, DoneIInv DEF Proceed
<1>3. CASE After # "done"
  BY <1>1, <1>3, ContinueIInv DEF Proceed
<1> QED
  BY <1>2, <1>3

\* A sample in a mission is refused only if its mission's row was not written: before a
\* shutdown has drained the mission queue, or after that queue failed.
LEMMA ForeignKeyFailsIInv == IInv /\ ForeignKeyFails => IInv'
<1> SUFFICES ASSUME IInv, ForeignKeyFails PROVE IInv'
  OBVIOUS
<1>1. /\ active /\ step = "insert" /\ Sample.mission \notin known /\ Retry
      /\ UNCHANGED <<samples, tables, unsaved, faults>>
  BY DEF ForeignKeyFails
<1>2. faults \in Nat /\ faults' = faults
  BY <1>1 DEF IInv, TypeOK
<1>3. stage = "closing" => faults > 0
  <2>1. /\ Head(queue) \in 1 .. Len(sent) /\ Sample.mission # None
        /\ Sample.mission = sent[Head(queue)].mission
    BY <1>1, ProjectionType DEF IInv, TypeOK, StepInv, Projected, Sample
  <2>2. stage = "closing" => unsaved = {}
    BY DEF IInv, MissionInv
  <2>3. faults = 0 => Sample.mission \in known \cup unsaved \cup {None}
    BY <2>1 DEF IInv, MissionInv
  <2> QED
    BY <1>1, <1>2, <2>1, <2>2, <2>3
<1> QED
  BY <1>1, <1>2, <1>3, RetryIInv

\* The connection fails during a statement, and the batch is tried again.
LEMMA StatementFailsIInv == IInv /\ StatementFails => IInv'
<1> SUFFICES ASSUME IInv, StatementFails PROVE IInv'
  OBVIOUS
<1>1. /\ active /\ Retry /\ faults' = faults + 1 /\ UNCHANGED <<samples, unsaved>>
      /\ Statement \/ UNCHANGED tables
  BY DEF StatementFails
<1>2. faults' \in Nat /\ faults <= faults' /\ faults' > 0
  BY <1>1 DEF IInv, TypeOK
<1> QED
  BY <1>1, <1>2, RetryIInv

\* The steps that leave samples, backlog and tables as they are.
LEMMA OtherIInv ==
  ASSUME IInv, UNCHANGED <<samples, queue, step, history, rows, written>>,
         active' \in BOOLEAN, active' => queue # <<>>, active => active',
         known \subseteq known', known' \subseteq Missions, unsaved' \subseteq Missions,
         stage' \in {"open", "stopped", "closing", "closed"} \/ stage' = stage,
         stage' \in {"closing", "closed"} => unsaved' = {},
         faults' \in Nat, faults <= faults',
         faults' = 0 => known \cup unsaved \subseteq known' \cup unsaved'
  PROVE  IInv'
<1>1. TypeOK'
  BY DEF IInv, TypeOK
<1>7. ShownInv'
  BY DEF IInv, ShownInv
<1>2. Sample' = Sample /\ Projected(Sample)' = Projected(Sample) /\ Updated(Sample)' = Updated(Sample)
  BY DEF Sample, Projection, Projected, Updated, Matches
<1>3. StepInv'
  BY <1>2 DEF IInv, StepInv
<1>4. OrderInv' /\ StoredInv' /\ OneRowPerInstant'
  BY DEF IInv, OrderInv, StoredInv, OneRowPerInstant, Matches, Projected, Projection
<1>5. ValueInv'
  BY DEF IInv, ValueInv, Projects, Matches, Projected, Projection
<1>6. MissionInv'
  <2>1. faults' = 0 => faults = 0
    BY DEF IInv, TypeOK
  <2>2. stage' = "aborted" => faults' > 0
    BY DEF IInv, TypeOK, MissionInv, CleanShutdown
  <2> QED
    BY <2>1, <2>2 DEF IInv, MissionInv, CleanShutdown
<1> QED
  BY <1>1, <1>3, <1>4, <1>5, <1>6, <1>7 DEF IInv

\* Every step keeps the inductive invariant.
LEMMA NextIInv == IInv /\ [Next]_vars => IInv'
<1> SUFFICES ASSUME IInv, [Next]_vars PROVE IInv'
  OBVIOUS
<1> USE DEF queued, tables
<1>1. active \in BOOLEAN /\ faults \in Nat /\ known \subseteq Missions /\ unsaved \subseteq Missions
      /\ (active => queue # <<>>)
      /\ (stage \in {"closing", "closed"} => unsaved = {})
  BY DEF IInv, TypeOK, MissionInv
<1>2. CASE \E s \in Offered : EnqueueRaw(s) \/ IngestParameterSample(s)
  BY <1>2, EnqueueIInv, OfferedAssumption
<1>3. CASE Kick
  BY <1>1, <1>3, OtherIInv DEF Kick, Waiting
<1>4. CASE Writes
  BY <1>4, ProceedIInv, ForeignKeyFailsIInv, StatementFailsIInv DEF Writes
<1>5. ASSUME NEW m \in Missions, SaveMission(m) PROVE IInv'
  BY <1>1, <1>5, OtherIInv DEF SaveMission
<1>6. CASE LoseMissions
  BY <1>1, <1>6, OtherIInv DEF LoseMissions
<1>7. CASE StopIngest
  BY <1>1, <1>7, OtherIInv DEF StopIngest
<1>8. CASE Close
  <2>1. active' = (queue # <<>>) /\ unsaved = {} /\ UNCHANGED unsaved
    BY <1>8 DEF Close, MissionsSaved
  <2>2. active' \in BOOLEAN /\ (active' => queue # <<>>) /\ (active => active')
    BY <1>1, <2>1, Zenon
  <2> QED
    BY <1>1, <1>8, <2>1, <2>2, OtherIInv DEF Close
<1>9. CASE UNCHANGED vars
  BY <1>1, <1>9, OtherIInv DEF vars
<1> QED
  BY <1>2, <1>3, <1>4, <1>5, <1>6, <1>7, <1>8, <1>9 DEF Next

\* The invariant of the telemetry writes.
THEOREM Invariant == Spec => []IInv
  BY InitIInv, NextIInv, PTL DEF Spec

\* The telemetry table has no second row of an instant, however often an insert is
\* repeated after a connection that failed when it had taken effect.
THEOREM RowsAreUnique == Spec => []OneRowPerInstant
<1>1. IInv => OneRowPerInstant
  BY DEF IInv
<1> QED
  BY <1>1, Invariant, PTL

\* No repetition of a write brings back a value older than an acknowledged one.
THEOREM ValuesAreNewest == Spec => []NewestWins
<1>1. IInv => NewestWins
  BY DEF IInv, ValueInv, NewestWins
<1> QED
  BY <1>1, Invariant, PTL

\* What has been acknowledged is stored in every state that satisfies the invariant.
LEMMA StoredIsShown == IInv => AcknowledgedIsStored
<1> SUFFICES ASSUME IInv PROVE AcknowledgedIsStored
  OBVIOUS
<1>1. ASSUME NEW n \in written, Projected(Projection(n))
      PROVE  \E i \in 1 .. Len(rows) :
               Matches(rows[i], Projection(n)) /\ rows[i].values[Projection(n).column] # 0
  <2>1. PICK i \in 1 .. Len(rows) : Matches(rows[i], Projection(n))
    BY <1>1 DEF IInv, StoredInv
  <2>2. n \in 1 .. Len(sent) /\ Projection(n).column \in Columns
    BY <1>1, ProjectionType DEF IInv, TypeOK, Projections, Projected
  <2>3. n <= rows[i].values[Projection(n).column]
    BY <1>1, <2>1, <2>2 DEF IInv, ValueInv, Projects
  <2> QED
    BY <2>1, <2>2, <2>3
<1>2. \A n \in written : \E k \in 1 .. Len(history) : history[k] = n
  BY DEF IInv, StoredInv
<1>3. \A i, j \in 1 .. Len(history) : i < j => history[i] <= history[j]
  BY DEF IInv, OrderInv
<1> QED
  BY <1>1, <1>2, <1>3 DEF AcknowledgedIsStored

\* What was acknowledged is in the history, in order, and what was current for its key
\* when it came is in the projection.
THEOREM NothingAcknowledgedIsLost == Spec => []AcknowledgedIsStored
  BY StoredIsShown, Invariant, PTL

\* The foreign key aborts no shutdown: closing the stores in this order drains them.
THEOREM ShutdownIsClean == Spec => []CleanShutdown
<1>1. IInv => CleanShutdown
  BY DEF IInv, MissionInv
<1> QED
  BY <1>1, Invariant, PTL

===============================================================================
