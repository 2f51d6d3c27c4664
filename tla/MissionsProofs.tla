---------------------------- MODULE MissionsProofs ----------------------------
(***************************************************************************)
(* Missions, for any number of devices, missions, runs and faults and any  *)
(* grace periods: the rows and the queue in front of them agree with the   *)
(* tracker, the missions of one aircraft follow one another, the recovery  *)
(* closes only what earlier runs left, and no end lies before the last     *)
(* moment in the air.                                                      *)
(*                                                                         *)
(* The invariant is a relation between a table r and a queue q: a write is *)
(* the effect of the head on the table, then its removal from the queue,   *)
(* and the two happen together or apart.                                   *)
(***************************************************************************)
EXTENDS Missions, SequenceTheorems, TLAPS

Reasons == {"standby", "device_disconnected", "telemetry_timeout"}

Flights == [id: Missions, startedAt: Nat \ {0}, last: Nat \ {0}, standbySince: Nat,
            disconnectedSince: Nat]

Writes == {Recover}
     \cup [op: {"open"}, id: Missions, device: Devices, at: Nat \ {0}]
     \cup [op: {"close"}, id: Missions, at: Nat \ {0}, reason: Reasons]

Rows == [run: Nat \ {0}, device: Devices, started: Nat, ended: Nat,
         reason: Reasons \cup {"none", "service_restart"}]

Tables == [Missions -> Rows \cup {NoRow}]

TypeOK ==
  /\ now \in Nat \ {0}
  /\ phase \in {"booting", "up", "closing", "stopping", "down"}
  /\ run \in Nat \ {0}
  /\ flights \in [Devices -> Flights \cup {NoFlight}]
  /\ started \in 0 .. MaxMissions
  /\ queue \in Seq(Writes)
  /\ rows \in Tables
  /\ faults \in Nat
  /\ airborne \in [Missions -> Nat]
  /\ phase = "down" => queue = <<>>

-------------------------------------------------------------------------------
(* The invariant *)

Recovers(q, i)   == q[i].op = "recover"
Opens(q, i, m)   == q[i].op = "open" /\ q[i].id = m
Ends(q, i, m)    == q[i].op = "close" /\ q[i].id = m

\* Mission m is of aircraft d: its row says so, or the insert of it that is queued.
Placed(r, q, m, d) ==
  \/ r[m] # NoRow /\ r[m].device = d
  \/ \E i \in 1 .. Len(q) : Opens(q, i, m) /\ q[i].device = d

\* Before the write at j is executed, the row of mission m is closed.
Settled(r, q, m, j) ==
  \/ r[m] # NoRow /\ (r[m].ended # 0 \/ (1 < j /\ Recovers(q, 1)))
  \/ \E k \in 1 .. Len(q) : k < j /\ Ends(q, k, m)

\* What EndsOpen says of the table and the queue.
StaysOpen(r, q, m) ==
  \/ IsOpen(r[m]) /\ \A i \in 1 .. Len(q) : ~Recovers(q, i) /\ ~Ends(q, i, m)
  \/ /\ r[m] = NoRow
     /\ \E i \in 1 .. Len(q) :
          /\ Opens(q, i, m)
          /\ \A j \in 1 .. Len(q) : i < j => ~Recovers(q, j) /\ ~Ends(q, j, m)

\* The rows: of missions started in runs up to this one; the recovery closed none of this
\* run; an end that a frame confirmed is no earlier than the last flight.
RowInv(r) ==
  \A m \in Missions : r[m] # NoRow =>
    /\ m <= started
    /\ r[m].run <= run
    /\ r[m].ended <= now
    /\ r[m].reason = "service_restart" => r[m].run < run
    /\ r[m].ended = 0 => r[m].reason = "none"
    /\ r[m].reason \in {"standby", "device_disconnected"} => airborne[m] <= r[m].ended

\* The inserts that are queued: in the order of their missions, of missions whose row is
\* not there yet, unless the head has been executed and not acknowledged.
OpenInv(r, q) ==
  \A i \in 1 .. Len(q), n \in Missions : Opens(q, i, n) =>
    /\ n <= started /\ q[i].at <= now
    /\ \A j \in 1 .. Len(q), m \in Missions : i < j /\ Opens(q, j, m) => n < m
    /\ r[n] # NoRow => i = 1 /\ r[n].device = q[i].device /\ r[n].ended = 0
    /\ \A m \in Missions : r[m] # NoRow =>
         /\ m <= n
         /\ r[m].reason # "service_restart" => r[m].ended <= q[i].at
    /\ \A m \in Missions : m < n /\ Placed(r, q, m, q[i].device) => Settled(r, q, m, i)

\* The ends that are queued: at most one of a mission, of a mission that has a row of
\* this run or gets one before, and the row is open unless the end is being repeated.
CloseInv(r, q) ==
  \A k \in 1 .. Len(q), m \in Missions : Ends(q, k, m) =>
    /\ q[k].at <= now
    /\ q[k].reason \in {"standby", "device_disconnected"} => airborne[m] <= q[k].at
    /\ r[m] # NoRow \/ \E i \in 1 .. Len(q) : i < k /\ Opens(q, i, m)
    /\ r[m] # NoRow =>
         /\ r[m].run = run
         /\ r[m].ended # 0 => k = 1 /\ r[m].ended = q[k].at /\ r[m].reason = q[k].reason
    /\ \A j \in 1 .. Len(q) : Ends(q, j, m) => j = k
    /\ \A j \in 1 .. Len(q), n \in Missions : k < j /\ Opens(q, j, n) => q[k].at <= q[j].at

\* The recovery is the first write, and what it finds is of earlier runs.
RecoverInv(r, q) ==
  \A i \in 1 .. Len(q) : Recovers(q, i) =>
    /\ i = 1
    /\ \A m \in Missions : r[m] # NoRow => r[m].run < run

\* The missions of one aircraft follow one another.
FollowInv(r) ==
  \A m, n \in Missions :
    m < n /\ r[m] # NoRow /\ r[n] # NoRow /\ r[m].device = r[n].device =>
      /\ r[m].ended # 0
      /\ r[m].reason # "service_restart" => r[m].ended <= r[n].started

\* The tracker's missions are those whose rows the queue leaves open.
TrackerInv(r, q) ==
  phase # "down" =>
    /\ \A m \in Missions :
         StaysOpen(r, q, m) <=> \E d \in Devices : Active(d) /\ flights[d].id = m
    /\ \A d \in Devices : Active(d) =>
         /\ Placed(r, q, flights[d].id, d)
         /\ r[flights[d].id] # NoRow => r[flights[d].id].run = run

StoreInv(r, q) ==
  /\ RowInv(r) /\ OpenInv(r, q) /\ CloseInv(r, q) /\ RecoverInv(r, q) /\ FollowInv(r)
  /\ TrackerInv(r, q)

\* A flight's marks are of its own time, and no earlier than its last flight.
FlightInv ==
  phase # "down" =>
    /\ \A d \in Devices : Active(d) =>
         LET f == flights[d]
         IN  /\ f.id <= started
             /\ f.startedAt <= now /\ f.last <= now
             /\ airborne[f.id] <= now
             /\ f.standbySince # 0 => airborne[f.id] <= f.standbySince /\ f.standbySince <= now
             /\ f.disconnectedSince # 0 =>
                  airborne[f.id] <= f.disconnectedSince /\ f.disconnectedSince <= now
    /\ \A d, e \in Devices : Active(d) /\ Active(e) /\ flights[d].id = flights[e].id => d = e

IInv == TypeOK /\ FlightInv /\ StoreInv(rows, queue)

-------------------------------------------------------------------------------
(* A write is removed from the queue *)

\* The effect of the first write is in the table.
Done(r, q) ==
  /\ Recovers(q, 1) => \A m \in Missions : r[m] # NoRow => r[m].ended # 0
  /\ \A m \in Missions : Opens(q, 1, m) => r[m] # NoRow
  /\ \A m \in Missions : Ends(q, 1, m) => r[m] # NoRow /\ r[m].ended # 0

\* Missions are numbered from one.
LEMMA MissionsAreNumbers == \A m \in Missions : m \in Nat /\ m # 0
  BY BoundsAssumption DEF Missions

\* A row is told from a mission without one by its run.
LEMMA RowIsThere ==
  ASSUME NEW x \in Rows
  PROVE  x # NoRow
<1>1. x.run # 0
  BY DEF Rows
<1>2. NoRow.run = 0
  BY DEF NoRow
<1> QED
  BY <1>1, <1>2

\* The fields of a row tell it from a mission without one.
LEMMA RowsAreRows ==
  ASSUME NEW r \in Tables, NEW m \in Missions
  PROVE  /\ r[m] # NoRow => r[m] \in Rows
         /\ IsOpen(r[m]) <=> r[m] # NoRow /\ r[m].ended = 0
  BY DEF Tables, IsOpen

\* A queue without its first write: the others move up.
LEMMA TailShifts ==
  ASSUME NEW q \in Seq(Writes), q # <<>>
  PROVE  /\ Tail(q) \in Seq(Writes) /\ Len(Tail(q)) \in Nat /\ Len(q) = Len(Tail(q)) + 1
         /\ \A i \in 1 .. Len(Tail(q)) : i + 1 \in 1 .. Len(q) /\ Tail(q)[i] = q[i + 1]
         /\ \A i \in 1 .. Len(q) : i # 1 => i - 1 \in 1 .. Len(Tail(q)) /\ q[i] = Tail(q)[i - 1]
         /\ 1 \in 1 .. Len(q) /\ Head(q) = q[1] /\ q[1] \in Writes
  BY HeadTailProperties

\* A write that is done may leave the queue.
LEMMA PopKeeps ==
  ASSUME TypeOK, NEW r \in Tables, NEW q \in Seq(Writes), q # <<>>, StoreInv(r, q), Done(r, q)
  PROVE  StoreInv(r, Tail(q))
<1> DEFINE t == Tail(q)
<1>1. /\ t \in Seq(Writes) /\ Len(t) \in Nat /\ Len(q) = Len(t) + 1
      /\ \A i \in 1 .. Len(t) : i + 1 \in 1 .. Len(q) /\ t[i] = q[i + 1]
      /\ \A i \in 1 .. Len(q) : i # 1 => i - 1 \in 1 .. Len(t) /\ q[i] = t[i - 1]
      /\ 1 \in 1 .. Len(q)
  BY TailShifts
<1> HIDE DEF t
<1> USE DEF Recovers, Opens, Ends
<1>2. ASSUME NEW m \in Missions, NEW d \in Devices
      PROVE  Placed(r, t, m, d) <=> Placed(r, q, m, d)
  <2>1. ASSUME NEW i \in 1 .. Len(q), Opens(q, i, m), q[i].device = d
        PROVE  Placed(r, t, m, d)
    <3>1. CASE i = 1
      BY <2>1, <3>1 DEF Done, StoreInv, OpenInv, Placed
    <3>2. CASE i # 1
      BY <1>1, <2>1, <3>2 DEF Placed
    <3> QED
      BY <3>1, <3>2
  <2>2. ASSUME NEW i \in 1 .. Len(t), Opens(t, i, m), t[i].device = d
        PROVE  Placed(r, q, m, d)
    BY <1>1, <2>2 DEF Placed
  <2> QED
    BY <2>1, <2>2 DEF Placed
<1>3. ASSUME NEW m \in Missions, NEW i \in 1 .. Len(t), Settled(r, q, m, i + 1)
      PROVE  Settled(r, t, m, i)
  <2>1. CASE r[m] # NoRow /\ (r[m].ended # 0 \/ Recovers(q, 1))
    BY <2>1 DEF Done, Settled
  <2>2. ASSUME NEW k \in 1 .. Len(q), k < i + 1, Ends(q, k, m) PROVE Settled(r, t, m, i)
    <3>1. CASE k = 1
      BY <2>2, <3>1 DEF Done, Settled
    <3>2. CASE k # 1
      <4>1. k - 1 \in 1 .. Len(t) /\ k - 1 < i /\ Ends(t, k - 1, m)
        BY <1>1, <2>2, <3>2
      <4> QED
        BY <4>1 DEF Settled
    <3> QED
      BY <3>1, <3>2
  <2> QED
    BY <1>3, <2>1, <2>2 DEF Settled
<1>4. OpenInv(r, t)
  <2> SUFFICES ASSUME NEW i \in 1 .. Len(t), NEW n \in Missions, Opens(t, i, n)
               PROVE  /\ n <= started /\ t[i].at <= now
                      /\ \A j \in 1 .. Len(t), m \in Missions : i < j /\ Opens(t, j, m) => n < m
                      /\ r[n] # NoRow => i = 1 /\ r[n].device = t[i].device /\ r[n].ended = 0
                      /\ \A m \in Missions : r[m] # NoRow =>
                           /\ m <= n
                           /\ r[m].reason # "service_restart" => r[m].ended <= t[i].at
                      /\ \A m \in Missions : m < n /\ Placed(r, t, m, t[i].device) =>
                           Settled(r, t, m, i)
    BY DEF OpenInv
  <2>1. i + 1 \in 1 .. Len(q) /\ t[i] = q[i + 1] /\ Opens(q, i + 1, n) /\ i + 1 # 1
    BY <1>1
  <2>2. t[i].device \in Devices
    BY <1>1 DEF Writes, Recover
  <2>3. /\ n <= started /\ q[i + 1].at <= now
        /\ \A j \in 1 .. Len(q), m \in Missions : i + 1 < j /\ Opens(q, j, m) => n < m
        /\ r[n] = NoRow
        /\ \A m \in Missions : r[m] # NoRow =>
             /\ m <= n
             /\ r[m].reason # "service_restart" => r[m].ended <= q[i + 1].at
        /\ \A m \in Missions : m < n /\ Placed(r, q, m, q[i + 1].device) => Settled(r, q, m, i + 1)
    BY <2>1 DEF StoreInv, OpenInv
  <2>4. ASSUME NEW j \in 1 .. Len(t), NEW m \in Missions, i < j, Opens(t, j, m) PROVE n < m
    <3>1. j + 1 \in 1 .. Len(q) /\ i + 1 < j + 1 /\ Opens(q, j + 1, m)
      BY <1>1, <2>4
    <3> QED
      BY <2>3, <3>1
  <2> QED
    BY <1>2, <1>3, <2>1, <2>2, <2>3, <2>4
<1>5. CloseInv(r, t)
  <2> SUFFICES ASSUME NEW k \in 1 .. Len(t), NEW m \in Missions, Ends(t, k, m)
               PROVE  /\ t[k].at <= now
                      /\ t[k].reason \in {"standby", "device_disconnected"} => airborne[m] <= t[k].at
                      /\ r[m] # NoRow \/ \E i \in 1 .. Len(t) : i < k /\ Opens(t, i, m)
                      /\ r[m] # NoRow =>
                           /\ r[m].run = run
                           /\ r[m].ended # 0 =>
                                k = 1 /\ r[m].ended = t[k].at /\ r[m].reason = t[k].reason
                      /\ \A j \in 1 .. Len(t) : Ends(t, j, m) => j = k
                      /\ \A j \in 1 .. Len(t), n \in Missions :
                           k < j /\ Opens(t, j, n) => t[k].at <= t[j].at
    BY DEF CloseInv
  <2>1. k + 1 \in 1 .. Len(q) /\ t[k] = q[k + 1] /\ Ends(q, k + 1, m) /\ k + 1 # 1
    BY <1>1
  <2>2. /\ q[k + 1].at <= now
        /\ q[k + 1].reason \in {"standby", "device_disconnected"} => airborne[m] <= q[k + 1].at
        /\ r[m] # NoRow \/ \E i \in 1 .. Len(q) : i < k + 1 /\ Opens(q, i, m)
        /\ r[m] # NoRow => r[m].run = run /\ r[m].ended = 0
        /\ \A j \in 1 .. Len(q) : Ends(q, j, m) => j = k + 1
        /\ \A j \in 1 .. Len(q), n \in Missions : k + 1 < j /\ Opens(q, j, n) => q[k + 1].at <= q[j].at
    BY <2>1 DEF StoreInv, CloseInv
  <2>3. r[m] # NoRow \/ \E i \in 1 .. Len(t) : i < k /\ Opens(t, i, m)
    <3>1. ASSUME NEW i \in 1 .. Len(q), i < k + 1, Opens(q, i, m), r[m] = NoRow
          PROVE  \E j \in 1 .. Len(t) : j < k /\ Opens(t, j, m)
      <4>1. i # 1
        BY <3>1 DEF Done
      <4>2. i - 1 \in 1 .. Len(t) /\ i - 1 < k /\ Opens(t, i - 1, m)
        BY <1>1, <3>1, <4>1
      <4> QED
        BY <4>2
    <3> QED
      BY <2>2, <3>1
  <2>4. ASSUME NEW j \in 1 .. Len(t), Ends(t, j, m) PROVE j = k
    <3>1. j + 1 \in 1 .. Len(q) /\ Ends(q, j + 1, m)
      BY <1>1, <2>4
    <3>2. j + 1 = k + 1
      BY <2>2, <3>1
    <3> QED
      BY <3>2
  <2>5. ASSUME NEW j \in 1 .. Len(t), NEW n \in Missions, k < j, Opens(t, j, n)
        PROVE  t[k].at <= t[j].at
    <3>1. j + 1 \in 1 .. Len(q) /\ k + 1 < j + 1 /\ Opens(q, j + 1, n) /\ t[j] = q[j + 1]
      BY <1>1, <2>5
    <3> QED
      BY <2>1, <2>2, <3>1
  <2> QED
    BY <2>1, <2>2, <2>3, <2>4, <2>5
<1>6. \A i \in 1 .. Len(t) : ~Recovers(t, i)
  <2> SUFFICES ASSUME NEW i \in 1 .. Len(t), Recovers(t, i) PROVE FALSE
    OBVIOUS
  <2>1. i + 1 \in 1 .. Len(q) /\ Recovers(q, i + 1) /\ i + 1 # 1
    BY <1>1
  <2> QED
    BY <2>1 DEF StoreInv, RecoverInv
<1>7. ASSUME NEW m \in Missions PROVE StaysOpen(r, t, m) <=> StaysOpen(r, q, m)
  <2>1. ASSUME IsOpen(r[m]), \A i \in 1 .. Len(t) : ~Recovers(t, i) /\ ~Ends(t, i, m)
        PROVE  StaysOpen(r, q, m)
    <3>1. r[m] # NoRow /\ r[m].ended = 0
      BY <2>1 DEF IsOpen
    <3>2. ~Recovers(q, 1) /\ ~Ends(q, 1, m)
      BY <3>1 DEF Done
    <3>3. \A i \in 1 .. Len(q) : ~Recovers(q, i) /\ ~Ends(q, i, m)
      BY <1>1, <2>1, <3>2
    <3> QED
      BY <2>1, <3>3 DEF StaysOpen
  <2>2. ASSUME r[m] = NoRow, NEW i \in 1 .. Len(t), Opens(t, i, m),
               \A j \in 1 .. Len(t) : i < j => ~Recovers(t, j) /\ ~Ends(t, j, m)
        PROVE  StaysOpen(r, q, m)
    <3>1. i + 1 \in 1 .. Len(q) /\ Opens(q, i + 1, m)
      BY <1>1, <2>2
    <3>2. ASSUME NEW j \in 1 .. Len(q), i + 1 < j PROVE ~Recovers(q, j) /\ ~Ends(q, j, m)
      <4>1. j # 1 /\ j - 1 \in 1 .. Len(t) /\ i < j - 1 /\ q[j] = t[j - 1]
        BY <1>1, <3>2
      <4> QED
        BY <2>2, <4>1
    <3> QED
      BY <2>2, <3>1, <3>2 DEF StaysOpen
  <2>3. ASSUME IsOpen(r[m]), \A i \in 1 .. Len(q) : ~Recovers(q, i) /\ ~Ends(q, i, m)
        PROVE  StaysOpen(r, t, m)
    BY <1>1, <2>3 DEF StaysOpen
  <2>4. ASSUME r[m] = NoRow, NEW i \in 1 .. Len(q), Opens(q, i, m),
               \A j \in 1 .. Len(q) : i < j => ~Recovers(q, j) /\ ~Ends(q, j, m)
        PROVE  StaysOpen(r, t, m)
    <3>1. i # 1
      BY <2>4 DEF Done
    <3>2. i - 1 \in 1 .. Len(t) /\ Opens(t, i - 1, m)
      BY <1>1, <2>4, <3>1
    <3>3. ASSUME NEW j \in 1 .. Len(t), i - 1 < j PROVE ~Recovers(t, j) /\ ~Ends(t, j, m)
      <4>1. j + 1 \in 1 .. Len(q) /\ i < j + 1 /\ t[j] = q[j + 1]
        BY <1>1, <3>3
      <4> QED
        BY <2>4, <4>1
    <3> QED
      BY <2>4, <3>2, <3>3 DEF StaysOpen
  <2> QED
    BY <2>1, <2>2, <2>3, <2>4 DEF StaysOpen
<1>8. TrackerInv(r, t)
  <2>1. \A d \in Devices : Active(d) => flights[d].id \in Missions
    BY DEF TypeOK, Active, Flights
  <2> QED
    BY <1>2, <1>7, <2>1 DEF StoreInv, TrackerInv
<1> QED
  BY <1>4, <1>5, <1>6, <1>8 DEF StoreInv, RecoverInv, t

-------------------------------------------------------------------------------
(* A write takes effect *)

\* What an execution changes: it keeps the rows that are there, their aircraft and their
\* start, and closes rows but opens only a new one.
LEMMA EffectOfRecover ==
  ASSUME TypeOK, NEW q \in Seq(Writes), q # <<>>, Recovers(q, 1), StoreInv(rows, q),
         NEW s, s = Applied(rows, q[1])
  PROVE  s \in Tables /\ StoreInv(s, q) /\ Done(s, q)
<1> USE DEF Recovers, Opens, Ends
<1>1. \A m \in Missions :
        s[m] = IF rows[m] # NoRow /\ rows[m].ended = 0 THEN Ended(rows[m], now, "service_restart")
               ELSE rows[m]
  BY DEF Applied, IsOpen
<1>2. s \in Tables
  <2>1. ASSUME NEW m \in Missions
        PROVE  s[m] \in Rows \cup {NoRow}
    <3>1. rows[m] \in Rows \cup {NoRow} /\ now \in Nat
      BY DEF TypeOK, Tables
    <3>2. rows[m] \in Rows => Ended(rows[m], now, "service_restart") \in Rows
      <4> HIDE DEF Recovers, Opens, Ends
      <4> QED
        BY <3>1 DEF Ended, Rows
    <3> QED
      BY <1>1, <3>1, <3>2
  <2>2. s = [m \in Missions |-> IF IsOpen(rows[m]) THEN Ended(rows[m], now, "service_restart")
                               ELSE rows[m]]
    BY DEF Applied
  <2> QED
    BY <2>1, <2>2 DEF Tables
<1>3. ASSUME NEW m \in Missions
      PROVE  /\ s[m] = NoRow <=> rows[m] = NoRow
             /\ s[m] # NoRow =>
                  /\ s[m].device = rows[m].device /\ s[m].run = rows[m].run
                  /\ s[m].started = rows[m].started
                  /\ s[m].ended # 0 /\ s[m].ended <= now /\ s[m].run < run
                  /\ s[m] = rows[m] \/ s[m].reason = "service_restart"
  <2>1. 1 \in 1 .. Len(q)
    BY TailShifts
  <2>2. rows[m] # NoRow => rows[m].run < run
    BY <2>1 DEF StoreInv, RecoverInv
  <2>3. rows[m] # NoRow => rows[m] \in Rows
    BY DEF TypeOK, Tables
  <2>4. Ended(rows[m], now, "service_restart").run = rows[m].run \/ rows[m] = NoRow
    BY <2>3 DEF Ended, Rows
  <2>5. now # 0 /\ now <= now
    BY DEF TypeOK
  <2>6. CASE rows[m] # NoRow /\ rows[m].ended = 0
    <3>1. s[m] = [rows[m] EXCEPT !.ended = now, !.reason = "service_restart"] /\ rows[m] \in Rows
      BY <1>1, <2>3, <2>6 DEF Ended
    <3>2. /\ s[m].device = rows[m].device /\ s[m].run = rows[m].run
          /\ s[m].started = rows[m].started /\ s[m].ended = now
          /\ s[m].reason = "service_restart"
      BY <3>1 DEF Rows
    <3>3. s[m] # NoRow
      <4>1. s[m].run # 0
        BY <2>3, <2>6, <3>2 DEF Rows
      <4>2. NoRow.run = 0
        BY DEF NoRow
      <4> QED
        BY <4>1, <4>2
    <3> QED
      BY <2>2, <2>5, <2>6, <3>2, <3>3
  <2>7. CASE ~(rows[m] # NoRow /\ rows[m].ended = 0)
    BY <1>1, <2>2, <2>7 DEF StoreInv, RowInv
  <2> QED
    BY <2>6, <2>7
<1>4. \A i \in 1 .. Len(q), m \in Missions : Opens(q, i, m) => rows[m] = NoRow
  <2> SUFFICES ASSUME NEW i \in 1 .. Len(q), NEW m \in Missions, Opens(q, i, m), rows[m] # NoRow
               PROVE  FALSE
    OBVIOUS
  <2>1. i = 1
    BY DEF StoreInv, OpenInv
  <2> QED
    BY <2>1
<1>5. \A k \in 1 .. Len(q), m \in Missions : Ends(q, k, m) => rows[m] = NoRow
  <2> SUFFICES ASSUME NEW k \in 1 .. Len(q), NEW m \in Missions, Ends(q, k, m), rows[m] # NoRow
               PROVE  FALSE
    OBVIOUS
  <2>1. rows[m].run = run /\ run \in Nat
    BY DEF StoreInv, CloseInv, TypeOK
  <2>2. rows[m].run < run
    BY <1>3
  <2> QED
    BY <2>1, <2>2
<1>6. \A m \in Missions, d \in Devices : Placed(s, q, m, d) <=> Placed(rows, q, m, d)
  BY <1>3 DEF Placed
<1>7. \A m \in Missions, j \in 1 .. Len(q) : Settled(rows, q, m, j) => Settled(s, q, m, j)
  BY <1>3 DEF Settled
<1>8. RowInv(s)
  <2> SUFFICES ASSUME NEW m \in Missions, s[m] # NoRow
               PROVE  /\ m <= started
                      /\ s[m].run <= run
                      /\ s[m].ended <= now
                      /\ s[m].reason = "service_restart" => s[m].run < run
                      /\ s[m].ended = 0 => s[m].reason = "none"
                      /\ s[m].reason \in {"standby", "device_disconnected"} =>
                           airborne[m] <= s[m].ended
    BY DEF RowInv
  <2>1. s[m].run \in Nat /\ run \in Nat
    BY <1>2 DEF Tables, Rows, TypeOK
  <2> QED
    BY <1>3, <2>1 DEF StoreInv, RowInv
<1>9. OpenInv(s, q)
  <2> SUFFICES ASSUME NEW i \in 1 .. Len(q), NEW n \in Missions, Opens(q, i, n)
               PROVE  /\ s[n] = NoRow
                      /\ \A m \in Missions : s[m] # NoRow =>
                           /\ m <= n
                           /\ s[m].reason # "service_restart" => s[m].ended <= q[i].at
                      /\ \A m \in Missions : m < n /\ Placed(s, q, m, q[i].device) =>
                           Settled(s, q, m, i)
    BY DEF StoreInv, OpenInv
  <2>1. q[i].device \in Devices
    BY DEF Writes, Recover
  <2> QED
    BY <1>3, <1>4, <1>6, <1>7, <2>1 DEF StoreInv, OpenInv
<1>10. CloseInv(s, q)
  BY <1>3, <1>5 DEF StoreInv, CloseInv
<1>11. RecoverInv(s, q)
  BY <1>3 DEF StoreInv, RecoverInv
<1>12. FollowInv(s)
  BY <1>3 DEF StoreInv, FollowInv
<1>13. TrackerInv(s, q)
  <2>1. ASSUME NEW m \in Missions PROVE StaysOpen(s, q, m) <=> StaysOpen(rows, q, m)
    <3>1. 1 \in 1 .. Len(q)
      BY TailShifts
    <3> QED
      BY <1>3, <3>1 DEF StaysOpen
  <2>2. \A d \in Devices : Active(d) => flights[d].id \in Missions
    BY DEF TypeOK, Active, Flights
  <2> QED
    BY <1>3, <1>6, <2>1, <2>2 DEF StoreInv, TrackerInv
<1>14. Done(s, q)
  <2>1. q[1].op = "recover"
    OBVIOUS
  <2> QED
    BY <1>3, <2>1 DEF Done
<1> QED
  BY <1>2, <1>8, <1>9, <1>10, <1>11, <1>12, <1>13, <1>14 DEF StoreInv

\* What the insert of a mission does to the rows.
LEMMA EffectOfOpen ==
  ASSUME TypeOK, NEW q \in Seq(Writes), q # <<>>, NEW n \in Missions, Opens(q, 1, n),
         StoreInv(rows, q), NEW s, s = Applied(rows, q[1])
  PROVE  s \in Tables /\ StoreInv(s, q) /\ Done(s, q)
<1> USE DEF Recovers, Opens, Ends
<1>1. 1 \in 1 .. Len(q) /\ q[1] \in Writes
  BY TailShifts
<1>2. q[1].op = "open" /\ q[1].id = n /\ q[1].device \in Devices /\ q[1].at \in Nat \ {0}
  BY <1>1 DEF Writes, Recover
<1>new. PICK row : row = [run |-> run, device |-> q[1].device, started |-> q[1].at,
                         ended |-> 0, reason |-> "none"]
  OBVIOUS
<1>3. s = IF rows[n] # NoRow THEN rows ELSE [rows EXCEPT ![n] = row]
  BY <1>2, <1>new DEF Applied, Insert
<1>4. row \in Rows /\ row # NoRow
  <2>1. row \in Rows
    BY <1>2, <1>new DEF Rows, TypeOK
  <2> QED
    BY <2>1, RowIsThere
<1>5. s \in Tables
  BY <1>3, <1>4 DEF Tables, TypeOK
<1>6. \A m \in Missions : m # n => s[m] = rows[m]
  BY <1>3 DEF TypeOK, Tables
<1>7. s[n] # NoRow /\ s[n].device = q[1].device /\ s[n].ended = 0
      /\ (rows[n] = NoRow => s[n] = row) /\ (rows[n] # NoRow => s[n] = rows[n])
  <2>1. CASE rows[n] = NoRow
    <3>1. s[n] = row
      BY <1>3, <2>1 DEF TypeOK, Tables
    <3>2. row.device = q[1].device /\ row.ended = 0
      BY <1>new
    <3> QED
      BY <1>4, <2>1, <3>1, <3>2
  <2>2. CASE rows[n] # NoRow
    <3>1. s[n] = rows[n]
      BY <1>3, <2>2
    <3>2. rows[n].device = q[1].device /\ rows[n].ended = 0
      BY <1>1, <2>2 DEF StoreInv, OpenInv
    <3> QED
      BY <2>2, <3>1, <3>2
  <2> QED
    BY <2>1, <2>2
<1>8. /\ n <= started
      /\ \A j \in 1 .. Len(q), m \in Missions : 1 < j /\ Opens(q, j, m) => n < m
      /\ \A m \in Missions : rows[m] # NoRow =>
           /\ m <= n
           /\ rows[m].reason # "service_restart" => rows[m].ended <= q[1].at
      /\ \A m \in Missions : m < n /\ Placed(rows, q, m, q[1].device) => Settled(rows, q, m, 1)
  BY <1>1, <1>2 DEF StoreInv, OpenInv
<1>row. /\ row.run = run /\ row.device = q[1].device /\ row.started = q[1].at
        /\ row.ended = 0 /\ row.reason = "none"
  BY <1>new
<1>num. run \in Nat /\ now \in Nat /\ n \in Nat
        /\ \A m \in Missions : m \in Nat
  BY MissionsAreNumbers DEF TypeOK
<1>9. \A m \in Missions, d \in Devices : Placed(s, q, m, d) <=> Placed(rows, q, m, d)
  <2> SUFFICES ASSUME NEW d \in Devices
               PROVE  Placed(s, q, n, d) <=> Placed(rows, q, n, d)
    <3> SUFFICES ASSUME NEW m \in Missions, m # n, NEW d \in Devices
                 PROVE  Placed(s, q, m, d) <=> Placed(rows, q, m, d)
      OBVIOUS
    <3>1. s[m] = rows[m]
      BY <1>6
    <3> QED
      BY <3>1 DEF Placed
  <2>1. Placed(s, q, n, d) => Placed(rows, q, n, d)
    BY <1>1, <1>2, <1>7 DEF Placed
  <2>2. Placed(rows, q, n, d) => Placed(s, q, n, d)
    BY <1>7 DEF Placed
  <2> QED
    BY <2>1, <2>2
<1>10. \A m \in Missions, j \in 1 .. Len(q) : Settled(rows, q, m, j) => Settled(s, q, m, j)
  BY <1>6, <1>7 DEF Settled
<1>11. RowInv(s)
  <2> SUFFICES ASSUME NEW m \in Missions, s[m] # NoRow
               PROVE  /\ m <= started
                      /\ s[m].run <= run
                      /\ s[m].ended <= now
                      /\ s[m].reason = "service_restart" => s[m].run < run
                      /\ s[m].ended = 0 => s[m].reason = "none"
                      /\ s[m].reason \in {"standby", "device_disconnected"} =>
                           airborne[m] <= s[m].ended
    BY DEF RowInv
  <2>1. CASE s[m] = rows[m]
    BY <2>1 DEF StoreInv, RowInv
  <2>2. CASE m = n /\ s[m] = row
    <3>1. m <= started
      BY <1>8, <2>2
    <3>2. s[m].run = run /\ s[m].reason = "none"
      BY <1>row, <2>2
    <3> QED
      <4>1. s[m].run <= run /\ s[m].ended <= now
        BY <1>row, <1>num, <2>2
      <4>2. s[m].reason # "service_restart"
        BY <3>2
      <4>3. s[m].reason \notin {"standby", "device_disconnected"}
        BY <3>2
      <4> QED
        BY <3>1, <3>2, <4>1, <4>2, <4>3
  <2> QED
    BY <1>6, <1>7, <2>1, <2>2
<1>12. OpenInv(s, q)
  <2> SUFFICES ASSUME NEW i \in 1 .. Len(q), NEW k \in Missions, Opens(q, i, k)
               PROVE  /\ s[k] # NoRow => i = 1 /\ s[k].device = q[i].device /\ s[k].ended = 0
                      /\ \A m \in Missions : s[m] # NoRow =>
                           /\ m <= k
                           /\ s[m].reason # "service_restart" => s[m].ended <= q[i].at
                      /\ \A m \in Missions : m < k /\ Placed(s, q, m, q[i].device) =>
                           Settled(s, q, m, i)
    BY DEF StoreInv, OpenInv
  <2>1. q[i].device \in Devices /\ q[i].at \in Nat
    BY DEF Writes, Recover
  <2>2. CASE i = 1
    <3>1. k = n
      BY <1>2, <2>2
    <3>2. \A m \in Missions : s[m] # NoRow =>
            /\ m <= n
            /\ s[m].reason # "service_restart" => s[m].ended <= q[1].at
      <4> SUFFICES ASSUME NEW m \in Missions, s[m] # NoRow
                   PROVE  /\ m <= n
                          /\ s[m].reason # "service_restart" => s[m].ended <= q[1].at
        OBVIOUS
      <4>1. CASE m = n
        <5>1. s[m].ended = 0
          BY <1>7, <4>1
        <5> QED
          BY <1>num, <1>2, <4>1, <5>1
      <4>2. CASE m # n
        BY <1>6, <1>8, <4>2
      <4> QED
        BY <4>1, <4>2
    <3> QED
      BY <1>7, <1>8, <1>9, <1>10, <2>1, <2>2, <3>1, <3>2
  <2>3. CASE i # 1
    <3>1. n < k
      BY <1>8, <2>3
    <3>2. s[k] = rows[k] /\ rows[k] = NoRow
      <4>1. rows[k] = NoRow
        BY <2>3 DEF StoreInv, OpenInv
      <4>2. k # n
        BY <1>num, <3>1
      <4> QED
        BY <1>6, <4>1, <4>2
    <3>3. \A m \in Missions : s[m] # NoRow =>
            /\ m <= k
            /\ s[m].reason # "service_restart" => s[m].ended <= q[i].at
      <4> SUFFICES ASSUME NEW m \in Missions, s[m] # NoRow
                   PROVE  /\ m <= k
                          /\ s[m].reason # "service_restart" => s[m].ended <= q[i].at
        OBVIOUS
      <4>1. CASE m = n
        <5>1. s[m].ended = 0
          BY <1>7, <4>1
        <5> QED
          BY <1>num, <2>1, <3>1, <4>1, <5>1
      <4>2. CASE m # n
        BY <1>6, <4>2 DEF StoreInv, OpenInv
      <4> QED
        BY <4>1, <4>2
    <3>4. \A m \in Missions : m < k /\ Placed(rows, q, m, q[i].device) => Settled(rows, q, m, i)
      BY DEF StoreInv, OpenInv
    <3> QED
      BY <1>9, <1>10, <2>1, <3>2, <3>3, <3>4
  <2> QED
    BY <2>2, <2>3
<1>13. CloseInv(s, q)
  <2> SUFFICES ASSUME NEW k \in 1 .. Len(q), NEW m \in Missions, Ends(q, k, m)
               PROVE  /\ s[m] # NoRow \/ \E i \in 1 .. Len(q) : i < k /\ Opens(q, i, m)
                      /\ s[m] # NoRow =>
                           /\ s[m].run = run
                           /\ s[m].ended # 0 =>
                                k = 1 /\ s[m].ended = q[k].at /\ s[m].reason = q[k].reason
    BY DEF StoreInv, CloseInv
  <2>1. CASE s[m] = rows[m]
    BY <2>1 DEF StoreInv, CloseInv
  <2>2. CASE m = n /\ s[m] = row
    BY <1>row, <1>num, <1>7, <2>2
  <2> QED
    BY <1>6, <1>7, <2>1, <2>2
<1>14. RecoverInv(s, q)
  <2>1. \A i \in 1 .. Len(q) : ~Recovers(q, i)
    BY <1>2 DEF StoreInv, RecoverInv
  <2> QED
    BY <2>1 DEF RecoverInv
<1>15. FollowInv(s)
  <2> SUFFICES ASSUME NEW a \in Missions, NEW b \in Missions, a < b, s[a] # NoRow, s[b] # NoRow,
                      s[a].device = s[b].device
               PROVE  /\ s[a].ended # 0
                      /\ s[a].reason # "service_restart" => s[a].ended <= s[b].started
    BY DEF FollowInv
  <2>1. CASE s[a] = rows[a] /\ s[b] = rows[b]
    BY <2>1 DEF StoreInv, FollowInv
  <2>2. CASE b = n /\ s[b] = row
    <3>1. a # n /\ s[a] = rows[a] /\ rows[a].device = q[1].device /\ s[b].started = q[1].at
      <4>1. a # n
        BY <1>num, <2>2
      <4> QED
        BY <1>row, <1>num, <1>6, <2>2, <4>1
    <3>2. Placed(rows, q, a, q[1].device)
      BY <3>1 DEF Placed
    <3>3. Settled(rows, q, a, 1)
      BY <1>8, <2>2, <3>2
    <3>4. rows[a].ended # 0
      BY <3>3 DEF Settled
    <3> QED
      BY <1>8, <3>1, <3>4
  <2>3. CASE a = n
    <3>1. b # n /\ rows[b] # NoRow
      <4>1. b # n
        BY <1>num, <2>3
      <4> QED
        BY <1>6, <4>1
    <3>2. b <= n
      BY <1>8, <3>1
    <3> QED
      <4>1. ~(b <= n)
        BY <1>num, <2>3
      <4> QED
        BY <3>2, <4>1
  <2> QED
    BY <1>6, <1>7, <2>1, <2>2, <2>3
<1>16. TrackerInv(s, q)
  <2>1. StaysOpen(s, q, n) <=> StaysOpen(rows, q, n)
    <3>1. CASE rows[n] # NoRow
      BY <1>7, <3>1 DEF StaysOpen
    <3>2. CASE rows[n] = NoRow
      <4>1. \A i \in 1 .. Len(q) : Opens(q, i, n) => i = 1
        <5> SUFFICES ASSUME NEW i \in 1 .. Len(q), Opens(q, i, n), i # 1 PROVE FALSE
          OBVIOUS
        <5>1. n < n
          BY <1>8
        <5> QED
          BY <1>num, <5>1
      <4>2. StaysOpen(rows, q, n) <=>
              \A j \in 1 .. Len(q) : 1 < j => ~Recovers(q, j) /\ ~Ends(q, j, n)
        BY <1>1, <1>2, <3>2, <4>1 DEF StaysOpen, IsOpen
      <4>3. ~Recovers(q, 1) /\ ~Ends(q, 1, n)
        BY <1>2
      <4>4. StaysOpen(s, q, n) <=> \A j \in 1 .. Len(q) : ~Recovers(q, j) /\ ~Ends(q, j, n)
        BY <1>7 DEF StaysOpen, IsOpen
      <4>5. \A j \in 1 .. Len(q) : j = 1 \/ 1 < j
        OBVIOUS
      <4> QED
        BY <4>2, <4>3, <4>4, <4>5
    <3> QED
      BY <3>1, <3>2
  <2>2. \A m \in Missions : m # n => (StaysOpen(s, q, m) <=> StaysOpen(rows, q, m))
    BY <1>6 DEF StaysOpen
  <2>3. \A d \in Devices : Active(d) => flights[d].id \in Missions
    BY DEF TypeOK, Active, Flights
  <2>4. \A m \in Missions : (rows[m] # NoRow => rows[m].run = run) => (s[m] # NoRow => s[m].run = run)
    BY <1>row, <1>num, <1>6, <1>7
  <2> QED
    BY <1>9, <2>1, <2>2, <2>3, <2>4 DEF StoreInv, TrackerInv
<1>17. Done(s, q)
  BY <1>2, <1>7 DEF Done
<1> QED
  BY <1>5, <1>11, <1>12, <1>13, <1>14, <1>15, <1>16, <1>17 DEF StoreInv

\* What the end of a mission does to them.
LEMMA EffectOfClose ==
  ASSUME TypeOK, NEW q \in Seq(Writes), q # <<>>, NEW c \in Missions, Ends(q, 1, c),
         StoreInv(rows, q), NEW s, s = Applied(rows, q[1])
  PROVE  s \in Tables /\ StoreInv(s, q) /\ Done(s, q)
<1> USE DEF Recovers, Opens, Ends
<1>1. 1 \in 1 .. Len(q) /\ q[1] \in Writes
  BY TailShifts
<1>2. /\ q[1].op = "close" /\ q[1].id = c /\ q[1].at \in Nat \ {0} /\ q[1].reason \in Reasons
  BY <1>1 DEF Writes, Recover
<1>3. /\ q[1].reason \in {"standby", "device_disconnected"} => airborne[c] <= q[1].at
      /\ q[1].at <= now
      /\ rows[c] # NoRow /\ rows[c].run = run
      /\ rows[c].ended # 0 => rows[c].ended = q[1].at /\ rows[c].reason = q[1].reason
      /\ \A j \in 1 .. Len(q) : Ends(q, j, c) => j = 1
      /\ \A j \in 1 .. Len(q), n \in Missions : 1 < j /\ Opens(q, j, n) => q[1].at <= q[j].at
  <2>1. \A i \in 1 .. Len(q) : ~(i < 1)
    OBVIOUS
  <2> QED
    BY <1>1, <1>2, <2>1 DEF StoreInv, CloseInv
<1>4. rows[c] \in Rows
  BY <1>3 DEF TypeOK, Tables
<1>5. s = [rows EXCEPT ![c] = [rows[c] EXCEPT !.ended = q[1].at, !.reason = q[1].reason]]
  BY <1>2, <1>3 DEF Applied, Ended
<1>6. \A m \in Missions : m # c => s[m] = rows[m]
  BY <1>5 DEF TypeOK, Tables
<1>7. /\ s[c] \in Rows /\ s[c] # NoRow
      /\ s[c].device = rows[c].device /\ s[c].run = rows[c].run /\ s[c].started = rows[c].started
      /\ s[c].ended = q[1].at /\ s[c].reason = q[1].reason
  <2>1. s[c] = [rows[c] EXCEPT !.ended = q[1].at, !.reason = q[1].reason]
    BY <1>5 DEF TypeOK, Tables
  <2>2. s[c] \in Rows
    BY <1>2, <1>4, <2>1 DEF Rows
  <2>3. s[c] # NoRow
    BY <2>2, RowIsThere
  <2> QED
    BY <1>4, <2>1, <2>2, <2>3 DEF Rows
<1>8. s \in Tables
  BY <1>5, <1>6, <1>7 DEF TypeOK, Tables
<1>9. \A m \in Missions : (s[m] = NoRow <=> rows[m] = NoRow) /\ s[m].device = rows[m].device
  BY <1>3, <1>6, <1>7
<1>10. \A m \in Missions, d \in Devices : Placed(s, q, m, d) <=> Placed(rows, q, m, d)
  BY <1>9 DEF Placed
<1>11. \A m \in Missions, j \in 1 .. Len(q) : Settled(rows, q, m, j) => Settled(s, q, m, j)
  BY <1>2, <1>6, <1>7 DEF Settled
<1>12. RowInv(s)
  BY <1>2, <1>3, <1>6, <1>7 DEF StoreInv, RowInv, Reasons
<1>13. OpenInv(s, q)
  <2> SUFFICES ASSUME NEW i \in 1 .. Len(q), NEW n \in Missions, Opens(q, i, n)
               PROVE  /\ s[n] # NoRow => i = 1 /\ s[n].device = q[i].device /\ s[n].ended = 0
                      /\ \A m \in Missions : s[m] # NoRow =>
                           /\ m <= n
                           /\ s[m].reason # "service_restart" => s[m].ended <= q[i].at
                      /\ \A m \in Missions : m < n /\ Placed(s, q, m, q[i].device) =>
                           Settled(s, q, m, i)
    BY DEF StoreInv, OpenInv
  <2>1. q[i].device \in Devices /\ i # 1 /\ 1 < i
    BY <1>2 DEF Writes, Recover
  <2>2. /\ rows[n] = NoRow
        /\ \A m \in Missions : rows[m] # NoRow =>
             /\ m <= n
             /\ rows[m].reason # "service_restart" => rows[m].ended <= q[i].at
        /\ \A m \in Missions : m < n /\ Placed(rows, q, m, q[i].device) => Settled(rows, q, m, i)
    BY <2>1 DEF StoreInv, OpenInv
  <2>3. s[c].ended <= q[i].at
    BY <1>3, <1>7, <2>1
  <2>4. ASSUME NEW m \in Missions, s[m] # NoRow
        PROVE  m <= n /\ (s[m].reason # "service_restart" => s[m].ended <= q[i].at)
    BY <1>6, <1>9, <2>2, <2>3, <2>4
  <2> QED
    BY <1>9, <1>10, <1>11, <2>1, <2>2, <2>4
<1>14. CloseInv(s, q)
  <2> SUFFICES ASSUME NEW k \in 1 .. Len(q), NEW m \in Missions, Ends(q, k, m)
               PROVE  /\ s[m] # NoRow \/ \E i \in 1 .. Len(q) : i < k /\ Opens(q, i, m)
                      /\ s[m] # NoRow =>
                           /\ s[m].run = run
                           /\ s[m].ended # 0 =>
                                k = 1 /\ s[m].ended = q[k].at /\ s[m].reason = q[k].reason
    BY DEF StoreInv, CloseInv
  <2>1. CASE m = c
    BY <1>3, <1>7, <2>1
  <2>2. CASE m # c
    BY <1>6, <2>2 DEF StoreInv, CloseInv
  <2> QED
    BY <2>1, <2>2
<1>15. RecoverInv(s, q)
  <2>1. \A i \in 1 .. Len(q) : ~Recovers(q, i)
    BY <1>2 DEF StoreInv, RecoverInv
  <2> QED
    BY <2>1 DEF RecoverInv
<1>16. FollowInv(s)
  <2> SUFFICES ASSUME NEW a \in Missions, NEW b \in Missions, a < b, s[a] # NoRow, s[b] # NoRow,
                      s[a].device = s[b].device
               PROVE  /\ s[a].ended # 0
                      /\ s[a].reason # "service_restart" => s[a].ended <= s[b].started
    BY DEF FollowInv
  <2>1. /\ rows[a].ended # 0
        /\ rows[a].reason # "service_restart" => rows[a].ended <= rows[b].started
    BY <1>9 DEF StoreInv, FollowInv
  <2>2. s[b].started = rows[b].started
    BY <1>6, <1>7
  <2>3. s[a].ended = rows[a].ended /\ s[a].reason = rows[a].reason
    BY <1>3, <1>6, <1>7, <2>1
  <2> QED
    BY <2>1, <2>2, <2>3
<1>17. TrackerInv(s, q)
  <2>1. ~StaysOpen(s, q, c) /\ ~StaysOpen(rows, q, c)
    BY <1>1, <1>2, <1>3, <1>7 DEF StaysOpen
  <2>2. \A m \in Missions : m # c => (StaysOpen(s, q, m) <=> StaysOpen(rows, q, m))
    BY <1>6 DEF StaysOpen
  <2>3. \A d \in Devices : Active(d) => flights[d].id \in Missions
    BY DEF TypeOK, Active, Flights
  <2>4. \A m \in Missions : s[m].run = rows[m].run
    BY <1>6, <1>7
  <2> QED
    BY <1>9, <1>10, <2>1, <2>2, <2>3, <2>4 DEF StoreInv, TrackerInv
<1>18. Done(s, q)
  BY <1>2, <1>7 DEF Done
<1> QED
  BY <1>8, <1>12, <1>13, <1>14, <1>15, <1>16, <1>17, <1>18 DEF StoreInv

\* Whatever the first write is, executing it keeps the invariant, once or again.
LEMMA EffectKeeps ==
  ASSUME TypeOK, queue # <<>>, StoreInv(rows, queue)
  PROVE  LET s == Applied(rows, Head(queue))
         IN  s \in Tables /\ StoreInv(s, queue) /\ Done(s, queue)
<1>1. queue \in Seq(Writes) /\ Head(queue) = queue[1] /\ queue[1] \in Writes
  BY TailShifts DEF TypeOK
<1>2. \/ Recovers(queue, 1)
      \/ \E m \in Missions : Opens(queue, 1, m)
      \/ \E m \in Missions : Ends(queue, 1, m)
  BY <1>1 DEF Writes, Recover, Recovers, Opens, Ends
<1> QED
  BY <1>1, <1>2, EffectOfRecover, EffectOfOpen, EffectOfClose

-------------------------------------------------------------------------------
(* A write is added to the queue *)

\* What a queue is with one more write.
LEMMA AppendShifts ==
  ASSUME NEW q \in Seq(Writes), NEW w \in Writes, NEW t, t = Append(q, w)
  PROVE  /\ t \in Seq(Writes) /\ Len(q) \in Nat /\ Len(t) = Len(q) + 1
         /\ \A i \in 1 .. Len(q) : i \in 1 .. Len(t) /\ t[i] = q[i]
         /\ \A i \in 1 .. Len(t) : i \in 1 .. Len(q) \/ i = Len(q) + 1
         /\ Len(q) + 1 \in 1 .. Len(t) /\ t[Len(q) + 1] = w
  BY AppendProperties

\* A mission is of one aircraft, and its insert is queued once.
LEMMA PlacedOnce ==
  ASSUME NEW r \in Tables, NEW q \in Seq(Writes), OpenInv(r, q), NEW m \in Missions
  PROVE  /\ \A i, j \in 1 .. Len(q) : Opens(q, i, m) /\ Opens(q, j, m) => i = j
         /\ \A d, e \in Devices : Placed(r, q, m, d) /\ Placed(r, q, m, e) => d = e
<1>1. ASSUME NEW i \in 1 .. Len(q), NEW j \in 1 .. Len(q), Opens(q, i, m), Opens(q, j, m), i < j
      PROVE  FALSE
  <2>1. m < m
    BY <1>1 DEF OpenInv
  <2> QED
    BY <2>1, MissionsAreNumbers
<1>2. \A i, j \in 1 .. Len(q) : Opens(q, i, m) /\ Opens(q, j, m) => i = j
  <2> SUFFICES ASSUME NEW i \in 1 .. Len(q), NEW j \in 1 .. Len(q), Opens(q, i, m), Opens(q, j, m)
               PROVE  i = j
    OBVIOUS
  <2>1. i < j \/ j < i \/ i = j
    OBVIOUS
  <2> QED
    BY <1>1, <2>1
<1>3. ASSUME NEW i \in 1 .. Len(q), Opens(q, i, m), r[m] # NoRow PROVE q[i].device = r[m].device
  BY <1>3 DEF OpenInv
<1> QED
  BY <1>2, <1>3 DEF Placed

\* Nothing queued ends a mission that stays open, and its row, if it is there, is open.
LEMMA StaysOpenHasNoEnd ==
  ASSUME NEW r \in Tables, NEW q \in Seq(Writes), OpenInv(r, q), CloseInv(r, q),
         NEW m \in Missions, StaysOpen(r, q, m)
  PROVE  /\ \A k \in 1 .. Len(q) : ~Ends(q, k, m)
         /\ r[m] # NoRow => r[m].ended = 0
<1>1. CASE IsOpen(r[m]) /\ \A i \in 1 .. Len(q) : ~Recovers(q, i) /\ ~Ends(q, i, m)
  BY <1>1 DEF IsOpen
<1>2. ASSUME r[m] = NoRow, NEW i \in 1 .. Len(q), Opens(q, i, m),
             \A j \in 1 .. Len(q) : i < j => ~Recovers(q, j) /\ ~Ends(q, j, m)
      PROVE  \A k \in 1 .. Len(q) : ~Ends(q, k, m)
  <2> SUFFICES ASSUME NEW k \in 1 .. Len(q), Ends(q, k, m)
               PROVE  FALSE
    OBVIOUS
  <2>1. PICK j \in 1 .. Len(q) : j < k /\ Opens(q, j, m)
    BY <1>2 DEF CloseInv
  <2>2. i = j
    BY <1>2, <2>1, PlacedOnce
  <2> QED
    BY <1>2, <2>1, <2>2
<1> QED
  BY <1>1, <1>2 DEF StaysOpen

\* A mission with a row, or an insert of one, that does not stay open is settled before
\* whatever is queued next.
LEMMA NotOpenIsSettled ==
  ASSUME NEW r \in Tables, NEW q \in Seq(Writes), NEW m \in Missions, NEW d \in Devices,
         RecoverInv(r, q), Placed(r, q, m, d), ~StaysOpen(r, q, m),
         NEW w \in Writes, NEW t, t = Append(q, w)
  PROVE  Settled(r, t, m, Len(q) + 1)
<1>1. /\ Len(q) \in Nat /\ Len(t) = Len(q) + 1
      /\ \A i \in 1 .. Len(q) : i \in 1 .. Len(t) /\ t[i] = q[i]
  BY AppendShifts
<1>2. ASSUME NEW k \in 1 .. Len(q), Ends(q, k, m) PROVE Settled(r, t, m, Len(q) + 1)
  <2>1. k \in 1 .. Len(t) /\ k < Len(q) + 1 /\ Ends(t, k, m)
    BY <1>1, <1>2 DEF Ends
  <2> QED
    BY <2>1 DEF Settled
<1>3. CASE r[m] # NoRow
  <2>1. CASE r[m].ended # 0
    BY <1>3, <2>1 DEF Settled
  <2>2. ASSUME NEW i \in 1 .. Len(q), Recovers(q, i) PROVE Settled(r, t, m, Len(q) + 1)
    <3>1. i = 1
      BY <2>2 DEF RecoverInv
    <3>2. 1 < Len(q) + 1 /\ Recovers(t, 1)
      BY <1>1, <2>2, <3>1 DEF Recovers
    <3> QED
      BY <1>3, <3>2 DEF Settled
  <2>3. CASE r[m].ended = 0
    <3>1. IsOpen(r[m])
      BY <1>3, <2>3 DEF IsOpen
    <3>2. PICK i \in 1 .. Len(q) : Recovers(q, i) \/ Ends(q, i, m)
      BY <3>1 DEF StaysOpen
    <3> QED
      BY <1>2, <2>2, <3>2
  <2> QED
    BY <2>1, <2>3
<1>4. CASE r[m] = NoRow
  <2>1. PICK i \in 1 .. Len(q) : Opens(q, i, m)
    BY <1>4 DEF Placed
  <2>2. PICK j \in 1 .. Len(q) : i < j /\ (Recovers(q, j) \/ Ends(q, j, m))
    BY <1>4, <2>1 DEF StaysOpen
  <2>3. ~Recovers(q, j)
    <3>1. j # 1
      BY <1>1, <2>2
    <3> QED
      BY <3>1 DEF RecoverInv
  <2> QED
    BY <1>2, <2>2, <2>3
<1> QED
  BY <1>3, <1>4

\* A mission begins: its insert is queued behind the writes of the earlier missions.
LEMMA BeginKeeps ==
  ASSUME TypeOK, TypeOK', phase # "down", StoreInv(rows, queue), NEW d \in Devices, Begin(d),
         UNCHANGED <<now, phase, run, rows>>
  PROVE  StoreInv(rows, queue)'
<1> USE DEF Recovers, Opens, Ends
<1>id. PICK n : n = started' /\ n = started + 1
  BY DEF Begin
<1>f. PICK f : /\ f = [id |-> n, startedAt |-> now, last |-> now, standbySince |-> 0,
                       disconnectedSince |-> 0]
               /\ flights' = [flights EXCEPT ![d] = f]
               /\ queue' = Append(queue, Open(f, d))
               /\ airborne' = [airborne EXCEPT ![n] = now]
  BY <1>id DEF Begin, Enqueued
<1>new. /\ n = started + 1 /\ n = started' /\ f.id = n /\ f.startedAt = now
        /\ flights' = [flights EXCEPT ![d] = f]
        /\ queue' = Append(queue, Open(f, d))
        /\ airborne' = [airborne EXCEPT ![n] = now]
  BY <1>id, <1>f
<1>1. /\ ~Active(d) /\ n \in Missions /\ n \in Nat /\ started \in Nat /\ now \in Nat \ {0}
      /\ f # NoFlight /\ \A m \in Missions : m \in Nat
  <2>1. f.id # 0 /\ NoFlight.id = 0
    BY <1>new DEF TypeOK, NoFlight
  <2> QED
    BY <1>new, <2>1, MissionsAreNumbers DEF Begin, TypeOK, Missions
<1>2. PICK w \in Writes : /\ w = Open(f, d) /\ w.op = "open" /\ w.id = n /\ w.device = d /\ w.at = now
  <2>1. Open(f, d) = [op |-> "open", id |-> n, device |-> d, at |-> now]
    BY <1>new DEF Open
  <2>2. Open(f, d) \in Writes
    BY <1>1, <2>1 DEF Writes
  <2> QED
    BY <2>1, <2>2
<1>3. /\ queue \in Seq(Writes) /\ queue' \in Seq(Writes)
      /\ Len(queue) \in Nat /\ Len(queue') = Len(queue) + 1
      /\ \A i \in 1 .. Len(queue) : i \in 1 .. Len(queue') /\ queue'[i] = queue[i]
      /\ \A i \in 1 .. Len(queue') : i \in 1 .. Len(queue) \/ i = Len(queue) + 1
      /\ Len(queue) + 1 \in 1 .. Len(queue') /\ queue'[Len(queue) + 1] = w
  BY <1>new, <1>2, AppendShifts DEF TypeOK
\* The mission is new.
<1>4. /\ \A m \in Missions : rows[m] # NoRow => m <= started
      /\ \A i \in 1 .. Len(queue), m \in Missions : Opens(queue, i, m) => m <= started
      /\ \A i \in 1 .. Len(queue), m \in Missions : Ends(queue, i, m) => m <= started
  <2>1. \A i \in 1 .. Len(queue), m \in Missions : Opens(queue, i, m) => m <= started
    BY DEF StoreInv, OpenInv
  <2>2. \A m \in Missions : rows[m] # NoRow => m <= started
    BY DEF StoreInv, RowInv
  <2>3. ASSUME NEW i \in 1 .. Len(queue), NEW m \in Missions, Ends(queue, i, m)
        PROVE  rows[m] # NoRow \/ \E j \in 1 .. Len(queue) : Opens(queue, j, m)
    BY <2>3 DEF StoreInv, CloseInv
  <2> QED
    BY <2>1, <2>2, <2>3
<1>5. \A m \in Missions : m <= started => m # n
  BY <1>new, <1>1
<1>6. rows[n] = NoRow /\ \A i \in 1 .. Len(queue) : ~Opens(queue, i, n) /\ ~Ends(queue, i, n)
  BY <1>1, <1>4, <1>5
<1>7. \A m \in Missions, e \in Devices :
        Placed(rows, queue', m, e) <=> Placed(rows, queue, m, e) \/ (m = n /\ e = d)
  BY <1>2, <1>3 DEF Placed
<1>8. \A m \in Missions, j \in 1 .. Len(queue) :
        Settled(rows, queue, m, j) => Settled(rows, queue', m, j)
  BY <1>3 DEF Settled
<1>9. \A m \in Missions : StaysOpen(rows, queue', m) <=> StaysOpen(rows, queue, m) \/ m = n
  <2>1. ~Recovers(queue', Len(queue) + 1)
    BY <1>2, <1>3
  <2>2. \A m \in Missions : ~Ends(queue', Len(queue) + 1, m)
    BY <1>2, <1>3
  <2>3. \A m \in Missions : m # n => ~Opens(queue', Len(queue) + 1, m)
    BY <1>2, <1>3
  <2>4. StaysOpen(rows, queue', n)
    <3>1. Opens(queue', Len(queue) + 1, n)
      BY <1>2, <1>3
    <3>2. \A j \in 1 .. Len(queue') : ~(Len(queue) + 1 < j)
      BY <1>3
    <3> QED
      BY <1>3, <1>6, <3>1, <3>2 DEF StaysOpen
  <2>5. ASSUME NEW m \in Missions, m # n
        PROVE  StaysOpen(rows, queue', m) <=> StaysOpen(rows, queue, m)
    BY <1>3, <2>1, <2>2, <2>3, <2>5 DEF StaysOpen
  <2> QED
    BY <2>4, <2>5
<1>10. \A m \in Missions : m # n => airborne'[m] = airborne[m]
  BY <1>new DEF TypeOK
<1>11. RowInv(rows)'
  BY <1>new, <1>1, <1>4, <1>5, <1>10 DEF StoreInv, RowInv
<1>12. \A m \in Missions : m < n /\ Placed(rows, queue, m, d) =>
         Settled(rows, queue', m, Len(queue) + 1)
  <2> SUFFICES ASSUME NEW m \in Missions, Placed(rows, queue, m, d), StaysOpen(rows, queue, m)
               PROVE  FALSE
    BY <1>new, <1>2, <1>3, NotOpenIsSettled DEF StoreInv, TypeOK
  <2>1. PICK e \in Devices : Active(e) /\ flights[e].id = m
    BY DEF StoreInv, TrackerInv
  <2>2. Placed(rows, queue, m, e)
    BY <2>1 DEF StoreInv, TrackerInv
  <2>3. e = d
    BY <1>3, <2>2, PlacedOnce DEF StoreInv, TypeOK
  <2> QED
    BY <1>1, <2>1, <2>3
<1>13. OpenInv(rows, queue)'
  <2> SUFFICES ASSUME NEW i \in 1 .. Len(queue'), NEW k \in Missions, Opens(queue', i, k)
               PROVE  /\ k <= started' /\ queue'[i].at <= now
                      /\ \A j \in 1 .. Len(queue'), m \in Missions :
                           i < j /\ Opens(queue', j, m) => k < m
                      /\ rows[k] # NoRow =>
                           i = 1 /\ rows[k].device = queue'[i].device /\ rows[k].ended = 0
                      /\ \A m \in Missions : rows[m] # NoRow =>
                           /\ m <= k
                           /\ rows[m].reason # "service_restart" => rows[m].ended <= queue'[i].at
                      /\ \A m \in Missions : m < k /\ Placed(rows, queue', m, queue'[i].device) =>
                           Settled(rows, queue', m, i)
    BY DEF OpenInv
  <2>1. CASE i \in 1 .. Len(queue)
    <3>1. queue'[i] = queue[i] /\ Opens(queue, i, k) /\ queue[i].device \in Devices
      BY <1>3, <2>1 DEF Writes, Recover
    <3>2. /\ k <= started /\ queue[i].at <= now
          /\ \A j \in 1 .. Len(queue), m \in Missions : i < j /\ Opens(queue, j, m) => k < m
          /\ rows[k] # NoRow =>
               i = 1 /\ rows[k].device = queue[i].device /\ rows[k].ended = 0
          /\ \A m \in Missions : rows[m] # NoRow =>
               /\ m <= k
               /\ rows[m].reason # "service_restart" => rows[m].ended <= queue[i].at
          /\ \A m \in Missions : m < k /\ Placed(rows, queue, m, queue[i].device) =>
               Settled(rows, queue, m, i)
      BY <2>1, <3>1 DEF StoreInv, OpenInv
    <3>3. k < n /\ k <= started'
      BY <1>id, <1>1, <3>2
    <3>4. \A j \in 1 .. Len(queue'), m \in Missions : i < j /\ Opens(queue', j, m) => k < m
      <4> SUFFICES ASSUME NEW j \in 1 .. Len(queue'), NEW m \in Missions, i < j, Opens(queue', j, m)
                   PROVE  k < m
        OBVIOUS
      <4>1. CASE j \in 1 .. Len(queue)
        BY <1>3, <3>2, <4>1
      <4>2. CASE j = Len(queue) + 1
        <5>1. m = n
          BY <1>2, <1>3, <4>2
        <5> QED
          BY <3>3, <5>1
      <4> QED
        BY <1>3, <4>1, <4>2
    <3>5. \A m \in Missions : m < k => m # n
      BY <1>1, <3>3
    <3>6. \A m \in Missions : m < k /\ Placed(rows, queue', m, queue'[i].device) =>
            Settled(rows, queue', m, i)
      BY <1>7, <1>8, <2>1, <3>1, <3>2, <3>5
    <3> QED
      BY <3>1, <3>2, <3>3, <3>4, <3>6
  <2>2. CASE i = Len(queue) + 1
    <3>1. k = n /\ queue'[i].at = now /\ queue'[i].device = d
      BY <1>2, <1>3, <2>2
    <3>2. \A j \in 1 .. Len(queue') : ~(i < j)
      BY <1>3, <2>2
    <3>3. n <= started' /\ now <= now /\ \A m \in Missions : m <= started => m <= n
      BY <1>1, <1>new
    <3>4. \A m \in Missions : rows[m] # NoRow => m <= n /\ rows[m].ended <= now
      BY <1>4, <3>3 DEF StoreInv, RowInv
    <3>5. \A m \in Missions : m < n => m # n
      BY <1>1
    <3>6. \A m \in Missions : m < n /\ Placed(rows, queue', m, d) => Settled(rows, queue', m, i)
      BY <1>7, <1>12, <2>2, <3>5
    <3> QED
      BY <1>6, <3>1, <3>2, <3>3, <3>4, <3>6
  <2> QED
    BY <1>3, <2>1, <2>2
<1>14. CloseInv(rows, queue)'
  <2> SUFFICES ASSUME NEW k \in 1 .. Len(queue'), NEW m \in Missions, Ends(queue', k, m)
               PROVE  /\ queue'[k].at <= now
                      /\ queue'[k].reason \in {"standby", "device_disconnected"} =>
                           airborne'[m] <= queue'[k].at
                      /\ rows[m] # NoRow \/ \E i \in 1 .. Len(queue') : i < k /\ Opens(queue', i, m)
                      /\ rows[m] # NoRow =>
                           /\ rows[m].run = run
                           /\ rows[m].ended # 0 =>
                                k = 1 /\ rows[m].ended = queue'[k].at /\ rows[m].reason = queue'[k].reason
                      /\ \A j \in 1 .. Len(queue') : Ends(queue', j, m) => j = k
                      /\ \A j \in 1 .. Len(queue'), c \in Missions :
                           k < j /\ Opens(queue', j, c) => queue'[k].at <= queue'[j].at
    BY DEF CloseInv
  <2>1. k \in 1 .. Len(queue) /\ queue'[k] = queue[k] /\ Ends(queue, k, m)
    BY <1>2, <1>3
  <2>2. m # n
    BY <1>6, <2>1
  <2>3. /\ queue[k].at <= now
        /\ queue[k].reason \in {"standby", "device_disconnected"} => airborne[m] <= queue[k].at
        /\ rows[m] # NoRow \/ \E i \in 1 .. Len(queue) : i < k /\ Opens(queue, i, m)
        /\ rows[m] # NoRow =>
             /\ rows[m].run = run
             /\ rows[m].ended # 0 =>
                  k = 1 /\ rows[m].ended = queue[k].at /\ rows[m].reason = queue[k].reason
        /\ \A j \in 1 .. Len(queue) : Ends(queue, j, m) => j = k
        /\ \A j \in 1 .. Len(queue), c \in Missions :
             k < j /\ Opens(queue, j, c) => queue[k].at <= queue[j].at
    BY <2>1 DEF StoreInv, CloseInv
  <2>4. rows[m] # NoRow \/ \E i \in 1 .. Len(queue') : i < k /\ Opens(queue', i, m)
    BY <1>3, <2>3
  <2>5. \A j \in 1 .. Len(queue') : Ends(queue', j, m) => j = k
    BY <1>2, <1>3, <2>3
  <2>6. \A j \in 1 .. Len(queue'), c \in Missions :
          k < j /\ Opens(queue', j, c) => queue'[k].at <= queue'[j].at
    BY <1>2, <1>3, <2>1, <2>3
  <2> QED
    BY <1>10, <2>1, <2>2, <2>3, <2>4, <2>5, <2>6
<1>15. RecoverInv(rows, queue)'
  BY <1>2, <1>3 DEF StoreInv, RecoverInv
<1>16. FollowInv(rows)'
  BY DEF StoreInv, FollowInv
<1>17. TrackerInv(rows, queue)'
  <2>1. \A e \in Devices : e # d => flights'[e] = flights[e]
    BY <1>new DEF TypeOK
  <2>2. flights'[d] = f /\ f.id = n /\ Active(d)'
    BY <1>new, <1>1 DEF TypeOK, Active
  <2>3. \A e \in Devices : e # d => (Active(e)' <=> Active(e))
    BY <2>1 DEF Active
  <2>4. \A e \in Devices : Active(e) => flights[e].id \in Missions /\ flights[e].id # n
    <3> SUFFICES ASSUME NEW e \in Devices, Active(e)
                 PROVE  flights[e].id \in Missions /\ flights[e].id # n
      OBVIOUS
    <3>1. flights[e].id \in Missions
      BY DEF TypeOK, Active, Flights
    <3>2. Placed(rows, queue, flights[e].id, e)
      BY DEF StoreInv, TrackerInv
    <3>3. ~Placed(rows, queue, n, e)
      BY <1>6 DEF Placed
    <3> QED
      BY <3>1, <3>2, <3>3
  <2>5. \A m \in Missions : StaysOpen(rows, queue, m) <=>
                              \E e \in Devices : Active(e) /\ flights[e].id = m
    BY DEF StoreInv, TrackerInv
  <2>6. \A m \in Missions : StaysOpen(rows, queue', m) <=>
                              \E e \in Devices : Active(e)' /\ flights'[e].id = m
    BY <1>1, <1>9, <2>1, <2>2, <2>3, <2>4, <2>5
  <2>7. ASSUME NEW e \in Devices, Active(e)'
        PROVE  /\ Placed(rows, queue', flights'[e].id, e)
               /\ rows[flights'[e].id] # NoRow => rows[flights'[e].id].run = run
    <3>1. CASE e = d
      BY <1>1, <1>6, <1>7, <2>2, <3>1
    <3>2. CASE e # d
      BY <1>7, <2>1, <2>3, <2>4, <2>7, <3>2 DEF StoreInv, TrackerInv
    <3> QED
      BY <3>1, <3>2
  <2> QED
    BY <2>6, <2>7 DEF TrackerInv
<1> QED
  BY <1>11, <1>13, <1>14, <1>15, <1>16, <1>17 DEF StoreInv

\* A mission ends: its end is queued behind the insert of its row, if that is still queued.
LEMMA EndKeeps ==
  ASSUME TypeOK, TypeOK', FlightInv, phase # "down", StoreInv(rows, queue),
         NEW d \in Devices, Active(d), NEW at \in Nat \ {0}, NEW reason \in Reasons,
         at <= now,
         reason \in {"standby", "device_disconnected"} => airborne[flights[d].id] <= at,
         End(d, at, reason), UNCHANGED <<now, phase, run, rows>>
  PROVE  StoreInv(rows, queue)'
<1> USE DEF Recovers, Opens, Ends
<1>id. PICK c : c = flights[d].id
  OBVIOUS
<1>new. /\ flights' = [flights EXCEPT ![d] = NoFlight]
        /\ queue' = Append(queue, Close(flights[d], at, reason))
        /\ UNCHANGED <<now, phase, run, rows, started, airborne>>
  BY DEF End, Enqueued
<1>1. c \in Missions /\ now \in Nat
  BY <1>id DEF TypeOK, Active, Flights
<1>2. PICK w \in Writes : /\ w = Close(flights[d], at, reason) /\ w.op = "close" /\ w.id = c
                          /\ w.at = at /\ w.reason = reason
  <2>1. Close(flights[d], at, reason) = [op |-> "close", id |-> c, at |-> at, reason |-> reason]
    BY <1>id DEF Close
  <2>2. Close(flights[d], at, reason) \in Writes
    BY <1>1, <2>1 DEF Writes
  <2> QED
    BY <2>1, <2>2
<1>3. /\ queue \in Seq(Writes) /\ queue' \in Seq(Writes)
      /\ Len(queue) \in Nat /\ Len(queue') = Len(queue) + 1
      /\ \A i \in 1 .. Len(queue) : i \in 1 .. Len(queue') /\ queue'[i] = queue[i]
      /\ \A i \in 1 .. Len(queue') : i \in 1 .. Len(queue) \/ i = Len(queue) + 1
      /\ Len(queue) + 1 \in 1 .. Len(queue') /\ queue'[Len(queue) + 1] = w
  BY <1>new, <1>2, AppendShifts DEF TypeOK
<1>air. airborne' = airborne
  BY <1>new
\* The mission is not ended yet.
<1>4. /\ StaysOpen(rows, queue, c)
      /\ Placed(rows, queue, c, d)
      /\ rows[c] # NoRow => rows[c].run = run
  BY <1>id, <1>1 DEF StoreInv, TrackerInv
<1>5. /\ \A k \in 1 .. Len(queue) : ~Ends(queue, k, c)
      /\ rows[c] # NoRow => rows[c].ended = 0
      /\ rows[c] # NoRow \/ \E i \in 1 .. Len(queue) : Opens(queue, i, c)
  <2>1. /\ \A k \in 1 .. Len(queue) : ~Ends(queue, k, c)
        /\ rows[c] # NoRow => rows[c].ended = 0
    BY <1>1, <1>3, <1>4, StaysOpenHasNoEnd DEF StoreInv, TypeOK
  <2>2. rows[c] # NoRow \/ \E i \in 1 .. Len(queue) : Opens(queue, i, c)
    BY <1>4 DEF Placed
  <2> QED
    BY <2>1, <2>2
<1>6. /\ ~Recovers(queue', Len(queue) + 1)
      /\ \A m \in Missions : ~Opens(queue', Len(queue) + 1, m)
      /\ \A m \in Missions : Ends(queue', Len(queue) + 1, m) <=> m = c
  BY <1>2, <1>3
<1>7. \A m \in Missions, e \in Devices : Placed(rows, queue', m, e) <=> Placed(rows, queue, m, e)
  BY <1>3, <1>6 DEF Placed
<1>8. \A m \in Missions, j \in 1 .. Len(queue) :
        Settled(rows, queue, m, j) => Settled(rows, queue', m, j)
  BY <1>3 DEF Settled
<1>9. \A m \in Missions : StaysOpen(rows, queue', m) <=> StaysOpen(rows, queue, m) /\ m # c
  <2>1. ASSUME NEW m \in Missions, m # c
        PROVE  StaysOpen(rows, queue', m) <=> StaysOpen(rows, queue, m)
    <3>1. /\ \A i \in 1 .. Len(queue) :
               /\ Recovers(queue', i) <=> Recovers(queue, i)
               /\ Opens(queue', i, m) <=> Opens(queue, i, m)
               /\ Ends(queue', i, m) <=> Ends(queue, i, m)
          /\ ~Opens(queue', Len(queue) + 1, m)
          /\ ~Recovers(queue', Len(queue) + 1) /\ ~Ends(queue', Len(queue) + 1, m)
      BY <1>3, <1>6, <2>1
    <3> HIDE DEF Recovers, Opens, Ends
    <3> QED
      BY <1>3, <3>1 DEF StaysOpen
  <2>2. ~StaysOpen(rows, queue', c)
    <3>1. \A i \in 1 .. Len(queue') : Opens(queue', i, c) => i < Len(queue) + 1
      BY <1>1, <1>3, <1>6
    <3> QED
      BY <1>1, <1>3, <1>6, <3>1 DEF StaysOpen
  <2> QED
    BY <2>1, <2>2
<1>10. RowInv(rows)'
  BY <1>new DEF StoreInv, RowInv
<1>11. OpenInv(rows, queue)'
  <2> SUFFICES ASSUME NEW i \in 1 .. Len(queue'), NEW k \in Missions, Opens(queue', i, k)
               PROVE  /\ k <= started' /\ queue'[i].at <= now
                      /\ \A j \in 1 .. Len(queue'), m \in Missions :
                           i < j /\ Opens(queue', j, m) => k < m
                      /\ rows[k] # NoRow =>
                           i = 1 /\ rows[k].device = queue'[i].device /\ rows[k].ended = 0
                      /\ \A m \in Missions : rows[m] # NoRow =>
                           /\ m <= k
                           /\ rows[m].reason # "service_restart" => rows[m].ended <= queue'[i].at
                      /\ \A m \in Missions : m < k /\ Placed(rows, queue', m, queue'[i].device) =>
                           Settled(rows, queue', m, i)
    BY DEF OpenInv
  <2>1. i \in 1 .. Len(queue)
    BY <1>3, <1>6
  <2>2. queue'[i] = queue[i] /\ Opens(queue, i, k) /\ queue[i].device \in Devices
    BY <1>3, <2>1 DEF Writes, Recover
  <2>3. /\ k <= started /\ queue[i].at <= now
        /\ \A j \in 1 .. Len(queue), m \in Missions : i < j /\ Opens(queue, j, m) => k < m
        /\ rows[k] # NoRow =>
             i = 1 /\ rows[k].device = queue[i].device /\ rows[k].ended = 0
        /\ \A m \in Missions : rows[m] # NoRow =>
             /\ m <= k
             /\ rows[m].reason # "service_restart" => rows[m].ended <= queue[i].at
        /\ \A m \in Missions : m < k /\ Placed(rows, queue, m, queue[i].device) =>
             Settled(rows, queue, m, i)
    BY <2>1, <2>2 DEF StoreInv, OpenInv
  <2>4. \A j \in 1 .. Len(queue'), m \in Missions : i < j /\ Opens(queue', j, m) => k < m
    BY <1>3, <1>6, <2>3
  <2>5. \A m \in Missions : m < k /\ Placed(rows, queue', m, queue'[i].device) =>
          Settled(rows, queue', m, i)
    BY <1>7, <1>8, <2>1, <2>2, <2>3
  <2> QED
    BY <1>new, <2>2, <2>3, <2>4, <2>5
<1>12. CloseInv(rows, queue)'
  <2> SUFFICES ASSUME NEW k \in 1 .. Len(queue'), NEW m \in Missions, Ends(queue', k, m)
               PROVE  /\ queue'[k].at <= now
                      /\ queue'[k].reason \in {"standby", "device_disconnected"} =>
                           airborne'[m] <= queue'[k].at
                      /\ rows[m] # NoRow \/ \E i \in 1 .. Len(queue') : i < k /\ Opens(queue', i, m)
                      /\ rows[m] # NoRow =>
                           /\ rows[m].run = run
                           /\ rows[m].ended # 0 =>
                                k = 1 /\ rows[m].ended = queue'[k].at /\ rows[m].reason = queue'[k].reason
                      /\ \A j \in 1 .. Len(queue') : Ends(queue', j, m) => j = k
                      /\ \A j \in 1 .. Len(queue'), n \in Missions :
                           k < j /\ Opens(queue', j, n) => queue'[k].at <= queue'[j].at
    BY DEF CloseInv
  <2>1. CASE k \in 1 .. Len(queue)
    <3>1. queue'[k] = queue[k] /\ Ends(queue, k, m) /\ m # c
      BY <1>3, <1>5, <2>1
    <3>2. /\ queue[k].at <= now
          /\ queue[k].reason \in {"standby", "device_disconnected"} => airborne[m] <= queue[k].at
          /\ rows[m] # NoRow \/ \E i \in 1 .. Len(queue) : i < k /\ Opens(queue, i, m)
          /\ rows[m] # NoRow =>
               /\ rows[m].run = run
               /\ rows[m].ended # 0 =>
                    k = 1 /\ rows[m].ended = queue[k].at /\ rows[m].reason = queue[k].reason
          /\ \A j \in 1 .. Len(queue) : Ends(queue, j, m) => j = k
          /\ \A j \in 1 .. Len(queue), n \in Missions :
               k < j /\ Opens(queue, j, n) => queue[k].at <= queue[j].at
      BY <2>1, <3>1 DEF StoreInv, CloseInv
    <3>3. rows[m] # NoRow \/ \E i \in 1 .. Len(queue') : i < k /\ Opens(queue', i, m)
      BY <1>3, <3>2
    <3>4. \A j \in 1 .. Len(queue') : Ends(queue', j, m) => j = k
      BY <1>3, <1>6, <3>1, <3>2
    <3>5. \A j \in 1 .. Len(queue'), n \in Missions :
            k < j /\ Opens(queue', j, n) => queue'[k].at <= queue'[j].at
      BY <1>3, <1>6, <3>1, <3>2
    <3> QED
      BY <1>air, <3>1, <3>2, <3>3, <3>4, <3>5
  <2>2. CASE k = Len(queue) + 1
    <3>1. m = c /\ queue'[k].at = at /\ queue'[k].reason = reason
      BY <1>2, <1>3, <1>6, <2>2
    <3>2. \A j \in 1 .. Len(queue') : Ends(queue', j, m) => j = k
      BY <1>3, <1>5, <2>2, <3>1
    <3>3. \A j \in 1 .. Len(queue') : ~(k < j)
      BY <1>3, <2>2
    <3>4. rows[m] # NoRow \/ \E i \in 1 .. Len(queue') : i < k /\ Opens(queue', i, m)
      BY <1>3, <1>5, <2>2, <3>1
    <3> QED
      BY <1>air, <1>id, <1>4, <1>5, <3>1, <3>2, <3>3, <3>4
  <2> QED
    BY <1>3, <2>1, <2>2
<1>13. RecoverInv(rows, queue)'
  BY <1>3, <1>6, <1>new DEF StoreInv, RecoverInv
<1>14. FollowInv(rows)'
  BY <1>new DEF StoreInv, FollowInv
<1>15. TrackerInv(rows, queue)'
  <2>1. \A e \in Devices : e # d => flights'[e] = flights[e] /\ (Active(e)' <=> Active(e))
    BY <1>new DEF TypeOK, Active
  <2>2. ~Active(d)'
    BY <1>new DEF TypeOK, Active
  <2>3. \A e \in Devices : Active(e) =>
          flights[e].id \in Missions /\ (flights[e].id = c => e = d)
    <3>1. \A e \in Devices : Active(e) => flights[e].id \in Missions
      BY DEF TypeOK, Active, Flights
    <3>2. \A e \in Devices : Active(e) /\ flights[e].id = c => e = d
      BY <1>id DEF FlightInv
    <3> QED
      BY <3>1, <3>2
  <2>4. \A m \in Missions : StaysOpen(rows, queue, m) <=>
                              \E e \in Devices : Active(e) /\ flights[e].id = m
    BY DEF StoreInv, TrackerInv
  <2>5. \A m \in Missions : StaysOpen(rows, queue', m) <=>
                              \E e \in Devices : Active(e)' /\ flights'[e].id = m
    BY <1>id, <1>9, <2>1, <2>2, <2>3, <2>4
  <2>6. ASSUME NEW e \in Devices, Active(e)'
        PROVE  /\ Placed(rows, queue', flights'[e].id, e)
               /\ rows[flights'[e].id] # NoRow => rows[flights'[e].id].run = run
    BY <1>7, <2>1, <2>2, <2>3, <2>6 DEF StoreInv, TrackerInv
  <2> QED
    BY <1>new, <2>5, <2>6 DEF TrackerInv
<1> QED
  BY <1>10, <1>11, <1>12, <1>13, <1>14, <1>15 DEF StoreInv

-------------------------------------------------------------------------------
(* The other steps *)

\* Time passes, a write is acknowledged, the service moves on, a frame moves the marks of
\* a mission that is not ended: the relation of the table and the queue stays.
LEMMA Carries ==
  ASSUME NEW r \in Tables, NEW q \in Seq(Writes), TypeOK, TypeOK', StoreInv(r, q),
         now <= now', UNCHANGED <<run, started>>, phase' # "down" => phase # "down",
         \A m \in Missions : airborne'[m] = airborne[m] \/ StaysOpen(r, q, m),
         \A d \in Devices : /\ Active(d)' <=> Active(d)
                            /\ Active(d) => flights'[d].id = flights[d].id
  PROVE  StoreInv(r, q)'
<1> USE DEF Recovers, Opens, Ends
<1>1. /\ now \in Nat /\ now' \in Nat
      /\ \A i \in 1 .. Len(q), n \in Missions : Opens(q, i, n) => q[i].at \in Nat
      /\ \A i \in 1 .. Len(q), n \in Missions : Ends(q, i, n) => q[i].at \in Nat
      /\ \A m \in Missions : r[m] # NoRow => r[m].ended \in Nat
  BY DEF TypeOK, Writes, Recover, Tables, Rows
<1>2. \A m \in Missions : StaysOpen(r, q, m) =>
        /\ \A k \in 1 .. Len(q) : ~Ends(q, k, m)
        /\ r[m] # NoRow => r[m].ended = 0
  BY StaysOpenHasNoEnd DEF StoreInv
<1>3. RowInv(r)'
  <2> SUFFICES ASSUME NEW m \in Missions, r[m] # NoRow
               PROVE  /\ m <= started
                      /\ r[m].run <= run
                      /\ r[m].ended <= now'
                      /\ r[m].reason = "service_restart" => r[m].run < run
                      /\ r[m].ended = 0 => r[m].reason = "none"
                      /\ r[m].reason \in {"standby", "device_disconnected"} =>
                           airborne'[m] <= r[m].ended
    BY DEF RowInv
  <2>1. /\ m <= started
        /\ r[m].run <= run
        /\ r[m].ended <= now
        /\ r[m].reason = "service_restart" => r[m].run < run
        /\ r[m].ended = 0 => r[m].reason = "none"
        /\ r[m].reason \in {"standby", "device_disconnected"} => airborne[m] <= r[m].ended
    BY DEF StoreInv, RowInv
  <2>2. r[m].ended <= now'
    BY <1>1, <2>1
  <2>3. r[m].reason \in {"standby", "device_disconnected"} => airborne'[m] = airborne[m]
    BY <1>2, <2>1
  <2> QED
    BY <2>1, <2>2, <2>3
<1>4. OpenInv(r, q)'
  <2> SUFFICES ASSUME NEW i \in 1 .. Len(q), NEW n \in Missions, Opens(q, i, n)
               PROVE  /\ n <= started /\ q[i].at <= now'
                      /\ \A j \in 1 .. Len(q), m \in Missions : i < j /\ Opens(q, j, m) => n < m
                      /\ r[n] # NoRow => i = 1 /\ r[n].device = q[i].device /\ r[n].ended = 0
                      /\ \A m \in Missions : r[m] # NoRow =>
                           /\ m <= n
                           /\ r[m].reason # "service_restart" => r[m].ended <= q[i].at
                      /\ \A m \in Missions : m < n /\ Placed(r, q, m, q[i].device) =>
                           Settled(r, q, m, i)
    BY DEF OpenInv, Placed, Settled
  <2>1. q[i].at <= now'
    <3>1. q[i].at <= now
      BY DEF StoreInv, OpenInv
    <3> QED
      BY <1>1, <3>1
  <2> QED
    BY <2>1 DEF StoreInv, OpenInv
<1>5. CloseInv(r, q)'
  <2> SUFFICES ASSUME NEW k \in 1 .. Len(q), NEW m \in Missions, Ends(q, k, m)
               PROVE  /\ q[k].at <= now'
                      /\ q[k].reason \in {"standby", "device_disconnected"} =>
                           airborne'[m] <= q[k].at
                      /\ r[m] # NoRow \/ \E i \in 1 .. Len(q) : i < k /\ Opens(q, i, m)
                      /\ r[m] # NoRow =>
                           /\ r[m].run = run
                           /\ r[m].ended # 0 =>
                                k = 1 /\ r[m].ended = q[k].at /\ r[m].reason = q[k].reason
                      /\ \A j \in 1 .. Len(q) : Ends(q, j, m) => j = k
                      /\ \A j \in 1 .. Len(q), n \in Missions :
                           k < j /\ Opens(q, j, n) => q[k].at <= q[j].at
    BY DEF CloseInv
  <2>1. q[k].at <= now'
    <3>1. q[k].at <= now
      BY DEF StoreInv, CloseInv
    <3> QED
      BY <1>1, <3>1
  <2>2. airborne'[m] = airborne[m]
    BY <1>2
  <2> QED
    BY <2>1, <2>2 DEF StoreInv, CloseInv
<1>6. RecoverInv(r, q)'
  BY DEF StoreInv, RecoverInv
<1>7. FollowInv(r)'
  BY DEF StoreInv, FollowInv
<1>8. TrackerInv(r, q)'
  <2>1. CASE phase' = "down"
    BY <2>1 DEF TrackerInv
  <2>2. CASE phase' # "down"
    <3>1. \A m \in Missions : StaysOpen(r, q, m) <=>
                                \E d \in Devices : Active(d)' /\ flights'[d].id = m
      BY <2>2 DEF StoreInv, TrackerInv
    <3>2. ASSUME NEW d \in Devices, Active(d)'
          PROVE  /\ Placed(r, q, flights'[d].id, d)
                 /\ r[flights'[d].id] # NoRow => r[flights'[d].id].run = run
      BY <2>2, <3>2 DEF StoreInv, TrackerInv
    <3> QED
      BY <3>1, <3>2 DEF TrackerInv, StaysOpen, IsOpen, Placed
  <2> QED
    BY <2>1, <2>2
<1> QED
  BY <1>3, <1>4, <1>5, <1>6, <1>7, <1>8 DEF StoreInv

\* Nothing is queued when the service is down.
LEMMA StopKeeps ==
  ASSUME NEW r \in Tables, NEW q \in Seq(Writes), StoreInv(r, q), phase' = "down",
         UNCHANGED <<now, run, started, airborne>>
  PROVE  StoreInv(r, <<>>)'
<1>1. RowInv(r)' /\ FollowInv(r)'
  BY DEF StoreInv, RowInv, FollowInv
<1>2. OpenInv(r, <<>>)' /\ CloseInv(r, <<>>)' /\ RecoverInv(r, <<>>)'
  BY DEF OpenInv, CloseInv, RecoverInv
<1>3. TrackerInv(r, <<>>)'
  BY DEF TrackerInv
<1> QED
  BY <1>1, <1>2, <1>3 DEF StoreInv

\* A restarted service finds rows of earlier runs and has its recovery queued.
LEMMA BootKeeps ==
  ASSUME TypeOK, TypeOK', StoreInv(rows, queue), Boot
  PROVE  StoreInv(rows, queue)'
<1> USE DEF Recovers, Opens, Ends
<1>1. /\ queue' = <<Recover>> /\ Len(queue') = 1 /\ queue'[1] = Recover
      /\ Recover.op = "recover" /\ \A i \in 1 .. Len(queue') : i = 1
  BY DEF Boot, FirstWrites, Recover
<1>2. /\ UNCHANGED <<now, started, rows, airborne>> /\ run' = run + 1
      /\ \A d \in Devices : ~Active(d)'
  BY DEF Boot, Active
<1>3. \A m \in Missions : rows[m] # NoRow => rows[m].run \in Nat /\ rows[m].run < run'
  <2> SUFFICES ASSUME NEW m \in Missions, rows[m] # NoRow
               PROVE  rows[m].run \in Nat /\ rows[m].run < run'
    OBVIOUS
  <2>1. rows[m].run \in Nat /\ run \in Nat
    BY DEF TypeOK, Tables, Rows
  <2>2. rows[m].run <= run
    BY DEF StoreInv, RowInv
  <2> QED
    BY <1>2, <2>1, <2>2
<1>4. run' \in Nat
  BY DEF TypeOK
<1>5. RowInv(rows)'
  <2>1. \A m \in Missions : rows[m] # NoRow => rows[m].run <= run'
    BY <1>3, <1>4
  <2> QED
    BY <1>2, <1>3, <2>1 DEF StoreInv, RowInv
<1>6. OpenInv(rows, queue)' /\ CloseInv(rows, queue)'
  BY <1>1 DEF OpenInv, CloseInv
<1>7. RecoverInv(rows, queue)'
  BY <1>1, <1>2, <1>3 DEF RecoverInv
<1>8. FollowInv(rows)'
  BY <1>2 DEF StoreInv, FollowInv
<1>9. TrackerInv(rows, queue)'
  <2>1. \A m \in Missions : ~StaysOpen(rows', queue', m)
    <3>1. 1 \in 1 .. Len(queue') /\ Recovers(queue', 1)
          /\ \A i \in 1 .. Len(queue'), m \in Missions : ~Opens(queue', i, m)
      BY <1>1
    <3> QED
      BY <3>1 DEF StaysOpen
  <2> QED
    BY <1>2, <2>1 DEF TrackerInv, StaysOpen, IsOpen
<1> QED
  BY <1>5, <1>6, <1>7, <1>8, <1>9 DEF StoreInv

-------------------------------------------------------------------------------
(* The invariant *)

\* A flight is one of the records of Flights, and a mark's frame leaves it one.
LEMMA FlightIsFlight ==
  ASSUME TypeOK, NEW d \in Devices, Active(d)
  PROVE  /\ flights[d] \in Flights
         /\ \A mode \in Modes :
              LET f == Mark(flights[d], mode)
              IN  /\ f \in Flights /\ f # NoFlight
                  /\ f.id = flights[d].id /\ f.startedAt = flights[d].startedAt /\ f.last = now
                  /\ f.standbySince \in {flights[d].standbySince, 0, now}
                  /\ f.disconnectedSince \in {flights[d].disconnectedSince, 0, now}
<1>1. flights[d] \in Flights /\ now \in Nat \ {0}
  BY DEF TypeOK, Active
<1>2. ASSUME NEW mode \in Modes, NEW f, f = Mark(flights[d], mode)
      PROVE  /\ f \in Flights
             /\ f.id = flights[d].id /\ f.startedAt = flights[d].startedAt /\ f.last = now
             /\ f.standbySince \in {flights[d].standbySince, 0, now}
             /\ f.disconnectedSince \in {flights[d].disconnectedSince, 0, now}
  BY <1>1, <1>2 DEF Mark, Since, Flights
<1>3. \A f \in Flights : f # NoFlight
  <2>1. \A f \in Flights : f.id # 0
    BY MissionsAreNumbers DEF Flights
  <2>2. NoFlight.id = 0
    BY DEF NoFlight
  <2> QED
    BY <2>1, <2>2
<1> QED
  BY <1>1, <1>2, <1>3

\* What a write leaves is a table.
LEMMA AppliedIsTable ==
  ASSUME TypeOK, StoreInv(rows, queue), queue # <<>>
  PROVE  Applied(rows, Head(queue)) \in Tables /\ Tail(queue) \in Seq(Writes)
  BY EffectKeeps, TailShifts DEF TypeOK

\* The end of a mission is a write.
LEMMA EndTypes ==
  ASSUME TypeOK, NEW d \in Devices, Active(d), NEW at \in Nat \ {0}, NEW reason \in Reasons,
         End(d, at, reason), phase # "down", UNCHANGED <<now, phase, run, rows, faults>>
  PROVE  TypeOK'
<1>1. flights[d].id \in Missions
  BY FlightIsFlight DEF Flights
<1>2. Close(flights[d], at, reason) \in Writes
  BY <1>1 DEF Close, Writes
<1>3. queue' \in Seq(Writes)
  BY <1>2, AppendShifts DEF End, Enqueued, TypeOK
<1>4. flights' \in [Devices -> Flights \cup {NoFlight}]
  BY DEF End, TypeOK
<1> QED
  BY <1>3, <1>4 DEF End, TypeOK

\* The marks of the other flights are untouched when a mission ends.
LEMMA EndFlights ==
  ASSUME TypeOK, FlightInv, phase # "down", NEW d \in Devices, NEW at, NEW reason,
         End(d, at, reason), UNCHANGED <<now, phase>>
  PROVE  FlightInv'
<1>1. ~Active(d)' /\ \A e \in Devices : e # d => flights'[e] = flights[e]
  BY DEF End, TypeOK, Active
<1>2. \A e \in Devices : Active(e)' => Active(e) /\ flights'[e] = flights[e]
  BY <1>1 DEF Active
<1>3. UNCHANGED <<started, airborne>>
  BY DEF End
<1> QED
  BY <1>2, <1>3 DEF FlightInv

\* The initial states satisfy the inductive invariant.
LEMMA InitHolds == Init => IInv
<1> SUFFICES ASSUME Init PROVE IInv
  OBVIOUS
<1> USE DEF Init
<1>1. TypeOK
  <2>1. <<Recover>> \in Seq(Writes)
    BY DEF Writes
  <2>2. started \in 0 .. MaxMissions
    BY BoundsAssumption
  <2> QED
    BY <2>1, <2>2 DEF TypeOK, Tables
<1>2. \A d \in Devices : ~Active(d)
  BY DEF Active
<1>3. FlightInv
  BY <1>2 DEF FlightInv
<1>4. \A m \in Missions : rows[m] = NoRow
  OBVIOUS
<1>5. /\ \A i \in 1 .. Len(queue), m \in Missions : ~Opens(queue, i, m) /\ ~Ends(queue, i, m)
      /\ \A i \in 1 .. Len(queue) : i = 1
  BY DEF Opens, Ends, Recover
<1>6. RowInv(rows) /\ FollowInv(rows)
  BY <1>4 DEF RowInv, FollowInv
<1>7. OpenInv(rows, queue) /\ CloseInv(rows, queue) /\ RecoverInv(rows, queue)
  BY <1>4, <1>5 DEF OpenInv, CloseInv, RecoverInv
<1>8. TrackerInv(rows, queue)
  BY <1>2, <1>4, <1>5 DEF TrackerInv, StaysOpen, IsOpen
<1> QED
  BY <1>1, <1>3, <1>6, <1>7, <1>8 DEF IInv, StoreInv

\* A frame of an aircraft without a mission begins one.
LEMMA BeginStep ==
  ASSUME IInv, phase # "down", NEW d \in Devices, Begin(d),
         UNCHANGED <<now, phase, run, rows, faults>>
  PROVE  IInv'
<1> USE DEF IInv
<1>id. PICK n : n = started' /\ n = started + 1
  BY DEF Begin
<1>f. PICK f : /\ f = [id |-> n, startedAt |-> now, last |-> now, standbySince |-> 0,
                       disconnectedSince |-> 0]
               /\ flights' = [flights EXCEPT ![d] = f]
               /\ queue' = Append(queue, Open(f, d))
               /\ airborne' = [airborne EXCEPT ![n] = now]
  BY <1>id DEF Begin, Enqueued
<1>1. n \in Missions /\ n \in 0 .. MaxMissions /\ started \in Nat /\ now \in Nat \ {0}
  BY <1>id, BoundsAssumption DEF Begin, TypeOK, Missions
<1>2. f \in Flights
  BY <1>f, <1>1 DEF Flights
<1>3. Open(f, d) \in Writes
  <2>1. Open(f, d) = [op |-> "open", id |-> n, device |-> d, at |-> now]
    BY <1>f DEF Open
  <2> QED
    BY <1>1, <2>1 DEF Writes
<1>4. TypeOK'
  <2>1. queue' \in Seq(Writes)
    BY <1>f, <1>3, AppendShifts DEF TypeOK
  <2>2. flights' \in [Devices -> Flights \cup {NoFlight}]
    BY <1>f, <1>2 DEF TypeOK
  <2>3. airborne' \in [Missions -> Nat]
    BY <1>f, <1>1 DEF TypeOK
  <2> QED
    BY <1>id, <1>1, <2>1, <2>2, <2>3 DEF TypeOK
<1>5. FlightInv'
  <2>1. flights'[d] = f /\ \A e \in Devices : e # d => flights'[e] = flights[e]
    BY <1>f DEF TypeOK
  <2>2. \A e \in Devices : e # d /\ Active(e)' => Active(e) /\ flights'[e] = flights[e]
    BY <2>1 DEF Active
  <2>3. \A e \in Devices : Active(e) =>
          /\ flights[e].id \in Missions /\ flights[e].id \in Nat /\ flights[e].id # n
          /\ flights[e].id <= started'
    <3> SUFFICES ASSUME NEW e \in Devices, Active(e)
                 PROVE  /\ flights[e].id \in Missions /\ flights[e].id \in Nat
                        /\ flights[e].id # n /\ flights[e].id <= started'
      OBVIOUS
    <3>1. flights[e].id \in Missions /\ flights[e].id \in Nat
      BY FlightIsFlight, MissionsAreNumbers DEF Flights
    <3>2. flights[e].id <= started
      BY DEF FlightInv
    <3> QED
      BY <1>id, <1>1, <3>1, <3>2
  <2>4. airborne'[n] = now /\ \A m \in Missions : m # n => airborne'[m] = airborne[m]
    BY <1>f, <1>1 DEF TypeOK
  <2>5. /\ f.id = n /\ f.startedAt = now /\ f.last = now
        /\ f.standbySince = 0 /\ f.disconnectedSince = 0
    BY <1>f
  <2>6. ASSUME NEW e \in Devices, Active(e)', NEW g, g = flights'[e]
        PROVE  /\ g.id <= started'
               /\ g.startedAt <= now /\ g.last <= now
               /\ airborne'[g.id] <= now
               /\ g.standbySince # 0 => airborne'[g.id] <= g.standbySince /\ g.standbySince <= now
               /\ g.disconnectedSince # 0 =>
                    airborne'[g.id] <= g.disconnectedSince /\ g.disconnectedSince <= now
    <3>1. CASE e = d
      <4>1. g = f /\ n <= started' /\ now <= now
        BY <1>id, <1>1, <2>1, <2>6, <3>1
      <4> QED
        BY <2>4, <2>5, <4>1
    <3>2. CASE e # d
      <4>1. Active(e) /\ g = flights[e]
        BY <2>2, <2>6, <3>2
      <4>2. airborne'[g.id] = airborne[g.id]
        BY <2>3, <2>4, <4>1
      <4> QED
        BY <2>3, <4>1, <4>2 DEF FlightInv
    <3> QED
      BY <3>1, <3>2
  <2>7. \A e, g \in Devices : Active(e)' /\ Active(g)' /\ flights'[e].id = flights'[g].id => e = g
    BY <2>1, <2>2, <2>3, <2>5 DEF FlightInv
  <2> QED
    BY <2>6, <2>7 DEF FlightInv
<1> QED
  BY <1>4, <1>5, BeginKeeps

\* A frame of an aircraft with a mission ends it or moves its marks.
LEMMA TrackStep ==
  ASSUME IInv, phase # "down", NEW d \in Devices, NEW mode \in Modes, Track(d, mode),
         UNCHANGED <<now, phase, run, rows, faults>>
  PROVE  IInv'
<1> USE DEF IInv
<1>1. PICK f : f = Mark(flights[d], mode)
  OBVIOUS
<1>2. /\ Active(d) /\ f \in Flights /\ f # NoFlight
      /\ f.id = flights[d].id /\ f.startedAt = flights[d].startedAt /\ f.last = now
  BY <1>1, FlightIsFlight DEF Track
<1>3. /\ f.id \in Missions /\ now \in Nat \ {0} /\ airborne[f.id] \in Nat
      /\ f.standbySince \in Nat /\ f.disconnectedSince \in Nat
      /\ f.startedAt <= now /\ f.id <= started /\ airborne[f.id] <= now
      /\ flights[d].standbySince # 0 =>
           airborne[f.id] <= flights[d].standbySince /\ flights[d].standbySince <= now
      /\ flights[d].disconnectedSince # 0 =>
           airborne[f.id] <= flights[d].disconnectedSince /\ flights[d].disconnectedSince <= now
  BY <1>2 DEF Flights, TypeOK, FlightInv
\* The frame's own mark, and those it leaves, are no earlier than the last flight.
<1>4. /\ f.standbySince # 0 => airborne[f.id] <= f.standbySince /\ f.standbySince <= now
      /\ f.disconnectedSince # 0 =>
           airborne[f.id] <= f.disconnectedSince /\ f.disconnectedSince <= now
  <2>1. /\ f.standbySince \in {flights[d].standbySince, 0, now}
        /\ f.disconnectedSince \in {flights[d].disconnectedSince, 0, now}
    BY <1>1, <1>2, FlightIsFlight
  <2> QED
    BY <1>3, <2>1
<1>5. CASE End(d, f.standbySince, "standby") /\ f.standbySince # 0
  <2>1. /\ f.standbySince \in Nat \ {0} /\ "standby" \in Reasons
        /\ f.standbySince <= now /\ airborne[flights[d].id] <= f.standbySince
    BY <1>2, <1>3, <1>4, <1>5 DEF Reasons
  <2>2. TypeOK'
    BY <1>2, <1>5, <2>1, EndTypes
  <2>3. FlightInv'
    BY <1>5, EndFlights
  <2> QED
    BY <1>2, <1>5, <2>1, <2>2, <2>3, EndKeeps
<1>6. CASE End(d, f.disconnectedSince, "device_disconnected") /\ f.disconnectedSince # 0
  <2>1. /\ f.disconnectedSince \in Nat \ {0} /\ "device_disconnected" \in Reasons
        /\ f.disconnectedSince <= now /\ airborne[flights[d].id] <= f.disconnectedSince
    BY <1>2, <1>3, <1>4, <1>6 DEF Reasons
  <2>2. TypeOK'
    BY <1>2, <1>6, <2>1, EndTypes
  <2>3. FlightInv'
    BY <1>6, EndFlights
  <2> QED
    BY <1>2, <1>6, <2>1, <2>2, <2>3, EndKeeps
<1>7. CASE /\ flights' = [flights EXCEPT ![d] = f]
           /\ airborne' = IF mode = "flight" THEN [airborne EXCEPT ![f.id] = now] ELSE airborne
           /\ UNCHANGED <<started, queue>>
  <2>1. flights'[d] = f /\ \A e \in Devices : e # d => flights'[e] = flights[e]
    BY <1>7 DEF TypeOK
  <2>2. /\ \A e \in Devices : Active(e)' <=> Active(e)
        /\ \A e \in Devices : flights'[e].id = flights[e].id
    BY <1>2, <2>1 DEF Active
  <2>3. TypeOK'
    <3>1. flights' \in [Devices -> Flights \cup {NoFlight}]
      BY <1>2, <1>7 DEF TypeOK
    <3>2. airborne' \in [Missions -> Nat]
      BY <1>3, <1>7 DEF TypeOK
    <3> QED
      BY <1>7, <3>1, <3>2 DEF TypeOK
  <2>4. /\ \A m \in Missions : m # f.id => airborne'[m] = airborne[m]
        /\ airborne'[f.id] = IF mode = "flight" THEN now ELSE airborne[f.id]
    BY <1>3, <1>7 DEF TypeOK
  <2>5. StaysOpen(rows, queue, f.id)
    BY <1>2, <1>3 DEF StoreInv, TrackerInv
  <2>6. now <= now'
    BY <1>3
  <2>7. StoreInv(rows, queue)'
    BY <1>7, <2>2, <2>3, <2>4, <2>5, <2>6, Carries DEF TypeOK
  <2>8. mode = "flight" => f.standbySince = 0 /\ f.disconnectedSince = 0
    BY <1>1, <1>2, FlightIsFlight DEF Mark, Flights
  <2>9. FlightInv'
    <3>1. \A e \in Devices : Active(e) => flights[e].id \in Missions
      BY FlightIsFlight DEF Flights
    <3>2. ASSUME NEW e \in Devices, Active(e)', NEW g, g = flights'[e]
          PROVE  /\ g.id <= started
                 /\ g.startedAt <= now /\ g.last <= now
                 /\ airborne'[g.id] <= now
                 /\ g.standbySince # 0 => airborne'[g.id] <= g.standbySince /\ g.standbySince <= now
                 /\ g.disconnectedSince # 0 =>
                      airborne'[g.id] <= g.disconnectedSince /\ g.disconnectedSince <= now
      <4>1. CASE e = d
        <5>1. g = f /\ now <= now
          BY <1>3, <2>1, <3>2, <4>1
        <5> QED
          BY <1>2, <1>3, <1>4, <2>4, <2>8, <5>1
      <4>2. CASE e # d
        <5>1. Active(e) /\ g = flights[e]
          BY <2>1, <2>2, <3>2, <4>2
        <5>2. g.id # f.id
          BY <1>2, <4>2, <5>1 DEF FlightInv
        <5>3. airborne'[g.id] = airborne[g.id]
          BY <2>4, <3>1, <5>1, <5>2
        <5> QED
          BY <5>1, <5>3 DEF FlightInv
      <4> QED
        BY <4>1, <4>2
    <3>3. \A e, g \in Devices : Active(e)' /\ Active(g)' /\ flights'[e].id = flights'[g].id => e = g
      BY <2>2 DEF FlightInv
    <3> QED
      BY <1>7, <3>2, <3>3 DEF FlightInv
  <2> QED
    BY <2>3, <2>7, <2>9
<1> QED
  BY <1>1, <1>5, <1>6, <1>7 DEF Track, Expired

\* The sweep ends a mission at the moment its telemetry timed out.
LEMMA SweepStep ==
  ASSUME IInv, NEW d \in Devices, Sweep(d)
  PROVE  IInv'
<1> USE DEF IInv
<1> DEFINE at == flights[d].last + Timeout
<1>1. Active(d) /\ phase # "down" /\ flights[d].last \in Nat \ {0} /\ Timeout \in Nat /\ now \in Nat
  BY FlightIsFlight, DurationsAssumption DEF Sweep, Flights, TypeOK
<1>2. at \in Nat \ {0} /\ at <= now
  BY <1>1 DEF Sweep, Silent
<1>3. /\ "telemetry_timeout" \in Reasons
      /\ "telemetry_timeout" \notin {"standby", "device_disconnected"}
  BY DEF Reasons
<1>4. End(d, at, "telemetry_timeout") /\ UNCHANGED <<now, phase, run, rows, faults>>
  BY DEF Sweep
<1> HIDE DEF at
<1>5. TypeOK'
  BY <1>1, <1>2, <1>3, <1>4, EndTypes
<1>6. FlightInv'
  BY <1>1, <1>4, EndFlights
<1> QED
  BY <1>1, <1>2, <1>3, <1>4, <1>5, <1>6, EndKeeps

\* The flights and what is known of them do not change.
LEMMA FlightsStay ==
  ASSUME FlightInv, TypeOK, now \in Nat, now' \in Nat, now <= now',
         UNCHANGED <<flights, started, airborne>>, phase' # "down" => phase # "down"
  PROVE  FlightInv'
<1>1. CASE phase' = "down"
  BY <1>1 DEF FlightInv
<1>2. CASE phase' # "down"
  <2>1. ASSUME NEW d \in Devices, Active(d), NEW f, f = flights[d]
        PROVE  /\ f.id <= started
               /\ f.startedAt <= now' /\ f.last <= now'
               /\ airborne[f.id] <= now'
               /\ f.standbySince # 0 => airborne[f.id] <= f.standbySince /\ f.standbySince <= now'
               /\ f.disconnectedSince # 0 =>
                    airborne[f.id] <= f.disconnectedSince /\ f.disconnectedSince <= now'
    <3>1. f \in Flights
      BY <2>1, FlightIsFlight
    <3>2. /\ f.startedAt \in Nat /\ f.last \in Nat /\ f.standbySince \in Nat
          /\ f.disconnectedSince \in Nat /\ airborne[f.id] \in Nat
      BY <3>1 DEF Flights, TypeOK
    <3>3. /\ f.id <= started
          /\ f.startedAt <= now /\ f.last <= now
          /\ airborne[f.id] <= now
          /\ f.standbySince # 0 => airborne[f.id] <= f.standbySince /\ f.standbySince <= now
          /\ f.disconnectedSince # 0 =>
               airborne[f.id] <= f.disconnectedSince /\ f.disconnectedSince <= now
      BY <1>2, <2>1 DEF FlightInv
    <3> QED
      BY <3>2, <3>3
  <2>2. \A d \in Devices : Active(d)' <=> Active(d)
    BY DEF Active
  <2>3. \A d, e \in Devices : Active(d) /\ Active(e) /\ flights[d].id = flights[e].id => d = e
    BY <1>2 DEF FlightInv
  <2> QED
    BY <2>1, <2>2, <2>3 DEF FlightInv
<1> QED
  BY <1>1, <1>2

\* The database executes the first write and acknowledges it.
LEMMA WrittenStep ==
  ASSUME IInv, Written
  PROVE  IInv'
<1> USE DEF IInv
<1>1. /\ queue # <<>> /\ rows' = Applied(rows, Head(queue)) /\ queue' = Tail(queue)
      /\ UNCHANGED <<now, phase, run, flights, started, faults, airborne>>
  BY DEF Written
<1>2. rows' \in Tables /\ queue' \in Seq(Writes)
  BY <1>1, AppliedIsTable
<1>3. TypeOK'
  BY <1>1, <1>2 DEF TypeOK
<1>4. StoreInv(rows', queue) /\ Done(rows', queue)
  BY <1>1, EffectKeeps
<1>5. StoreInv(rows', queue')
  BY <1>1, <1>2, <1>4, PopKeeps DEF TypeOK
<1>6. /\ now <= now' /\ now \in Nat
      /\ \A d \in Devices : /\ Active(d)' <=> Active(d)
                            /\ flights'[d].id = flights[d].id
  BY <1>1 DEF TypeOK, Active
<1>7. StoreInv(rows, queue)'
  BY <1>1, <1>2, <1>3, <1>5, <1>6, Carries
<1>8. FlightInv'
  BY <1>1, <1>6, FlightsStay
<1> QED
  BY <1>3, <1>7, <1>8

\* A write fails, having taken effect or not, and is repeated or given up.
LEMMA WriteFailsStep ==
  ASSUME IInv, NEW effect \in BOOLEAN, WriteFails(effect)
  PROVE  IInv'
<1> USE DEF IInv
<1>1. /\ queue # <<>> /\ queue \in Seq(Writes)
      /\ rows' = Applied(rows, Head(queue)) \/ rows' = rows
      /\ UNCHANGED <<now, run, flights, started, airborne>>
      /\ (phase = "stopping" /\ phase' = "down" /\ queue' = <<>>) \/ UNCHANGED <<phase, queue>>
  BY DEF WriteFails, TypeOK
<1>2. rows' \in Tables
  BY <1>1, AppliedIsTable DEF TypeOK
<1>3. TypeOK'
  <2>1. faults' \in Nat
    BY DEF WriteFails, TypeOK
  <2>2. queue' \in Seq(Writes)
    <3>1. <<>> \in Seq(Writes)
      OBVIOUS
    <3>2. queue' = <<>> \/ queue' = queue
      BY <1>1
    <3> QED
      BY <1>1, <3>1, <3>2
  <2>3. phase' \in {"booting", "up", "closing", "stopping", "down"} /\ (phase' = "down" => queue' = <<>>)
    BY <1>1 DEF TypeOK
  <2> QED
    BY <1>1, <1>2, <2>1, <2>2, <2>3 DEF TypeOK
<1>4. StoreInv(rows', queue)
  BY <1>1, EffectKeeps
<1>5. now <= now' /\ now \in Nat /\ (phase' # "down" => phase # "down")
  BY <1>1 DEF TypeOK
<1>6. StoreInv(rows, queue)'
  <2>1. CASE phase' = "down" /\ queue' = <<>>
    BY <1>1, <1>2, <1>4, <2>1, StopKeeps
  <2>2. CASE UNCHANGED <<phase, queue>>
    <3>1. \A d \in Devices : /\ Active(d)' <=> Active(d)
                             /\ flights'[d].id = flights[d].id
      BY <1>1 DEF Active
    <3> QED
      BY <1>1, <1>2, <1>3, <1>4, <1>5, <2>2, <3>1, Carries
  <2> QED
    BY <1>1, <2>1, <2>2
<1>7. FlightInv'
  BY <1>1, <1>5, FlightsStay
<1> QED
  BY <1>3, <1>6, <1>7

\* The service moves on, or the clock does.
LEMMA PhaseStep ==
  ASSUME IInv, StartIngest \/ Shutdown \/ StopIngest \/ Tick
  PROVE  IInv'
<1> USE DEF IInv
<1>1. UNCHANGED <<run, flights, started, queue, rows, faults, airborne>>
  BY DEF StartIngest, Shutdown, StopIngest, Tick
<1>2. /\ now \in Nat \ {0} /\ now' \in Nat \ {0} /\ now <= now'
      /\ phase' # "down" => phase # "down"
      /\ phase' \in {"booting", "up", "closing", "stopping", "down"}
      /\ phase' = "down" => phase = "down"
  BY DEF StartIngest, Shutdown, StopIngest, Tick, TypeOK
<1>3. TypeOK'
  BY <1>1, <1>2 DEF TypeOK
<1>4. FlightInv'
  BY <1>1, <1>2, FlightsStay
<1>5. \A d \in Devices : /\ Active(d)' <=> Active(d)
                         /\ flights'[d].id = flights[d].id
  BY <1>1 DEF Active
<1>6. StoreInv(rows, queue)'
  BY <1>1, <1>2, <1>3, <1>5, Carries DEF TypeOK
<1> QED
  BY <1>3, <1>4, <1>6

\* The service exits with an empty queue or dies with whatever is queued.
LEMMA DownStep ==
  ASSUME IInv, Exit \/ Crash
  PROVE  IInv'
<1> USE DEF IInv
<1>1. /\ phase' = "down" /\ queue' = <<>>
      /\ UNCHANGED <<now, run, flights, started, rows, faults, airborne>>
  BY DEF Exit, Crash
<1>2. TypeOK'
  BY <1>1 DEF TypeOK
<1>3. StoreInv(rows, queue)'
  BY <1>1, StopKeeps DEF TypeOK
<1>4. FlightInv'
  BY <1>1 DEF FlightInv
<1> QED
  BY <1>2, <1>3, <1>4

\* The server starts.
LEMMA BootStep ==
  ASSUME IInv, Boot
  PROVE  IInv'
<1> USE DEF IInv
<1>1. TypeOK'
  BY DEF Boot, FirstWrites, TypeOK, Writes
<1>2. FlightInv'
  BY DEF Boot, FlightInv, Active
<1> QED
  BY <1>1, <1>2, BootKeeps

\* Every step keeps the inductive invariant.
LEMMA StepHolds == IInv /\ [Next]_vars => IInv'
<1> SUFFICES ASSUME IInv, [Next]_vars PROVE IInv'
  OBVIOUS
<1>1. ASSUME NEW d \in Devices, NEW mode \in Modes, Observe(d, mode) PROVE IInv'
  BY <1>1, BeginStep, TrackStep DEF Observe
<1>2. ASSUME NEW d \in Devices, Sweep(d) PROVE IInv'
  BY <1>2, SweepStep
<1>3. CASE Database
  BY <1>3, WrittenStep, WriteFailsStep DEF Database
<1>4. CASE Service
  BY <1>4, PhaseStep, DownStep, BootStep DEF Service
<1>5. CASE Tick
  BY <1>5, PhaseStep
<1>6. CASE UNCHANGED vars
  <2>1. now <= now' /\ now \in Nat
    BY <1>6 DEF vars, IInv, TypeOK
  <2>2. TypeOK'
    BY <1>6 DEF vars, IInv, TypeOK
  <2>3. FlightInv'
    BY <1>6, <2>1, FlightsStay DEF vars, IInv
  <2>4. \A d \in Devices : /\ Active(d)' <=> Active(d)
                           /\ flights'[d].id = flights[d].id
    BY <1>6 DEF vars, Active
  <2>5. StoreInv(rows, queue)'
    BY <1>6, <2>1, <2>2, <2>4, Carries DEF vars, IInv, TypeOK
  <2> QED
    BY <2>2, <2>3, <2>5 DEF IInv
<1> QED
  BY <1>1, <1>2, <1>3, <1>4, <1>5, <1>6 DEF Next, Tracker

-------------------------------------------------------------------------------
(* The theorems *)

\* The invariant holds throughout, of every number of devices, missions, runs and faults.
THEOREM Invariant == Spec => []IInv
  BY InitHolds, StepHolds, PTL DEF Spec

\* One recorded mission of an aircraft is over before the next one of it begins
\* (mission-session.ts, mission-store.ts).
THEOREM OneMissionAtATime == Spec => []MissionsFollow
<1>1. IInv => MissionsFollow
  BY RowsAreRows DEF IInv, StoreInv, FollowInv, MissionsFollow, Exists, TypeOK
<1> QED
  BY <1>1, Invariant, PTL

\* The recovery of a restarted service closes no mission of its own run, although it may
\* be retried while they begin.
THEOREM RecoveryIsOfEarlierRuns == Spec => []RecoverySparesThisRun
<1>1. IInv => RecoverySparesThisRun
  BY DEF IInv, StoreInv, RowInv, RecoverySparesThisRun, Exists
<1> QED
  BY <1>1, Invariant, PTL

\* When everything queued is written, the open rows are those of the tracker's missions,
\* whatever was executed twice on the way.
THEOREM HistoryIsTheTrackers == Spec => []HistoryAgrees
<1>1. ASSUME IInv, NEW m \in Missions PROVE EndsOpen(m) <=> StaysOpen(rows, queue, m)
  <2>1. \A i \in 1 .. Len(queue) : ~Closes(queue[i], m) <=> ~Recovers(queue, i) /\ ~Ends(queue, i, m)
    BY DEF Closes, Recovers, Ends
  <2>2. \A i \in 1 .. Len(queue) : \A j : j \in i + 1 .. Len(queue) <=> j \in 1 .. Len(queue) /\ i < j
    BY <1>1, TailShifts DEF IInv, TypeOK
  <2>3. ASSUME NEW i \in 1 .. Len(queue)
        PROVE  (\A j \in i + 1 .. Len(queue) : ~Closes(queue[j], m)) <=>
               \A j \in 1 .. Len(queue) : i < j => ~Recovers(queue, j) /\ ~Ends(queue, j, m)
    BY <2>1, <2>2
  <2>4. (\A i \in 1 .. Len(queue) : ~Closes(queue[i], m)) <=>
        \A i \in 1 .. Len(queue) : ~Recovers(queue, i) /\ ~Ends(queue, i, m)
    BY <2>1
  <2> QED
    BY <2>3, <2>4 DEF EndsOpen, StaysOpen, Exists, Opens
<1>2. IInv => HistoryAgrees
  BY <1>1 DEF IInv, StoreInv, TrackerInv, HistoryAgrees
<1> QED
  BY <1>2, Invariant, PTL

\* The end that a standby or disconnected frame confirms is no earlier than the last frame
\* in flight, and its close is not overtaken by one.
THEOREM EndsAfterTheLastFlight == Spec => []NotAirborneAfterEnd
<1>1. IInv => NotAirborneAfterEnd
  BY DEF IInv, StoreInv, RowInv, NotAirborneAfterEnd, Exists
<1> QED
  BY <1>1, Invariant, PTL

===============================================================================
