--------------------------- MODULE DrcSessionProofs ---------------------------
(***************************************************************************)
(* DrcSession's dead-man, heartbeat, closed sessions and neutral frame,    *)
(* for every set of methods, every number of closing calls, sessions and   *)
(* queued frames and every pair of thresholds.                             *)
(***************************************************************************)
EXTENDS DrcSession, TLAPS

\* A neutral frame in the queue belongs to a call that waits for it, one each.
FrameOwned(f, calls) ==
  /\ f.kind = "input" => f.method \in Methods
  /\ f.kind = "neutral" =>
       /\ f.call \in Calls
       /\ calls[f.call] # Idle
       /\ calls[f.call].phase = "neutral"
       /\ calls[f.call].snap.sid = f.snap.sid

OwnedOnce(q) ==
  \A i, j \in 1 .. Len(q) :
    q[i].kind = "neutral" /\ q[j].kind = "neutral" /\ q[i].call = q[j].call => i = j

NeutralInv ==
  /\ \A i \in 1 .. Len(queue) : FrameOwned(queue[i], closer)
  /\ OwnedOnce(queue)

\* Every snapshot was taken of a session that had been requested.
SnapshotInv ==
  /\ rec.sid \in 0 .. sessions
  /\ rec.state = "idle" <=> rec.sid = 0
  /\ \A i \in 1 .. Len(queue) : queue[i].snap.sid \in 1 .. sessions
  /\ \A i \in 1 .. Len(queue) : queue[i].kind = "input" =>
       queue[i].snap.state \in AcceptsInput /\ queue[i].snap.conn
  /\ \A c \in Calls : closer[c] # Idle => closer[c].snap.sid \in 1 .. sessions
  /\ neutralised \subseteq 1 .. sessions

\* What a suspended call read of the stored session still bounds its state.
ProgressInv ==
  ~staleWrite =>
    /\ rec.sid = sessions
    /\ \A i \in 1 .. Len(queue) :
         queue[i].kind = "input" /\ queue[i].snap.sid = rec.sid =>
           /\ rec.state \in AcceptsInput \cup {"draining", "closed"}
           /\ rec.state = "drc_mode_active" => queue[i].snap.state = "drc_mode_active"
    /\ \A c \in Calls : closer[c] # Idle /\ closer[c].snap.sid = rec.sid =>
         rec.state \in {"draining", "closed"}
    /\ \A c, d \in Calls :
         closer[c] # Idle /\ closer[d] # Idle /\ closer[c].snap.sid = closer[d].snap.sid
           => c = d
    /\ \A s \in neutralised : s < rec.sid \/ rec.state \in {"draining", "closed"}

HeartbeatInv ==
  ~staleWrite /\ heartbeat =>
     /\ rec.state \in AcceptsInput \cup {"draining"}
     /\ rec.state = "draining" =>
          \E c \in Calls : /\ closer[c] # Idle
                           /\ closer[c].phase = "neutral"
                           /\ closer[c].snap.sid = rec.sid

IInv == TypeOK /\ NeutralInv /\ SnapshotInv /\ ProgressInv /\ DeadManArmed /\ HeartbeatInv

USE DEF Records, Frames, Closers, States, InControl, AcceptsInput, Entered, SetUp,
        Watched, history

-------------------------------------------------------------------------------

\* The initial states satisfy the inductive invariant.
LEMMA InitIInv == Init => IInv
<1> SUFFICES ASSUME Init PROVE IInv
  OBVIOUS
<1> USE DeadlineAssumption, BoundsAssumption, MethodsAssumption DEF Init, NoRecord
<1>1. TypeOK
  <2>1. rec \in Records /\ timer \in BOOLEAN /\ heartbeat \in BOOLEAN
    OBVIOUS
  <2>2. queue \in Seq(Frames)
    OBVIOUS
  <2>3. closer \in [Calls -> Closers \cup {Idle}]
    OBVIOUS
  <2>4. silence \in 0 .. CloseAfter /\ sessions \in 0 .. MaxSessions
    OBVIOUS
  <2>5. lastFrame \in [1 .. MaxSessions -> Methods \cup {"none"}]
    OBVIOUS
  <2> QED  BY <2>1, <2>2, <2>3, <2>4, <2>5 DEF TypeOK
<1>2. NeutralInv
  BY DEF NeutralInv, FrameOwned, OwnedOnce
<1>3. SnapshotInv
  BY DEF SnapshotInv
<1>4. ProgressInv
  BY DEF ProgressInv
<1>5. DeadManArmed /\ HeartbeatInv
  BY DEF DeadManArmed, HeartbeatInv
<1> QED  BY <1>1, <1>2, <1>3, <1>4, <1>5 DEF IInv

\* A request makes a session that nothing refers to yet.
LEMMA RequestIInv == IInv /\ Request => IInv'
<1> SUFFICES ASSUME IInv, Request PROVE IInv'
  OBVIOUS
<1> USE DeadlineAssumption, BoundsAssumption, MethodsAssumption DEF Request, IInv
<1>1. TypeOK'
  BY DEF TypeOK
<1>2. NeutralInv'
  BY DEF TypeOK, NeutralInv, FrameOwned, OwnedOnce
<1>3. SnapshotInv'
  <2>1. sessions \in Nat /\ rec'.sid = sessions + 1 /\ rec'.state = "requesting"
    BY DEF TypeOK
  <2>2. \A n \in 1 .. sessions : n \in 1 .. sessions'
    BY <2>1
  <2>3. rec'.sid \in 0 .. sessions' /\ rec'.sid # 0 /\ rec'.state # "idle"
    BY <2>1
  <2>4. \A i \in 1 .. Len(queue) :
         /\ queue[i].snap.sid \in 1 .. sessions'
         /\ queue[i].kind = "input" =>
              queue[i].snap.state \in AcceptsInput /\ queue[i].snap.conn
    BY <2>2 DEF SnapshotInv
  <2>5. \A c \in Calls : closer[c] # Idle => closer[c].snap.sid \in 1 .. sessions'
    BY <2>2 DEF SnapshotInv
  <2>6. neutralised \subseteq 1 .. sessions'
    BY <2>2 DEF SnapshotInv
  <2> QED  BY <2>3, <2>4, <2>5, <2>6 DEF SnapshotInv
<1>4. ProgressInv'
  <2>1. sessions \in Nat /\ rec'.sid = sessions + 1
    BY DEF TypeOK
  <2>2. \A n \in 1 .. sessions : n < rec'.sid
    BY <2>1
  <2>3. \A i \in 1 .. Len(queue) : queue[i].snap.sid # rec'.sid
    BY <2>1, <2>2 DEF SnapshotInv
  <2>4. \A c \in Calls : closer[c] # Idle => closer[c].snap.sid # rec'.sid
    BY <2>1, <2>2 DEF SnapshotInv
  <2>5. \A s \in neutralised : s < rec'.sid
    BY <2>2 DEF SnapshotInv
  <2> QED  BY <2>1, <2>3, <2>4, <2>5 DEF ProgressInv
<1>5. DeadManArmed' /\ HeartbeatInv'
  BY DEF TypeOK, DeadManArmed, HeartbeatInv
<1> QED  BY <1>1, <1>2, <1>3, <1>4, <1>5

\* A transition of the state machine changes the state alone.
LEMMA TransitionIInv ==
  ASSUME NEW from \in States, NEW to \in States, IInv, Transition(from, to),
         from # "idle", to # "idle", to \notin InControl,
         from \notin AcceptsInput \cup {"draining", "closed"}
  PROVE  IInv'
<1> USE DeadlineAssumption, BoundsAssumption, MethodsAssumption
        DEF Transition, Expected, IInv
<1>1. TypeOK'
  BY DEF TypeOK
<1>2. NeutralInv'
  BY DEF TypeOK, NeutralInv, FrameOwned, OwnedOnce
<1>3. SnapshotInv'
  BY DEF TypeOK, SnapshotInv
<1>4. ProgressInv'
  BY DEF TypeOK, SnapshotInv, ProgressInv
<1>5. DeadManArmed' /\ HeartbeatInv'
  BY DEF TypeOK, DeadManArmed, HeartbeatInv
<1> QED  BY <1>1, <1>2, <1>3, <1>4, <1>5


\* The transport is marked connected.
LEMMA SetTransportConnectedIInv ==
  ASSUME NEW connected \in BOOLEAN, IInv, SetTransportConnected(connected)
  PROVE  IInv'
<1> USE DeadlineAssumption, BoundsAssumption, MethodsAssumption
        DEF SetTransportConnected, Recovers, IInv
<1>1. TypeOK'
  BY DEF TypeOK
<1>2. NeutralInv'
  BY DEF TypeOK, NeutralInv, FrameOwned, OwnedOnce
<1>3. SnapshotInv'
  BY DEF TypeOK, SnapshotInv
<1>4. ProgressInv'
  BY DEF TypeOK, SnapshotInv, ProgressInv
<1>5. DeadManArmed' /\ HeartbeatInv'
  BY DEF TypeOK, DeadManArmed, HeartbeatInv
<1> QED  BY <1>1, <1>2, <1>3, <1>4, <1>5

\* The transport is marked lost, and the timers stop.
LEMMA MarkTransportLostIInv ==
  ASSUME  IInv, MarkTransportLost
  PROVE  IInv'
<1> USE DeadlineAssumption, BoundsAssumption, MethodsAssumption DEF MarkTransportLost, IInv
<1>1. TypeOK'
  BY DEF TypeOK
<1>2. NeutralInv'
  BY DEF TypeOK, NeutralInv, FrameOwned, OwnedOnce
<1>3. SnapshotInv'
  BY DEF TypeOK, SnapshotInv
<1>4. ProgressInv'
  BY DEF TypeOK, SnapshotInv, ProgressInv
<1>5. DeadManArmed' /\ HeartbeatInv'
  BY DEF TypeOK, DeadManArmed, HeartbeatInv
<1> QED  BY <1>1, <1>2, <1>3, <1>4, <1>5

\* The heartbeat starts with the session.
LEMMA ActivateIInv ==
  ASSUME  IInv, Activate
  PROVE  IInv'
<1> USE DeadlineAssumption, BoundsAssumption, MethodsAssumption DEF Activate, IInv
<1>1. TypeOK'
  BY DEF TypeOK
<1>2. NeutralInv'
  BY DEF TypeOK, NeutralInv, FrameOwned, OwnedOnce
<1>3. SnapshotInv'
  BY DEF TypeOK, SnapshotInv
<1>4. ProgressInv'
  BY DEF TypeOK, SnapshotInv, ProgressInv
<1>5. DeadManArmed' /\ HeartbeatInv'
  BY DEF TypeOK, DeadManArmed, HeartbeatInv
<1> QED  BY <1>1, <1>2, <1>3, <1>4, <1>5

\* A heartbeat that cannot be published stops its timer.
LEMMA HeartbeatFailsIInv ==
  ASSUME  IInv, HeartbeatFails
  PROVE  IInv'
<1> USE DeadlineAssumption, BoundsAssumption, MethodsAssumption DEF HeartbeatFails, IInv
<1>1. TypeOK'
  BY DEF TypeOK
<1>2. NeutralInv'
  BY DEF TypeOK, NeutralInv, FrameOwned, OwnedOnce
<1>3. SnapshotInv'
  BY DEF TypeOK, SnapshotInv
<1>4. ProgressInv'
  BY DEF TypeOK, SnapshotInv, ProgressInv
<1>5. DeadManArmed' /\ HeartbeatInv'
  BY DEF TypeOK, DeadManArmed, HeartbeatInv
<1> QED  BY <1>1, <1>2, <1>3, <1>4, <1>5

\* A forced close ends the session and its timers.
LEMMA ForceCloseIInv ==
  ASSUME  IInv, ForceClose
  PROVE  IInv'
<1> USE DeadlineAssumption, BoundsAssumption, MethodsAssumption DEF ForceClose, ForceClosed, IInv
<1>1. TypeOK'
  BY DEF TypeOK
<1>2. NeutralInv'
  BY DEF TypeOK, NeutralInv, FrameOwned, OwnedOnce
<1>3. SnapshotInv'
  BY DEF TypeOK, SnapshotInv
<1>4. ProgressInv'
  BY DEF TypeOK, SnapshotInv, ProgressInv
<1>5. DeadManArmed' /\ HeartbeatInv'
  BY DEF TypeOK, DeadManArmed, HeartbeatInv
<1> QED  BY <1>1, <1>2, <1>3, <1>4, <1>5

\* The last input grows older.
LEMMA ElapseIInv ==
  ASSUME  IInv, Elapse
  PROVE  IInv'
<1> USE DeadlineAssumption, BoundsAssumption, MethodsAssumption DEF Elapse, IInv
<1>1. TypeOK'
  BY DEF TypeOK
<1>2. NeutralInv'
  BY DEF TypeOK, NeutralInv, FrameOwned, OwnedOnce
<1>3. SnapshotInv'
  BY DEF TypeOK, SnapshotInv
<1>4. ProgressInv'
  BY DEF TypeOK, SnapshotInv, ProgressInv
<1>5. DeadManArmed' /\ HeartbeatInv'
  BY DEF TypeOK, DeadManArmed, HeartbeatInv
<1> QED  BY <1>1, <1>2, <1>3, <1>4, <1>5

\* The guards change beside the session.
LEMMA GuardsChangeIInv ==
  ASSUME  IInv, GuardsChange
  PROVE  IInv'
<1> USE DeadlineAssumption, BoundsAssumption, MethodsAssumption DEF GuardsChange, IInv
<1>1. TypeOK'
  BY DEF TypeOK
<1>2. NeutralInv'
  BY DEF TypeOK, NeutralInv, FrameOwned, OwnedOnce
<1>3. SnapshotInv'
  BY DEF TypeOK, SnapshotInv
<1>4. ProgressInv'
  BY DEF TypeOK, SnapshotInv, ProgressInv
<1>5. DeadManArmed' /\ HeartbeatInv'
  BY DEF TypeOK, DeadManArmed, HeartbeatInv
<1> QED  BY <1>1, <1>2, <1>3, <1>4, <1>5


\* What is left of a queue without its head.
LEMMA TailFacts ==
  ASSUME NEW S, NEW q \in Seq(S), q # <<>>
  PROVE  /\ Tail(q) \in Seq(S)
         /\ Head(q) \in S /\ Head(q) = q[1] /\ 1 \in 1 .. Len(q)
         /\ \A i \in 1 .. Len(Tail(q)) :
              i + 1 \in 1 .. Len(q) /\ Tail(q)[i] = q[i + 1]
  OBVIOUS

\* Dropping the head leaves the calls of the neutral frames distinct.
LEMMA TailUnique ==
  ASSUME NEW S, NEW q \in Seq(S), q # <<>>, OwnedOnce(q)
  PROVE  OwnedOnce(Tail(q))
<1> SUFFICES ASSUME NEW i \in 1 .. Len(Tail(q)), NEW j \in 1 .. Len(Tail(q)),
                    Tail(q)[i].kind = "neutral", Tail(q)[j].kind = "neutral",
                    Tail(q)[i].call = Tail(q)[j].call
             PROVE  i = j
  BY DEF OwnedOnce
<1>1. /\ i + 1 \in 1 .. Len(q) /\ Tail(q)[i] = q[i + 1]
      /\ j + 1 \in 1 .. Len(q) /\ Tail(q)[j] = q[j + 1]
  BY TailFacts
<1>2. i + 1 = j + 1
  BY <1>1 DEF OwnedOnce
<1> QED  BY <1>2

\* What a queue is with one more frame.
LEMMA AppendFacts ==
  ASSUME NEW S, NEW q \in Seq(S), NEW e \in S
  PROVE  /\ Append(q, e) \in Seq(S)
         /\ Len(Append(q, e)) = Len(q) + 1
         /\ \A i \in 1 .. Len(q) + 1 :
              Append(q, e)[i] = IF i = Len(q) + 1 THEN e ELSE q[i]
         /\ \A i \in 1 .. Len(q) + 1 : i # Len(q) + 1 => i \in 1 .. Len(q)
  OBVIOUS

\* A frame is queued with the session as it is then.
LEMMA SendIInv ==
  ASSUME NEW m \in Methods, IInv, Send(m)
  PROVE  IInv'
<1> DEFINE f == [kind |-> "input", snap |-> rec, method |-> m, call |-> "none"]
<1> USE DeadlineAssumption, BoundsAssumption, MethodsAssumption DEF IInv
<1>1. queue \in Seq(Frames) /\ f \in Frames
  BY DEF Send, TypeOK
<1>2. queue' = Append(queue, f)
  BY DEF Send
<1>3. /\ queue' \in Seq(Frames) /\ Len(queue') = Len(queue) + 1
      /\ \A i \in 1 .. Len(queue') : queue'[i] = IF i = Len(queue) + 1 THEN f ELSE queue[i]
      /\ \A i \in 1 .. Len(queue') : i # Len(queue) + 1 => i \in 1 .. Len(queue)
  BY <1>1, <1>2, AppendFacts
<1> HIDE DEF f
<1>4. f.kind = "input" /\ f.snap = rec /\ f.method = m
  BY DEF f
<1>5. TypeOK'
  BY <1>3 DEF Send, TypeOK
<1>6. NeutralInv'
  <2>1. \A i \in 1 .. Len(queue') : queue'[i].kind = "neutral" =>
          i \in 1 .. Len(queue) /\ queue'[i] = queue[i]
    BY <1>3, <1>4
  <2>2. closer' = closer
    BY DEF Send
  <2>3. \A i \in 1 .. Len(queue') : FrameOwned(queue'[i], closer')
    BY <1>3, <1>4, <2>2 DEF NeutralInv, FrameOwned
  <2>4. OwnedOnce(queue')
    BY <2>1 DEF NeutralInv, OwnedOnce
  <2> QED  BY <2>3, <2>4 DEF NeutralInv, OwnedOnce
<1>7. SnapshotInv'
  BY <1>3, <1>4 DEF Send, SnapshotInv, TypeOK, AllGuards
<1>8. ProgressInv'
  BY <1>3, <1>4 DEF Send, ProgressInv, TypeOK, AllGuards
<1>9. DeadManArmed' /\ HeartbeatInv'
  BY DEF Send, DeadManArmed, HeartbeatInv
<1> QED  BY <1>5, <1>6, <1>7, <1>8, <1>9

\* A frame that is rejected leaves the session alone.
LEMMA InputRejectedIInv ==
  ASSUME IInv, InputRejected
  PROVE  IInv'
<1> USE DEF IInv
<1>1. queue \in Seq(Frames) /\ queue # <<>> /\ queue' = Tail(queue)
  BY DEF Dequeued, InputRejected, TypeOK
<1>2. /\ queue' \in Seq(Frames)
      /\ \A i \in 1 .. Len(queue') :
           i + 1 \in 1 .. Len(queue) /\ queue'[i] = queue[i + 1]
  BY <1>1, TailFacts
<1>3. TypeOK'
  BY <1>2 DEF InputRejected, TypeOK
<1>4. NeutralInv'
  <2>1. closer' = closer
    BY DEF InputRejected
  <2>2. \A i \in 1 .. Len(queue') : FrameOwned(queue'[i], closer')
    BY <1>2, <2>1 DEF NeutralInv, FrameOwned
  <2>3. OwnedOnce(queue')
    BY <1>1, TailUnique DEF NeutralInv
  <2> QED  BY <2>2, <2>3 DEF NeutralInv, OwnedOnce
<1>5. SnapshotInv'
  BY <1>2 DEF InputRejected, SnapshotInv
<1>6. ProgressInv'
  BY <1>2 DEF InputRejected, ProgressInv
<1>7. DeadManArmed' /\ HeartbeatInv'
  BY DEF InputRejected, DeadManArmed, HeartbeatInv
<1> QED  BY <1>3, <1>4, <1>5, <1>6, <1>7

\* A frame that is published stores the session it was queued with.
LEMMA InputPublishedIInv ==
  ASSUME IInv, InputPublished
  PROVE  IInv'
<1> DEFINE f == Head(queue)
<1> USE DEF IInv
<1>1. queue \in Seq(Frames) /\ queue # <<>> /\ queue' = Tail(queue)
  BY DEF Dequeued, InputPublished, TypeOK
<1>2. /\ queue' \in Seq(Frames)
      /\ \A i \in 1 .. Len(queue') :
           i + 1 \in 1 .. Len(queue) /\ queue'[i] = queue[i + 1]
      /\ f = queue[1] /\ 1 \in 1 .. Len(queue)
  BY <1>1, TailFacts
<1>3. /\ f.kind = "input"
      /\ rec' = [f.snap EXCEPT !.state = "controlling", !.method = f.method]
      /\ timer' = (timer \/ f.snap.state = "drc_mode_active")
      /\ staleWrite' = (staleWrite \/ ~SendIsCurrent(f.snap))
      /\ lastFrame' = [lastFrame EXCEPT ![f.snap.sid] = f.method]
      /\ crossed' = crossed \cup CrossedBy(f)
      /\ silence' = 0
      /\ UNCHANGED <<heartbeat, closer, guards, sessions, neutralised>>
  BY DEF InputPublished
<1>4. f \in Frames
  BY <1>1, TailFacts
<1>5. /\ f.snap.sid \in 1 .. sessions /\ f.snap.conn /\ f.snap.state \in AcceptsInput
      /\ f.method \in Methods
  BY <1>2, <1>3 DEF SnapshotInv, NeutralInv, FrameOwned
<1> HIDE DEF f
<1>6. /\ rec' \in Records /\ rec'.sid = f.snap.sid /\ rec'.state = "controlling"
      /\ rec'.conn = f.snap.conn
  BY <1>3, <1>4, <1>5
<1>7. ASSUME ~staleWrite'
      PROVE  /\ ~staleWrite /\ rec.sid = rec'.sid /\ rec.state \in AcceptsInput /\ rec.conn
             /\ rec.state = "drc_mode_active" => f.snap.state = "drc_mode_active"
  BY <1>2, <1>3, <1>6, <1>7 DEF SendIsCurrent, ProgressInv
<1>8. TypeOK'
  <2>1. f.snap.sid \in 1 .. MaxSessions
    BY <1>5, BoundsAssumption DEF TypeOK
  <2>2. lastFrame' \in [1 .. MaxSessions -> Methods \cup {"none"}]
    BY <1>3, <1>5, <2>1 DEF TypeOK
  <2>3. silence' \in 0 .. CloseAfter
    BY <1>3, DeadlineAssumption
  <2>4. timer' \in BOOLEAN /\ staleWrite' \in BOOLEAN
    BY <1>3 DEF TypeOK, SendIsCurrent
  <2>5. CrossedBy(f) \subseteq Calls
    <3>1. DOMAIN queue = 1 .. Len(queue)
      BY <1>1
    <3>2. \A h \in Range(queue) : h.kind = "neutral" => h.call \in Calls
      BY <3>1 DEF Range, NeutralInv, FrameOwned
    <3> QED  BY <3>2 DEF CrossedBy
  <2>6. crossed' \subseteq Calls
    BY <1>3, <2>5 DEF TypeOK
  <2> QED  BY <1>2, <1>3, <1>6, <2>2, <2>3, <2>4, <2>6 DEF TypeOK
<1>9. NeutralInv'
  <2>1. \A i \in 1 .. Len(queue') : FrameOwned(queue'[i], closer')
    BY <1>2, <1>3 DEF NeutralInv, FrameOwned
  <2>2. OwnedOnce(queue')
    BY <1>1, TailUnique DEF NeutralInv
  <2> QED  BY <2>1, <2>2 DEF NeutralInv, OwnedOnce
<1>10. SnapshotInv'
  <2>1. sessions \in Nat
    BY BoundsAssumption DEF TypeOK
  <2>2. rec'.sid \in 0 .. sessions /\ rec'.sid # 0 /\ rec'.state # "idle"
    BY <1>5, <1>6, <2>1
  <2> QED  BY <1>2, <1>3, <2>2 DEF SnapshotInv
<1>11. ProgressInv'
  BY <1>2, <1>3, <1>6, <1>7 DEF ProgressInv
<1>12. DeadManArmed'
  BY <1>3, <1>7 DEF DeadManArmed, TypeOK
<1>13. HeartbeatInv'
  BY <1>3, <1>6 DEF HeartbeatInv
<1> QED  BY <1>8, <1>9, <1>10, <1>11, <1>12, <1>13


\* The neutral frame of a close has been sent or rejected.
LEMMA NeutralSettlesIInv ==
  ASSUME NEW published \in BOOLEAN, IInv, NeutralSettles(published)
  PROVE  IInv'
<1> DEFINE f == Head(queue)
           c == f.call
<1> USE DEF IInv
<1>1. queue \in Seq(Frames) /\ queue # <<>> /\ queue' = Tail(queue)
  BY DEF Dequeued, NeutralSettles, TypeOK
<1>2. /\ queue' \in Seq(Frames)
      /\ \A i \in 1 .. Len(queue') :
           i + 1 \in 1 .. Len(queue) /\ queue'[i] = queue[i + 1]
      /\ f = queue[1] /\ 1 \in 1 .. Len(queue)
  BY <1>1, TailFacts
<1>3. /\ f.kind = "neutral"
      /\ closer' = [closer EXCEPT ![c].phase = "exit", ![c].failed = ~published]
      /\ neutralised' = IF published THEN neutralised \cup {f.snap.sid} ELSE neutralised
      /\ crossed' = crossed \ {c}
      /\ heartbeat' = FALSE
      /\ UNCHANGED <<rec, timer, silence, guards, sessions, staleWrite, lastFrame>>
  BY DEF NeutralSettles
<1>4. /\ c \in Calls /\ closer[c] # Idle /\ closer[c].snap.sid = f.snap.sid
      /\ f.snap.sid \in 1 .. sessions
  BY <1>2, <1>3 DEF NeutralInv, FrameOwned, SnapshotInv
<1>5. \A i \in 1 .. Len(queue') : queue'[i].kind = "neutral" => queue'[i].call # c
  <2> SUFFICES ASSUME NEW i \in 1 .. Len(queue'), queue'[i].kind = "neutral",
                      queue'[i].call = c
               PROVE  FALSE
    OBVIOUS
  <2>1. i + 1 \in 1 .. Len(queue) /\ queue[i + 1].kind = "neutral" /\ queue[i + 1].call = c
    BY <1>2
  <2>2. i + 1 = 1
    BY <1>2, <1>3, <2>1 DEF NeutralInv, OwnedOnce
  <2> QED  BY <2>2
<1> HIDE DEF f, c
<1>6. closer[c] \in Closers
  BY <1>4 DEF TypeOK
<1>7. /\ closer' \in [Calls -> Closers \cup {Idle}]
      /\ closer'[c].snap = closer[c].snap /\ closer'[c] # Idle
      /\ \A d \in Calls : d # c => closer'[d] = closer[d]
  BY <1>3, <1>4, <1>6 DEF TypeOK, Idle
<1>14. ASSUME NEW d \in Calls, closer'[d] # Idle
       PROVE  closer[d] # Idle /\ closer'[d].snap.sid = closer[d].snap.sid
  BY <1>4, <1>7, <1>14
<1>8. TypeOK'
  <2>1. f.snap.sid \in 1 .. MaxSessions
    BY <1>4, BoundsAssumption DEF TypeOK
  <2>2. neutralised' \subseteq 1 .. MaxSessions
    BY <1>3, <2>1 DEF TypeOK
  <2> QED  BY <1>2, <1>3, <1>7, <2>2 DEF TypeOK
<1>9. NeutralInv'
  <2>1. \A i \in 1 .. Len(queue') : FrameOwned(queue'[i], closer')
    BY <1>2, <1>3, <1>5, <1>7 DEF NeutralInv, FrameOwned
  <2>2. OwnedOnce(queue')
    BY <1>1, TailUnique DEF NeutralInv
  <2> QED  BY <2>1, <2>2 DEF NeutralInv, OwnedOnce
<1>10. SnapshotInv'
  <2>1. \A d \in Calls : closer'[d] # Idle => closer'[d].snap.sid \in 1 .. sessions'
    BY <1>3, <1>14 DEF SnapshotInv
  <2>2. neutralised' \subseteq 1 .. sessions'
    BY <1>3, <1>4 DEF SnapshotInv
  <2>3. rec' = rec /\ sessions' = sessions
    BY <1>3
  <2> QED  BY <1>2, <2>1, <2>2, <2>3 DEF SnapshotInv
<1>11. ProgressInv'
  <2> SUFFICES ASSUME ~staleWrite' PROVE ProgressInv'
    BY DEF ProgressInv
  <2>1. /\ ~staleWrite /\ rec.sid = sessions
        /\ rec.sid = f.snap.sid => rec.state \in {"draining", "closed"}
    BY <1>3, <1>4 DEF ProgressInv
  <2>2. rec' = rec /\ sessions' = sessions
    BY <1>3
  <2>5. f.snap.sid < rec.sid \/ rec.state \in {"draining", "closed"}
    BY <1>4, <2>1, BoundsAssumption DEF TypeOK
  <2>3. \A s \in neutralised' : s < rec.sid \/ rec.state \in {"draining", "closed"}
    BY <1>3, <2>1, <2>5 DEF ProgressInv
  <2>4. \A d, e \in Calls :
          closer'[d] # Idle /\ closer'[e] # Idle /\ closer'[d].snap.sid = closer'[e].snap.sid
            => d = e
    BY <1>14, <2>1 DEF ProgressInv
  <2> QED  BY <1>2, <1>14, <2>1, <2>2, <2>3, <2>4 DEF ProgressInv
<1>12. DeadManArmed' /\ HeartbeatInv'
  BY <1>3 DEF DeadManArmed, HeartbeatInv, TypeOK
<1> QED  BY <1>8, <1>9, <1>10, <1>11, <1>12

\* The reply to the exit command closes what had been drained.
LEMMA ExitSettlesIInv ==
  ASSUME NEW c \in Calls, NEW ok \in BOOLEAN, IInv, ExitSettles(c, ok)
  PROVE  IInv'
<1> DEFINE call == closer[c]
           forced == call.by = "tick" /\ (call.failed \/ ~ok)
<1> USE DEF IInv
<1>1. /\ call # Idle /\ call.phase = "exit"
      /\ rec' = [call.snap EXCEPT !.state = "closed", !.conn = FALSE]
      /\ timer' = (timer /\ ~forced /\ call.by # "shutdown")
      /\ heartbeat' = (heartbeat /\ ~forced)
      /\ staleWrite' = (staleWrite \/ rec.sid # call.snap.sid
                                  \/ rec.state \notin {"draining", "closed"})
      /\ closer' = [closer EXCEPT ![c] = Idle]
      /\ UNCHANGED <<queue, silence, guards, sessions, lastFrame, neutralised, crossed>>
  BY DEF ExitSettles, ExitAwaited
<1>2. call \in Closers /\ call.snap.sid \in 1 .. sessions
  BY <1>1 DEF TypeOK, SnapshotInv
<1> HIDE DEF call
<1>3. /\ rec' \in Records /\ rec'.sid = call.snap.sid /\ rec'.state = "closed"
      /\ rec'.conn = FALSE
  BY <1>1, <1>2
<1>4. /\ closer' \in [Calls -> Closers \cup {Idle}] /\ closer'[c] = Idle
      /\ \A d \in Calls : d # c => closer'[d] = closer[d]
  BY <1>1 DEF TypeOK
<1>5. TypeOK'
  <2>1. timer' \in BOOLEAN /\ heartbeat' \in BOOLEAN /\ staleWrite' \in BOOLEAN
    BY <1>1 DEF TypeOK
  <2> QED  BY <1>1, <1>3, <1>4, <2>1 DEF TypeOK
<1>6. NeutralInv'
  <2>1. \A i \in 1 .. Len(queue) : queue[i].kind = "neutral" => queue[i].call # c
    BY <1>1 DEF NeutralInv, FrameOwned, call
  <2>2. \A i \in 1 .. Len(queue') : FrameOwned(queue'[i], closer')
    BY <1>1, <1>4, <2>1 DEF NeutralInv, FrameOwned
  <2> QED  BY <1>1, <2>2 DEF NeutralInv, OwnedOnce
<1>7. SnapshotInv'
  <2>1. rec'.sid \in 0 .. sessions' /\ rec'.sid # 0 /\ rec'.state # "idle"
    BY <1>1, <1>2, <1>3, BoundsAssumption DEF TypeOK
  <2>2. \A d \in Calls : closer'[d] # Idle => closer'[d] = closer[d] /\ closer[d] # Idle
    BY <1>4
  <2> QED  BY <1>1, <2>1, <2>2 DEF SnapshotInv
<1>8. ASSUME ~staleWrite'
      PROVE  ~staleWrite /\ rec.sid = rec'.sid /\ rec.state \in {"draining", "closed"}
  BY <1>1, <1>3, <1>8
<1>9. ProgressInv'
  <2>1. \A d \in Calls : closer'[d] # Idle => closer'[d] = closer[d] /\ closer[d] # Idle
    BY <1>4
  <2> QED  BY <1>1, <1>3, <1>8, <2>1 DEF ProgressInv
<1>10. DeadManArmed'
  BY <1>3 DEF DeadManArmed
<1>11. HeartbeatInv'
  <2> SUFFICES ASSUME ~staleWrite', heartbeat' PROVE FALSE
    BY DEF HeartbeatInv
  <2>1. ~staleWrite /\ heartbeat /\ rec.sid = call.snap.sid
    BY <1>1, <1>3, <1>8
  <2>2. PICK d \in Calls : closer[d] # Idle /\ closer[d].phase = "neutral"
                           /\ closer[d].snap.sid = rec.sid
    BY <1>8, <2>1 DEF HeartbeatInv
  <2>3. d = c
    BY <1>1, <2>1, <2>2 DEF ProgressInv, call
  <2> QED  BY <1>1, <2>2, <2>3 DEF call
<1> QED  BY <1>5, <1>6, <1>7, <1>9, <1>10, <1>11


\* A close drains an entered session.
LEMMA StartDrainingIInv ==
  ASSUME NEW c \in Calls, NEW by \in {"caller", "tick", "shutdown"}, IInv,
         rec.state \in Entered, StartDraining(c, by),
         UNCHANGED <<silence, guards, sessions, history>>
  PROVE  IInv'
<1> DEFINE neutral == rec.conn /\ rec.state \in InControl
           f == [kind |-> "neutral", snap |-> rec', method |-> rec.method, call |-> c]
           call == [phase |-> IF neutral THEN "neutral" ELSE "exit", snap |-> rec',
                    by |-> by, failed |-> FALSE]
<1> USE DEF IInv
<1>1. /\ closer[c] = Idle /\ timer' = FALSE /\ heartbeat' = (heartbeat /\ neutral)
      /\ rec' = [rec EXCEPT !.state = "draining"]
      /\ closer' = [closer EXCEPT ![c] = call]
      /\ queue' = IF neutral THEN Append(queue, f) ELSE queue
  BY DEF StartDraining, Suspend
<1>2. /\ rec' \in Records /\ rec'.state = "draining" /\ rec'.sid = rec.sid
      /\ rec.sid \in 1 .. sessions /\ neutral \in BOOLEAN
  <2>1. rec \in Records /\ sessions \in Nat
    BY BoundsAssumption DEF TypeOK
  <2>2. rec.sid \in 0 .. sessions /\ rec.sid # 0
    BY DEF SnapshotInv
  <2>3. rec.sid \in 1 .. sessions
    BY <2>1, <2>2
  <2> QED  BY <1>1, <2>1, <2>3
<1>3. queue \in Seq(Frames) /\ f \in Frames /\ call \in Closers
  <2>1. queue \in Seq(Frames) /\ rec.method \in Methods \cup {"none"}
    BY DEF TypeOK
  <2>2. f \in Frames
    BY <1>2, <2>1
  <2>3. call \in Closers
    BY <1>2
  <2> QED  BY <2>1, <2>2, <2>3
<1>4. /\ f.kind = "neutral" /\ f.call = c /\ f.snap.sid = rec.sid
      /\ call.snap.sid = rec.sid /\ call # Idle
      /\ neutral => call.phase = "neutral"
  BY <1>2 DEF Idle
<1> HIDE DEF f, call, neutral
<1>5. /\ closer' \in [Calls -> Closers \cup {Idle}] /\ closer'[c] = call
      /\ \A d \in Calls : d # c => closer'[d] = closer[d]
  BY <1>1, <1>3 DEF TypeOK
<1>6. \A i \in 1 .. Len(queue) :
        /\ queue[i].kind = "neutral" => queue[i].call # c
        /\ FrameOwned(queue[i], closer')
  BY <1>1, <1>5 DEF NeutralInv, FrameOwned
<1>7. /\ queue' \in Seq(Frames)
      /\ \A i \in 1 .. Len(queue') :
           \/ i \in 1 .. Len(queue) /\ queue'[i] = queue[i]
           \/ neutral /\ i = Len(queue) + 1 /\ queue'[i] = f
  <2>1. CASE neutral
    BY <1>1, <1>3, <2>1, AppendFacts
  <2>2. CASE ~neutral
    BY <1>1, <1>3, <2>2
  <2> QED  BY <2>1, <2>2
<1>8. TypeOK'
  BY <1>1, <1>2, <1>5, <1>7 DEF TypeOK
<1>9. NeutralInv'
  <2>1. \A i \in 1 .. Len(queue') : FrameOwned(queue'[i], closer')
    BY <1>4, <1>5, <1>6, <1>7 DEF FrameOwned
  <2>2. OwnedOnce(queue')
    <3> SUFFICES ASSUME NEW i \in 1 .. Len(queue'), NEW j \in 1 .. Len(queue'),
                        queue'[i].kind = "neutral", queue'[j].kind = "neutral",
                        queue'[i].call = queue'[j].call
                 PROVE  i = j
      BY DEF OwnedOnce
    <3>1. CASE /\ i \in 1 .. Len(queue) /\ queue'[i] = queue[i]
               /\ j \in 1 .. Len(queue) /\ queue'[j] = queue[j]
      BY <3>1 DEF NeutralInv, OwnedOnce
    <3>2. CASE queue'[i] = f /\ j \in 1 .. Len(queue) /\ queue'[j] = queue[j]
      BY <1>4, <1>6, <3>2
    <3>3. CASE queue'[j] = f /\ i \in 1 .. Len(queue) /\ queue'[i] = queue[i]
      BY <1>4, <1>6, <3>3
    <3>4. CASE i = Len(queue) + 1 /\ j = Len(queue) + 1
      BY <3>4
    <3> QED  BY <1>7, <3>1, <3>2, <3>3, <3>4
  <2> QED  BY <2>1, <2>2 DEF NeutralInv, OwnedOnce
<1>10. SnapshotInv'
  <2>1. \A d \in Calls : closer'[d] # Idle => closer'[d].snap.sid \in 1 .. sessions'
    <3> SUFFICES ASSUME NEW d \in Calls, closer'[d] # Idle
                 PROVE  closer'[d].snap.sid \in 1 .. sessions
      OBVIOUS
    <3>1. CASE d = c
      BY <1>2, <1>4, <1>5, <3>1
    <3>2. CASE d # c
      BY <1>5, <3>2 DEF SnapshotInv
    <3> QED  BY <3>1, <3>2
  <2>2. \A i \in 1 .. Len(queue') :
          /\ queue'[i].snap.sid \in 1 .. sessions'
          /\ queue'[i].kind = "input" =>
               queue'[i].snap.state \in AcceptsInput /\ queue'[i].snap.conn
    BY <1>2, <1>4, <1>7 DEF SnapshotInv
  <2> QED  BY <1>2, <2>1, <2>2 DEF SnapshotInv
<1>11. ProgressInv'
  <2> SUFFICES ASSUME ~staleWrite' PROVE ProgressInv'
    BY DEF ProgressInv
  <2>1. ~staleWrite /\ rec.sid = sessions
    BY DEF ProgressInv
  <2>2. \A d \in Calls : d # c /\ closer'[d] # Idle => closer'[d].snap.sid # rec.sid
    BY <1>5, <2>1 DEF ProgressInv
  <2>3. \A d, e \in Calls :
          closer'[d] # Idle /\ closer'[e] # Idle /\ closer'[d].snap.sid = closer'[e].snap.sid
            => d = e
    <3> SUFFICES ASSUME NEW d \in Calls, NEW e \in Calls, closer'[d] # Idle,
                        closer'[e] # Idle, closer'[d].snap.sid = closer'[e].snap.sid
                 PROVE  d = e
      OBVIOUS
    <3>1. CASE d # c /\ e # c
      BY <1>5, <2>1, <3>1 DEF ProgressInv
    <3>2. CASE d = c \/ e = c
      BY <1>4, <1>5, <2>2, <3>2
    <3> QED  BY <3>1, <3>2
  <2> QED  BY <1>2, <2>1, <2>3 DEF ProgressInv
<1>12. DeadManArmed'
  BY <1>2 DEF DeadManArmed
<1>13. HeartbeatInv'
  <2> SUFFICES ASSUME heartbeat' PROVE \E d \in Calls : /\ closer'[d] # Idle
                                                        /\ closer'[d].phase = "neutral"
                                                        /\ closer'[d].snap.sid = rec'.sid
    BY <1>2 DEF HeartbeatInv
  <2>1. neutral
    BY <1>1, <1>2 DEF TypeOK
  <2> QED  BY <1>2, <1>4, <1>5, <2>1
<1> QED  BY <1>8, <1>9, <1>10, <1>11, <1>12, <1>13

\* A graceful close drains, forces or finds nothing to do.
LEMMA CloseGracefullyIInv ==
  ASSUME NEW by \in {"caller", "tick", "shutdown"}, IInv, CloseGracefully(by)
  PROVE  IInv'
<1>1. CASE rec.state \in SetUp /\ ForceClosed /\ UNCHANGED <<queue, closer>>
  BY <1>1, ForceCloseIInv DEF CloseGracefully, ForceClose
<1>2. CASE rec.state \in Entered /\ \E c \in Calls : StartDraining(c, by)
  BY <1>2, StartDrainingIInv DEF CloseGracefully
<1> QED  BY <1>1, <1>2 DEF CloseGracefully

\* The watchdog closes a silent session.
LEMMA TickIInv ==
  ASSUME IInv, Tick
  PROVE  IInv'
<1> USE DEF IInv
<1>1. CASE silence >= CloseAfter /\ CloseGracefully("tick")
  BY <1>1, CloseGracefullyIInv
<1>2. CASE /\ rec.state \notin InControl
           /\ timer' = FALSE
           /\ UNCHANGED <<rec, heartbeat, queue, closer, silence, guards, sessions, history>>
  <2>1. TypeOK'
    BY <1>2 DEF TypeOK
  <2>2. NeutralInv' /\ SnapshotInv'
    BY <1>2 DEF NeutralInv, FrameOwned, OwnedOnce, SnapshotInv
  <2>3. ProgressInv' /\ DeadManArmed' /\ HeartbeatInv'
    BY <1>2 DEF ProgressInv, DeadManArmed, HeartbeatInv
  <2> QED  BY <2>1, <2>2, <2>3
<1>3. CASE /\ rec.state = "controlling"
           /\ rec' = [rec EXCEPT !.state = "degraded"]
           /\ UNCHANGED <<timer, heartbeat, queue, closer, silence, guards, sessions,
                         history>>
  <2>1. TypeOK' /\ rec'.sid = rec.sid /\ rec'.state = "degraded" /\ rec'.conn = rec.conn
    BY <1>3 DEF TypeOK
  <2>2. NeutralInv'
    BY <1>3 DEF NeutralInv, FrameOwned, OwnedOnce
  <2>3. SnapshotInv'
    BY <1>3, <2>1 DEF SnapshotInv
  <2>4. ProgressInv'
    BY <1>3, <2>1 DEF ProgressInv
  <2>5. DeadManArmed' /\ HeartbeatInv'
    BY <1>3, <2>1 DEF DeadManArmed, HeartbeatInv
  <2> QED  BY <2>1, <2>2, <2>3, <2>4, <2>5
<1> QED  BY <1>1, <1>2, <1>3 DEF Tick

-------------------------------------------------------------------------------

\* Every step keeps the inductive invariant.
LEMMA NextIInv == IInv /\ [Next]_vars => IInv'
<1> SUFFICES ASSUME IInv, [Next]_vars PROVE IInv'
  OBVIOUS
<1>1. CASE Setup
  <2>1. CASE MarkAuthorized
    BY <2>1, TransitionIInv DEF MarkAuthorized
  <2>2. CASE MarkAuthorityGrabbed
    BY <2>2, TransitionIInv DEF MarkAuthorityGrabbed
  <2>3. CASE MarkDrcModeActive
    BY <2>3, TransitionIInv DEF MarkDrcModeActive
  <2> QED  BY <1>1, <2>1, <2>2, <2>3, RequestIInv, SetTransportConnectedIInv,
              MarkTransportLostIInv, ActivateIInv DEF Setup
<1>2. CASE \E m \in Methods : Send(m)
  BY <1>2, SendIInv
<1>3. CASE FrameSettles
  BY <1>3, InputPublishedIInv, InputRejectedIInv, NeutralSettlesIInv DEF FrameSettles
<1>4. CASE \E c \in Calls : CallSettles(c)
  BY <1>4, ExitSettlesIInv DEF CallSettles
<1>5. CASE HeartbeatFails
  BY <1>5, HeartbeatFailsIInv
<1>6. CASE CloseGracefully("caller")
  BY <1>6, CloseGracefullyIInv
<1>7. CASE ForceClose
  BY <1>7, ForceCloseIInv
<1>8. CASE ReevaluateGuards
  BY <1>8, ForceCloseIInv, CloseGracefullyIInv DEF ReevaluateGuards
<1>9. CASE Shutdown
  BY <1>9, ForceCloseIInv, CloseGracefullyIInv DEF Shutdown
<1>10. CASE Tick
  BY <1>10, TickIInv
<1>11. CASE Elapse
  BY <1>11, ElapseIInv
<1>12. CASE GuardsChange
  BY <1>12, GuardsChangeIInv
<1>13. CASE UNCHANGED vars
  <2> USE <1>13 DEF vars, IInv
  <2>1. TypeOK' /\ NeutralInv'
    BY DEF TypeOK, NeutralInv, FrameOwned, OwnedOnce
  <2>2. SnapshotInv' /\ ProgressInv'
    BY DEF SnapshotInv, ProgressInv
  <2>3. DeadManArmed' /\ HeartbeatInv'
    BY DEF DeadManArmed, HeartbeatInv
  <2> QED  BY <2>1, <2>2, <2>3
<1> QED  BY <1>1, <1>2, <1>3, <1>4, <1>5, <1>6, <1>7, <1>8, <1>9, <1>10, <1>11, <1>12,
            <1>13 DEF Next

\* Every reachable state satisfies the inductive invariant.
THEOREM InductiveInvariant == Spec => []IInv
  BY InitIInv, NextIInv, PTL DEF Spec

\* Every variable of the session manager keeps its type, and every queued neutral
\* frame keeps the call that waits for it.
THEOREM TypeCorrect == Spec => []TypeOK
<1>1. IInv => TypeOK
  BY DEF IInv
<1> QED  BY <1>1, InductiveInvariant, PTL

\* The dead-man watchdog covers every connected session in control until a
\* suspended call overwrites a newer record.
THEOREM DeadManCovers == Spec => []DeadManArmed
<1>1. IInv => DeadManArmed
  BY DEF IInv
<1> QED  BY <1>1, InductiveInvariant, PTL

\* The heartbeat stops with the session, on every path that ends one.
THEOREM HeartbeatStops == Spec => []HeartbeatOnlyInSession
<1>1. IInv => HeartbeatOnlyInSession
  BY DEF IInv, HeartbeatInv, HeartbeatOnlyInSession
<1> QED  BY <1>1, InductiveInvariant, PTL


\* A record's sessionId never goes back and its state never leaves closed.
NeverBack ==
  /\ rec'.sid >= rec.sid
  /\ rec'.sid = rec.sid /\ rec.state = "closed" => rec'.state = "closed"

\* No step reopens a closed session, unless a suspended call overwrites it unread.
LEMMA NextNeverBack == IInv /\ [Next]_vars => (~staleWrite' => NeverBack)
<1> SUFFICES ASSUME IInv, [Next]_vars, ~staleWrite' PROVE NeverBack
  OBVIOUS
<1>1. rec \in Records /\ rec.sid \in Nat /\ sessions \in Nat /\ rec.sid <= sessions
  BY BoundsAssumption DEF IInv, TypeOK, SnapshotInv
<1> USE <1>1 DEF NeverBack
<1>2. CASE Setup
  <2>1. CASE Request
    BY <2>1 DEF Request
  <2>2. CASE MarkAuthorized \/ MarkAuthorityGrabbed \/ MarkDrcModeActive
    BY <2>2 DEF MarkAuthorized, MarkAuthorityGrabbed, MarkDrcModeActive, Transition,
              Expected
  <2>3. CASE (\E connected \in BOOLEAN : SetTransportConnected(connected))
             \/ MarkTransportLost \/ Activate
    BY <2>3 DEF SetTransportConnected, MarkTransportLost, Activate
  <2> QED  BY <1>2, <2>1, <2>2, <2>3 DEF Setup
<1>3. CASE FrameSettles
  <2>1. CASE InputPublished
    <3>1. SendIsCurrent(Head(queue).snap) /\ rec'.sid = Head(queue).snap.sid
      <4>1. Head(queue) \in Frames
        BY <2>1, TailFacts DEF InputPublished, IInv, TypeOK
      <4> QED  BY <2>1, <4>1 DEF InputPublished
    <3> QED  BY <3>1 DEF SendIsCurrent
  <2>2. CASE InputRejected
    BY <2>2 DEF InputRejected
  <2>3. ASSUME NEW published \in BOOLEAN, NeutralSettles(published) PROVE NeverBack
    <3>1. rec' = rec
      BY <2>3 DEF NeutralSettles
    <3> QED  BY <3>1
  <2> QED  BY <1>3, <2>1, <2>2, <2>3 DEF FrameSettles
<1>4. CASE \E c \in Calls : CallSettles(c)
  <2>1. PICK c \in Calls, ok \in BOOLEAN : ExitSettles(c, ok)
    BY <1>4 DEF CallSettles
  <2>2. closer[c].snap \in Records
    BY <2>1 DEF ExitSettles, ExitAwaited, IInv, TypeOK
  <2>3. rec'.sid = closer[c].snap.sid /\ rec'.state = "closed" /\ rec.sid = closer[c].snap.sid
    BY <2>1, <2>2 DEF ExitSettles, ExitAwaited
  <2> QED  BY <2>3
<1>5. CASE ForceClosed
  BY <1>5 DEF ForceClosed
<1>6. ASSUME NEW by \in {"caller", "tick", "shutdown"}, CloseGracefully(by) PROVE NeverBack
  <2>1. CASE rec.state \in SetUp
    <3>1. ForceClosed
      BY <1>6, <2>1 DEF CloseGracefully
    <3> QED  BY <1>5, <3>1
  <2>2. CASE rec.state \in Entered
    <3>1. PICK c \in Calls : StartDraining(c, by)
      BY <1>6, <2>2 DEF CloseGracefully
    <3>2. rec' = [rec EXCEPT !.state = "draining"]
      BY <3>1 DEF StartDraining
    <3> QED  BY <2>2, <3>2
  <2> QED  BY <1>6, <2>1, <2>2 DEF CloseGracefully
<1>7. CASE ForceClose \/ ReevaluateGuards \/ Shutdown \/ CloseGracefully("caller")
  BY <1>5, <1>6, <1>7 DEF ForceClose, ReevaluateGuards, Shutdown
<1>9. CASE Tick
  <2>1. CASE silence >= CloseAfter /\ CloseGracefully("tick")
    BY <1>6, <2>1
  <2>2. CASE rec' = rec
    BY <2>2
  <2>3. CASE rec.state = "controlling" /\ rec' = [rec EXCEPT !.state = "degraded"]
    BY <2>3
  <2> QED  BY <1>9, <2>1, <2>2, <2>3 DEF Tick
<1>8. CASE \/ \E m \in Methods : Send(m)
           \/ HeartbeatFails \/ Elapse \/ GuardsChange \/ UNCHANGED vars
  <2>1. rec' = rec
    BY <1>8 DEF Send, HeartbeatFails, Elapse, GuardsChange, vars
  <2> QED  BY <2>1
<1> QED  BY <1>2, <1>3, <1>4, <1>7, <1>8, <1>9 DEF Next

\* A closed or replaced session never comes back, whatever the order of calls,
\* until a suspended call overwrites a newer record.
THEOREM ClosedStaysClosed == Spec => NoResurrection
<1>1. IInv /\ [Next]_vars =>
        [ ~staleWrite' => /\ rec'.sid >= rec.sid
                          /\ rec'.sid = rec.sid /\ rec.state = "closed" => rec'.state = "closed"
        ]_vars
  BY NextNeverBack DEF NeverBack
<1> QED  BY <1>1, InductiveInvariant, PTL DEF Spec, NoResurrection

-------------------------------------------------------------------------------
(* The neutral frame is the last frame, and of the same kind. *)

\* The stored method of a session in control is that of its last input frame, even when
\* a suspended call has overwritten a newer record; and so is that of a neutral frame
\* that waits, unless a frame of the other method was still in flight at the close.
MethodInv ==
  /\ rec.state \in InControl => rec.method = lastFrame[rec.sid]
  /\ \A i \in 1 .. Len(queue) : queue[i].kind = "neutral" =>
       queue[i].call \in crossed \/ lastFrame[queue[i].snap.sid] = queue[i].method

\* Nothing is in control and no frame waits at the start.
LEMMA InitMethod == Init => MethodInv
<1> SUFFICES ASSUME Init PROVE MethodInv
  OBVIOUS
<1>1. rec.state = "idle" /\ queue = <<>>
  BY DEF Init, NoRecord
<1> QED  BY <1>1 DEF MethodInv

\* A step that leaves the frames alone and takes no session into control.
SameMethods ==
  /\ rec'.state \in InControl =>
       rec.state \in InControl /\ rec'.sid = rec.sid /\ rec'.method = rec.method
  /\ UNCHANGED <<queue, lastFrame, crossed>>

\* Such a step keeps the methods.
LEMMA SameMethodsKeep == MethodInv /\ SameMethods => MethodInv'
  BY DEF MethodInv, SameMethods

\* An input frame in the queue is no neutral frame.
LEMMA SendMethod ==
  ASSUME NEW m \in Methods, IInv, MethodInv, Send(m)
  PROVE  MethodInv'
<1> DEFINE f == [kind |-> "input", snap |-> rec, method |-> m, call |-> "none"]
<1>1. queue \in Seq(Frames) /\ f \in Frames /\ queue' = Append(queue, f)
  BY DEF Send, IInv, TypeOK
<1>2. \A i \in 1 .. Len(queue') : queue'[i].kind = "neutral" =>
        i \in 1 .. Len(queue) /\ queue'[i] = queue[i]
  <2>1. f.kind = "input"
    OBVIOUS
  <2> QED  BY <1>1, <2>1, AppendFacts
<1>3. UNCHANGED <<rec, lastFrame, crossed>>
  BY DEF Send
<1> QED  BY <1>2, <1>3 DEF MethodInv

\* A published frame is the last one of its session and its method the session's; the
\* neutral frames of the session behind it that are of the other method are crossed.
LEMMA InputPublishedMethod ==
  ASSUME IInv, MethodInv, InputPublished
  PROVE  MethodInv'
<1> DEFINE f == Head(queue)
<1>1. queue \in Seq(Frames) /\ queue # <<>> /\ queue' = Tail(queue)
  BY DEF Dequeued, InputPublished, IInv, TypeOK
<1>2. /\ \A i \in 1 .. Len(queue') :
           i + 1 \in 1 .. Len(queue) /\ queue'[i] = queue[i + 1]
      /\ f = queue[1] /\ 1 \in 1 .. Len(queue) /\ f \in Frames
  BY <1>1, TailFacts
<1>3. /\ f.kind = "input"
      /\ rec' = [f.snap EXCEPT !.state = "controlling", !.method = f.method]
      /\ lastFrame' = [lastFrame EXCEPT ![f.snap.sid] = f.method]
      /\ crossed' = crossed \cup CrossedBy(f)
  BY DEF InputPublished
<1>4. f.snap.sid \in 1 .. sessions
  BY <1>2 DEF IInv, SnapshotInv
<1> HIDE DEF f
<1>5. /\ rec'.sid = f.snap.sid /\ rec'.method = f.method
      /\ f.snap.sid \in 1 .. MaxSessions
      /\ lastFrame'[f.snap.sid] = f.method
      /\ \A s \in 1 .. MaxSessions : s # f.snap.sid => lastFrame'[s] = lastFrame[s]
  BY <1>2, <1>3, <1>4, BoundsAssumption DEF IInv, TypeOK
<1>6. ASSUME NEW i \in 1 .. Len(queue'), queue'[i].kind = "neutral"
      PROVE  queue'[i].call \in crossed' \/ lastFrame'[queue'[i].snap.sid] = queue'[i].method
  <2> DEFINE h == queue[i + 1]
  <2>1. i + 1 \in 1 .. Len(queue) /\ queue'[i] = h
    BY <1>2
  <2>2. h.snap.sid \in 1 .. MaxSessions
    BY <2>1, BoundsAssumption DEF IInv, SnapshotInv, TypeOK
  <2>3. h.kind = "neutral" /\ (h.call \in crossed \/ lastFrame[h.snap.sid] = h.method)
    BY <1>6, <2>1 DEF MethodInv
  <2>4. h \in Range(queue)
    <3>1. DOMAIN queue = 1 .. Len(queue)
      BY <1>1
    <3> QED  BY <2>1, <3>1 DEF Range
  <2> HIDE DEF h
  <2>5. CASE h.snap.sid = f.snap.sid /\ h.method # f.method
    BY <1>3, <2>1, <2>3, <2>4, <2>5 DEF CrossedBy
  <2>6. CASE h.snap.sid = f.snap.sid /\ h.method = f.method
    BY <1>5, <2>1, <2>6
  <2>7. CASE h.snap.sid # f.snap.sid
    BY <1>3, <1>5, <2>1, <2>2, <2>3, <2>7
  <2> QED  BY <2>5, <2>6, <2>7
<1> QED  BY <1>5, <1>6 DEF MethodInv

\* A rejected frame changes no method.
LEMMA InputRejectedMethod ==
  ASSUME IInv, MethodInv, InputRejected
  PROVE  MethodInv'
<1>1. queue \in Seq(Frames) /\ queue # <<>> /\ queue' = Tail(queue)
  BY DEF Dequeued, InputRejected, IInv, TypeOK
<1>2. \A i \in 1 .. Len(queue') : i + 1 \in 1 .. Len(queue) /\ queue'[i] = queue[i + 1]
  BY <1>1, TailFacts
<1>3. UNCHANGED <<rec, lastFrame, crossed>>
  BY DEF InputRejected
<1> QED  BY <1>2, <1>3 DEF MethodInv

\* Nor does a neutral frame that settles: the frames behind it are of other calls.
LEMMA NeutralSettlesMethod ==
  ASSUME NEW published \in BOOLEAN, IInv, MethodInv, NeutralSettles(published)
  PROVE  MethodInv'
<1> DEFINE f == Head(queue)
<1>1. queue \in Seq(Frames) /\ queue # <<>> /\ queue' = Tail(queue)
  BY DEF Dequeued, NeutralSettles, IInv, TypeOK
<1>2. /\ \A i \in 1 .. Len(queue') :
           i + 1 \in 1 .. Len(queue) /\ queue'[i] = queue[i + 1]
      /\ f = queue[1] /\ 1 \in 1 .. Len(queue)
  BY <1>1, TailFacts
<1>3. /\ f.kind = "neutral" /\ crossed' = crossed \ {f.call}
      /\ UNCHANGED <<rec, lastFrame>>
  BY DEF NeutralSettles
<1> HIDE DEF f
<1>4. ASSUME NEW i \in 1 .. Len(queue'), queue'[i].kind = "neutral"
      PROVE  queue'[i].call # f.call
  <2>1. i + 1 \in 1 .. Len(queue) /\ queue'[i] = queue[i + 1] /\ i + 1 # 1
    BY <1>2
  <2> QED  BY <1>2, <1>3, <1>4, <2>1 DEF IInv, NeutralInv, OwnedOnce
<1> QED  BY <1>2, <1>3, <1>4 DEF MethodInv

\* What an exit stores is closed.
LEMMA ExitSettlesMethod ==
  ASSUME NEW c \in Calls, NEW ok \in BOOLEAN, IInv, MethodInv, ExitSettles(c, ok)
  PROVE  MethodInv'
<1> DEFINE call == closer[c]
<1>1. /\ call # Idle
      /\ rec' = [call.snap EXCEPT !.state = "closed", !.conn = FALSE]
      /\ UNCHANGED <<queue, lastFrame, crossed>>
  BY DEF ExitSettles, ExitAwaited
<1>2. call \in Closers
  BY <1>1 DEF IInv, TypeOK
<1>3. SameMethods
  BY <1>1, <1>2 DEF SameMethods
<1> QED  BY <1>3, SameMethodsKeep

\* A close takes the method of the session as it is stored then.
LEMMA StartDrainingMethod ==
  ASSUME NEW c \in Calls, NEW by \in {"caller", "tick", "shutdown"}, IInv, MethodInv,
         StartDraining(c, by), UNCHANGED <<silence, guards, sessions, history>>
  PROVE  MethodInv'
<1> DEFINE neutral == rec.conn /\ rec.state \in InControl
           f == [kind |-> "neutral", snap |-> rec', method |-> rec.method, call |-> c]
<1>1. /\ rec' = [rec EXCEPT !.state = "draining"]
      /\ queue' = IF neutral THEN Append(queue, f) ELSE queue
      /\ UNCHANGED <<lastFrame, crossed>>
  BY DEF StartDraining, Suspend
<1>2. rec' \in Records /\ rec'.sid = rec.sid /\ rec'.state = "draining" /\ queue \in Seq(Frames)
  BY <1>1 DEF IInv, TypeOK
<1>3. f \in Frames /\ f.method = rec.method /\ f.snap.sid = rec.sid
  BY <1>2 DEF IInv, TypeOK
<1>4. neutral => lastFrame[rec.sid] = rec.method
  BY DEF MethodInv
<1> HIDE DEF f, neutral
<1>5. \A i \in 1 .. Len(queue') : \/ i \in 1 .. Len(queue) /\ queue'[i] = queue[i]
                                  \/ neutral /\ queue'[i] = f
  <2>1. CASE neutral
    BY <1>1, <1>2, <1>3, <2>1, AppendFacts
  <2>2. CASE ~neutral
    BY <1>1, <2>2
  <2> QED  BY <2>1, <2>2
<1> QED  BY <1>1, <1>2, <1>3, <1>4, <1>5 DEF MethodInv

\* A graceful close, with or without a drain.
LEMMA CloseGracefullyMethod ==
  ASSUME NEW by \in {"caller", "tick", "shutdown"}, IInv, MethodInv, CloseGracefully(by)
  PROVE  MethodInv'
<1>1. CASE rec.state \in SetUp /\ ForceClosed /\ UNCHANGED <<queue, closer>>
  <2>1. SameMethods
    BY <1>1 DEF CloseGracefully, ForceClosed, SameMethods, IInv, TypeOK
  <2> QED  BY <2>1, SameMethodsKeep
<1>2. CASE rec.state \in Entered /\ \E c \in Calls : StartDraining(c, by)
  BY <1>2, StartDrainingMethod DEF CloseGracefully
<1> QED  BY <1>1, <1>2 DEF CloseGracefully

\* Every step keeps the methods.
LEMMA NextMethod == IInv /\ MethodInv /\ [Next]_vars => MethodInv'
<1> SUFFICES ASSUME IInv, MethodInv, [Next]_vars PROVE MethodInv'
  OBVIOUS
<1>0. rec \in Records
  BY DEF IInv, TypeOK
<1>1. CASE Setup
  <2>1. CASE Request \/ MarkAuthorized \/ MarkAuthorityGrabbed \/ MarkDrcModeActive
    <3>1. SameMethods
      BY <1>0, <2>1 DEF Request, MarkAuthorized, MarkAuthorityGrabbed, MarkDrcModeActive, Transition,
                        SameMethods
    <3> QED  BY <3>1, SameMethodsKeep
  <2>2. CASE (\E connected \in BOOLEAN : SetTransportConnected(connected))
             \/ MarkTransportLost \/ Activate
    <3>1. SameMethods
      BY <1>0, <2>2 DEF SetTransportConnected, MarkTransportLost, Activate, SameMethods
    <3> QED  BY <3>1, SameMethodsKeep
  <2> QED  BY <1>1, <2>1, <2>2 DEF Setup
<1>2. CASE \E m \in Methods : Send(m)
  BY <1>2, SendMethod
<1>3. CASE FrameSettles
  BY <1>3, InputPublishedMethod, InputRejectedMethod, NeutralSettlesMethod DEF FrameSettles
<1>4. CASE \E c \in Calls : CallSettles(c)
  BY <1>4, ExitSettlesMethod DEF CallSettles
<1>5. ASSUME ForceClose PROVE MethodInv'
  <2>1. SameMethods
    BY <1>0, <1>5 DEF ForceClose, ForceClosed, SameMethods
  <2> QED  BY <2>1, SameMethodsKeep
<1>6. CASE ReevaluateGuards \/ Shutdown \/ CloseGracefully("caller")
  BY <1>5, <1>6, CloseGracefullyMethod DEF ReevaluateGuards, Shutdown
<1>7. CASE Tick
  <2>1. CASE silence >= CloseAfter /\ CloseGracefully("tick")
    BY <2>1, CloseGracefullyMethod
  <2>2. CASE SameMethods
    BY <2>2, SameMethodsKeep
  <2> QED  BY <1>0, <1>7, <2>1, <2>2 DEF Tick, SameMethods
<1>8. CASE HeartbeatFails \/ Elapse \/ GuardsChange \/ UNCHANGED vars
  <2>1. SameMethods
    BY <1>8 DEF HeartbeatFails, Elapse, GuardsChange, vars, SameMethods
  <2> QED  BY <2>1, SameMethodsKeep
<1> QED  BY <1>1, <1>2, <1>3, <1>4, <1>5, <1>6, <1>7, <1>8 DEF Next

\* Every reachable state remembers the method of the last frame.
LEMMA MethodsRemembered == Spec => [](IInv /\ MethodInv)
<1>1. Init => IInv /\ MethodInv
  BY InitIInv, InitMethod
<1>2. (IInv /\ MethodInv) /\ [Next]_vars => (IInv /\ MethodInv)'
  BY NextIInv, NextMethod
<1> QED  BY <1>1, <1>2, PTL DEF Spec

\* Only a published input frame is a last frame.
LEMMA LastFramesArePublished ==
  ASSUME IInv, [Next]_vars
  PROVE  lastFrame' = lastFrame \/ InputPublished
<1>1. CASE Setup
  BY <1>1 DEF Setup, Request, MarkAuthorized, MarkAuthorityGrabbed, MarkDrcModeActive, Transition,
              SetTransportConnected, MarkTransportLost, Activate
<1>2. CASE \E m \in Methods : Send(m)
  BY <1>2 DEF Send
<1>3. CASE FrameSettles
  BY <1>3 DEF FrameSettles, InputPublished, InputRejected, NeutralSettles
<1>4. CASE \E c \in Calls : CallSettles(c)
  BY <1>4 DEF CallSettles, ExitSettles
<1>5. CASE ForceClose \/ ReevaluateGuards \/ Shutdown \/ CloseGracefully("caller") \/ Tick
  BY <1>5 DEF ForceClose, ReevaluateGuards, Shutdown, CloseGracefully, Tick
<1>6. CASE HeartbeatFails \/ Elapse \/ GuardsChange \/ UNCHANGED vars
  BY <1>6 DEF HeartbeatFails, Elapse, GuardsChange, vars
<1> QED  BY <1>1, <1>2, <1>3, <1>4, <1>5, <1>6 DEF Next

\* A neutral frame at the head of the queue fits, or was crossed.
LEMMA NeutralFrameFits ==
  ASSUME IInv, MethodInv, NeutralLeaves
  PROVE  LET f == Head(queue) IN lastFrame[f.snap.sid] = f.method \/ f.call \in crossed
<1>1. queue \in Seq(Frames) /\ queue # <<>> /\ Head(queue).kind = "neutral"
  BY DEF NeutralLeaves, IInv, TypeOK
<1>2. Head(queue) = queue[1] /\ 1 \in 1 .. Len(queue)
  BY <1>1, TailFacts
<1> QED  BY <1>1, <1>2 DEF MethodInv

\* What is published after the neutral frame is of another session.
LEMMA NeutralFrameIsLast ==
  ASSUME IInv, [Next]_vars, NEW s \in neutralised, ~staleWrite'
  PROVE  lastFrame'[s] = lastFrame[s]
<1>1. CASE lastFrame' = lastFrame
  BY <1>1
<1>2. CASE InputPublished
  <2> DEFINE f == Head(queue)
  <2>1. /\ staleWrite' = (staleWrite \/ ~SendIsCurrent(f.snap))
        /\ lastFrame' = [lastFrame EXCEPT ![f.snap.sid] = f.method]
    BY <1>2 DEF InputPublished
  <2>2. ~staleWrite /\ rec.sid = f.snap.sid /\ rec.state \in AcceptsInput
    BY <2>1 DEF SendIsCurrent
  <2>3. s < rec.sid \/ rec.state \in {"draining", "closed"}
    BY <2>2 DEF IInv, ProgressInv
  <2>4. s # f.snap.sid
    BY <2>2, <2>3, BoundsAssumption DEF IInv, TypeOK
  <2> QED  BY <2>1, <2>4 DEF IInv, TypeOK
<1> QED  BY <1>1, <1>2, LastFramesArePublished

\* The neutral frame that ends a drain uses the control method of the last frame the
\* aircraft got, whatever records suspended calls have overwritten, unless a frame of
\* the other method was in flight when the close read the record.
THEOREM NeutralFrameMatches == Spec => NeutralMatchesLastFrame
<1>1. (IInv /\ MethodInv) /\ [Next]_vars =>
        [ NeutralLeaves =>
            LET f == Head(queue)
            IN  lastFrame[f.snap.sid] = f.method \/ f.call \in crossed ]_vars
  BY NeutralFrameFits
<1> QED  BY <1>1, MethodsRemembered, PTL DEF Spec, NeutralMatchesLastFrame

\* After its neutral frame no input frame of a session reaches the broker, until a
\* suspended call overwrites a newer record.
THEOREM NothingFollowsNeutral == Spec => NothingAfterNeutral
<1>1. IInv /\ [Next]_vars =>
        [ \A s \in neutralised : ~staleWrite' => lastFrame'[s] = lastFrame[s] ]_vars
  BY NeutralFrameIsLast
<1> QED  BY <1>1, InductiveInvariant, PTL DEF Spec, NothingAfterNeutral

===============================================================================
