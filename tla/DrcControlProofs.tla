---------------------------- MODULE DrcControlProofs ----------------------------
(***************************************************************************)
(* Proofs about DrcControl, for any gateways, operators, slots of calls,   *)
(* sizes of the audit's buffer and budgets: one open session at a time, a  *)
(* start activates a session of its own operator, no frame reaches a       *)
(* gateway that has been stopped, and every audit record is accounted for. *)
(*                                                                         *)
(* The first three say of the coordinator what its suspended calls may     *)
(* still do: a call knows the session it was made for only by its number,  *)
(* and reads the stored record again when it goes on.                      *)
(***************************************************************************)
EXTENDS DrcControl, FiniteSetTheorems, SequenceTheorems, TLAPS

States == {"idle", "requesting", "authorized", "authority_grabbed", "drc_mode_active",
           "controlling", "degraded", "draining", "closed"}
Steps == {"consent", "granted", "refuse", "enter", "dial", "ending", "open", "connect", "hung",
          "linked", "close", "neutral", "exit", "hangup", "parting", "release"}

Operators == Holders \cup {None}
Callers == Slots \cup Gateways

Records == [sid: Nat, state: States, conn: BOOLEAN, holder: Operators]
Frames == [g: Gateways, call: Callers \cup {None}, snap: Records]
CallRecords == [op: {"start", "stop", "recover", "tick"}, g: Gateways, by: Operators, sid: Nat,
                at: Steps, failed: BOOLEAN, gen: Nat, back: BOOLEAN]

ClientTypeOK == enabled \subseteq Gateways /\ attached \subseteq Gateways /\ subscribed \subseteq Gateways

AuditTypeOK ==
  /\ database \in BOOLEAN
  /\ asked \in Nat /\ dropped \in Nat
  /\ buffer \in Seq(Nat) /\ flying \in Seq(Nat)
  /\ stored \subseteq 1 .. asked

SessionTypeOK ==
  /\ rec \in [Gateways -> Records]
  /\ sids \in Nat
  /\ watched \subseteq Gateways /\ beat \in Gateways \cup {None}
  /\ queue \in Seq(Frames)
  /\ runtime \in [Gateways -> Operators]
  /\ stale \in BOOLEAN /\ stopped \subseteq Gateways

RestTypeOK ==
  /\ gen \in Nat /\ client \in Nat /\ up \in BOOLEAN
  /\ left \in [Kinds -> Nat]
  /\ calls \in [Callers -> CallRecords \cup {Idle}]
  /\ wire \in Seq(Gateways)
  /\ fc3 \subseteq Gateways /\ lease \in [Gateways -> Operators]
  /\ pair \in [Gateways -> Pairs] /\ authority \subseteq Gateways
  /\ reached \in [Gateways -> Nat]

\* The type invariant
TypeOK == ClientTypeOK /\ AuditTypeOK /\ SessionTypeOK /\ RestTypeOK

-----------------------------------------------------------------------------
(* The coordinator's invariant *)

\* No call and no record has the number of a session still to come.
NumberInv ==
  /\ \A g \in Gateways : rec[g].sid <= sids
  /\ \A c \in Callers : calls[c] # Idle => calls[c].sid <= sids
  /\ \A i \in 1 .. Len(queue) : queue[i].snap.sid <= sids

\* A neutral frame in the queue belongs to a call that waits for it, one each.
NeutralInv ==
  /\ \A i \in 1 .. Len(queue) : queue[i].call # None => calls[queue[i].call].at = "neutral"
  /\ \A i, j \in 1 .. Len(queue) : queue[i].call # None /\ queue[i].call = queue[j].call => i = j

\* There is one open session at a time.
OneInv == ~stale => \A g, h \in Gateways : Open(g) /\ Open(h) => g = h

\* The session of a stop that is past its close is over, and stays so after its release.
Over == {"idle", "draining", "closed"}

StopInv ==
  ~stale =>
    /\ \A g \in stopped : rec[g].state \in Over
    /\ \A c \in Callers :
         calls[c].op = "stop" /\ calls[c].at # "close" /\ rec[calls[c].g].sid = calls[c].sid
           => rec[calls[c].g].state \in Over

\* While a start's operator holds the lease it had when it began, what is being set up on
\* its gateway was requested by that operator.
Pending == SetUp \cup {"authority_grabbed", "drc_mode_active"}

HolderInv ==
  \A c \in Callers :
    /\ calls[c].op = "start" /\ ~calls[c].back
    /\ lease[calls[c].g] = calls[c].by
    /\ rec[calls[c].g].state \in Pending
    => rec[calls[c].g].holder = calls[c].by

-----------------------------------------------------------------------------
(* The audit's invariant *)

Increasing(s) == \A i, j \in 1 .. Len(s) : i < j => s[i] < s[j]

\* Records are numbered as they are asked for: those stored come before those being
\* written, and those before the ones that wait.
AuditInv ==
  /\ \A i \in 1 .. Len(flying) : flying[i] \in 1 .. asked
  /\ \A i \in 1 .. Len(buffer) : buffer[i] \in 1 .. asked
  /\ Increasing(flying) /\ Increasing(buffer)
  /\ \A i \in 1 .. Len(flying), j \in 1 .. Len(buffer) : flying[i] < buffer[j]
  /\ \A n \in stored : /\ \A i \in 1 .. Len(flying) : n < flying[i]
                       /\ \A i \in 1 .. Len(buffer) : n < buffer[i]
  /\ AuditAccounted

ControlInv == SessionTypeOK /\ RestTypeOK /\ NumberInv /\ NeutralInv /\ OneInv /\ StopInv /\ HolderInv

IInv == ControlInv /\ ClientTypeOK /\ AuditTypeOK /\ AuditInv

-----------------------------------------------------------------------------
(* What a step does to a call and to a record *)

\* A call that is not idle is a record, and the idle one is none.
LEMMA CallIsRecord ==
  ASSUME RestTypeOK, NEW c \in Callers, calls[c].at # "idle"
  PROVE  calls[c] \in CallRecords /\ calls[c] # Idle
BY DEF RestTypeOK, Idle

\* The idle call is of no kind and nowhere.
LEMMA IdleIsNone == Idle.op = "none" /\ Idle.at = "idle" /\ Idle \notin CallRecords
BY DEF Idle, CallRecords

\* A call goes on.
LEMMA CallGoes ==
  ASSUME RestTypeOK, NEW c \in Callers, calls[c] \in CallRecords, NEW at \in Steps, Goes(c, at)
  PROVE  /\ calls' \in [Callers -> CallRecords \cup {Idle}]
         /\ \A d \in Callers : d # c => calls'[d] = calls[d]
         /\ calls'[c] = [calls[c] EXCEPT !.at = at] /\ calls'[c] \in CallRecords
<1>1. [calls[c] EXCEPT !.at = at] \in CallRecords
  BY DEF CallRecords
<1> QED  BY <1>1 DEF RestTypeOK, Goes

\* A call ends.
LEMMA CallEnds ==
  ASSUME RestTypeOK, NEW c \in Callers, Ends(c)
  PROVE  /\ calls' \in [Callers -> CallRecords \cup {Idle}]
         /\ \A d \in Callers : d # c => calls'[d] = calls[d]
         /\ calls'[c] = Idle
BY DEF RestTypeOK, Ends

\* A session's state is set.
LEMMA StateSet ==
  ASSUME SessionTypeOK, NEW g \in Gateways, NEW s \in States, rec' = [rec EXCEPT ![g].state = s]
  PROVE  /\ rec' \in [Gateways -> Records]
         /\ \A o \in Gateways : /\ rec'[o].sid = rec[o].sid /\ rec'[o].holder = rec[o].holder
                                /\ rec'[o].conn = rec[o].conn
                                /\ rec'[o].state = IF o = g THEN s ELSE rec[o].state
<1>1. [rec[g] EXCEPT !.state = s] \in Records
  BY DEF SessionTypeOK, Records
<1> QED  BY <1>1 DEF SessionTypeOK, Records

\* A session is closed.
LEMMA StateClosed ==
  ASSUME SessionTypeOK, NEW g \in Gateways, rec' = [rec EXCEPT ![g].state = "closed", ![g].conn = FALSE]
  PROVE  /\ rec' \in [Gateways -> Records]
         /\ \A o \in Gateways : /\ rec'[o].sid = rec[o].sid /\ rec'[o].holder = rec[o].holder
                                /\ rec'[o].state = IF o = g THEN "closed" ELSE rec[o].state
<1>1. [rec[g] EXCEPT !.state = "closed", !.conn = FALSE] \in Records
  BY DEF SessionTypeOK, Records, States
<1>2. \A o \in Gateways : rec'[o] = IF o = g THEN [rec[g] EXCEPT !.state = "closed", !.conn = FALSE] ELSE rec[o]
  BY DEF SessionTypeOK
<1>3. rec' \in [Gateways -> Records]
  BY <1>1 DEF SessionTypeOK
<1> QED  BY <1>2, <1>3 DEF SessionTypeOK, Records

-----------------------------------------------------------------------------
(* What most steps have in common *)

\* No record is opened, set up or given back to a session that is over, unless one is
\* overwritten unread.
RecordsSettle ==
  /\ \A g \in Gateways : rec'[g].state \in Pending => rec[g].state \in Pending /\ rec'[g].holder = rec[g].holder
  /\ \A g \in Gateways : rec'[g].sid <= sids
  /\ ~stale' => /\ ~stale
                /\ \A g \in Gateways : /\ rec'[g].sid = rec[g].sid
                                       /\ rec[g].state \in Over => rec'[g].state \in Over
                                       /\ Open(g)' => Open(g)

\* A call stays what it is, and leaves its close only with the session over.
CallKept(c) ==
  /\ calls[c] # Idle
  /\ calls'[c].op = calls[c].op /\ calls'[c].g = calls[c].g /\ calls'[c].by = calls[c].by
  /\ calls[c].back => calls'[c].back
  /\ \/ calls'[c].sid = calls[c].sid /\ (calls[c].at = "close" => calls'[c].at = "close")
     \/ calls'[c].sid <= sids /\ rec'[calls[c].g].state \in Over

\* A call that begins, other than a start
CallBegins(c) ==
  /\ calls'[c].sid <= sids /\ calls'[c].op # "start"
  /\ calls'[c].op = "stop" => calls'[c].at = "close"

CallsSettle == \A c \in Callers : calls'[c] = Idle \/ CallKept(c) \/ CallBegins(c)

\* Steps of this kind keep what the invariant says of sessions and calls.
LEMMA SettledKeeps ==
  ASSUME NumberInv, OneInv, StopInv, HolderInv, RestTypeOK, RecordsSettle, CallsSettle,
         UNCHANGED <<sids, lease>>, stopped' \subseteq Gateways,
         ~stale' => \A g \in stopped' \ stopped : rec'[g].state \in Over,
         \A i \in 1 .. Len(queue') : queue'[i].snap.sid <= sids
  PROVE  NumberInv' /\ OneInv' /\ StopInv' /\ HolderInv'
<1>1. \A c \in Callers : calls[c] = Idle \/ calls[c].g \in Gateways
  BY DEF RestTypeOK, CallRecords
<1>2. NumberInv'
  <2>1. \A c \in Callers : CallKept(c) => calls'[c].sid <= sids
    BY DEF CallKept, NumberInv
  <2> QED  BY <2>1 DEF NumberInv, RecordsSettle, CallsSettle, CallBegins
<1>3. OneInv'
  BY DEF OneInv, RecordsSettle
<1>4. StopInv'
  <2> SUFFICES ASSUME ~stale'
               PROVE  /\ \A g \in stopped' : rec'[g].state \in Over
                      /\ \A c \in Callers :
                           calls'[c].op = "stop" /\ calls'[c].at # "close" /\ rec'[calls'[c].g].sid = calls'[c].sid
                             => rec'[calls'[c].g].state \in Over
    BY DEF StopInv, Over
  <2>1. \A g \in stopped' : rec'[g].state \in Over
    BY DEF StopInv, RecordsSettle
  <2>2. ASSUME NEW c \in Callers, calls'[c].op = "stop", calls'[c].at # "close",
               rec'[calls'[c].g].sid = calls'[c].sid
        PROVE  rec'[calls'[c].g].state \in Over
    <3>1. CallKept(c)
      BY <2>2, IdleIsNone DEF CallsSettle, CallBegins
    <3>2. CASE rec'[calls[c].g].state \in Over
      BY <3>1, <3>2 DEF CallKept
    <3>3. CASE calls'[c].sid = calls[c].sid /\ (calls[c].at = "close" => calls'[c].at = "close")
      BY <1>1, <2>2, <3>1, <3>3 DEF CallKept, StopInv, RecordsSettle
    <3> QED  BY <3>1, <3>2, <3>3 DEF CallKept
  <2> QED  BY <2>1, <2>2
<1>5. HolderInv'
  <2> SUFFICES ASSUME NEW c \in Callers, calls'[c].op = "start", ~calls'[c].back,
                      lease'[calls'[c].g] = calls'[c].by, rec'[calls'[c].g].state \in Pending
               PROVE  rec'[calls'[c].g].holder = calls'[c].by
    BY DEF HolderInv, Pending
  <2>1. CallKept(c)
    BY IdleIsNone DEF CallsSettle, CallBegins
  <2> QED  BY <1>1, <2>1 DEF CallKept, HolderInv, RecordsSettle
<1> QED  BY <1>2, <1>3, <1>4, <1>5

\* What the queue holds are frames.
LEMMA FramesAreTyped ==
  ASSUME SessionTypeOK, NEW i \in 1 .. Len(queue)
  PROVE  queue[i].g \in Gateways /\ queue[i].call \in Callers \cup {None} /\ queue[i].snap \in Records
<1>1. queue[i] \in Frames
  BY ElementOfSeq DEF SessionTypeOK
<1> QED  BY <1>1 DEF Frames

\* Steps that leave the queue alone keep its neutral frames with their calls.
LEMMA NeutralKept ==
  ASSUME NeutralInv, SessionTypeOK, UNCHANGED queue,
         \A c \in Callers : calls[c].at = "neutral" => calls'[c].at = "neutral"
  PROVE  NeutralInv'
<1>1. \A i \in 1 .. Len(queue) : queue[i].call \in Callers \cup {None}
  BY FramesAreTyped
<1> QED  BY <1>1 DEF NeutralInv

\* The records as they are settle.
LEMMA SameRecordsSettle ==
  ASSUME NumberInv, UNCHANGED <<rec, stale>>
  PROVE  RecordsSettle
BY DEF RecordsSettle, NumberInv, Open

\* A record whose state is set to one that is neither pending nor open again settles.
LEMMA SetRecordsSettle ==
  ASSUME NumberInv, NEW g \in Gateways, ~stale' => ~stale,
         \A o \in Gateways : /\ rec'[o].sid = rec[o].sid /\ rec'[o].holder = rec[o].holder
                             /\ o # g => rec'[o].state = rec[o].state,
         rec'[g].state \in Pending => rec[g].state \in Pending,
         rec[g].state \in Over => rec'[g].state \in {"closed", rec[g].state},
         rec[g].state \in {"idle", "closed"} => rec'[g].state \in {"idle", "closed"}
  PROVE  RecordsSettle
BY DEF RecordsSettle, NumberInv, Open, Over

\* So does a record that is closed.
LEMMA ClosedSettles ==
  ASSUME SessionTypeOK, NumberInv, NEW g \in Gateways, ~stale' => ~stale,
         rec' = [rec EXCEPT ![g].state = "closed", ![g].conn = FALSE]
  PROVE  /\ rec' \in [Gateways -> Records] /\ RecordsSettle
         /\ rec'[g].state = "closed" /\ rec'[g].sid = rec[g].sid
<1>1. /\ rec' \in [Gateways -> Records]
      /\ \A o \in Gateways : /\ rec'[o].sid = rec[o].sid /\ rec'[o].holder = rec[o].holder
                             /\ rec'[o].state = IF o = g THEN "closed" ELSE rec[o].state
  BY StateClosed
<1>2. rec'[g].state = "closed" /\ "closed" \notin Pending
  BY <1>1 DEF Pending, SetUp
<1> QED  BY <1>1, <1>2, SetRecordsSettle

\* And a session that had been entered and is drained.
LEMMA DrainedSettles ==
  ASSUME SessionTypeOK, NumberInv, NEW g \in Gateways, UNCHANGED stale, rec[g].state \in Entered,
         rec' = [rec EXCEPT ![g].state = "draining"]
  PROVE  /\ rec' \in [Gateways -> Records] /\ RecordsSettle
         /\ rec'[g].state = "draining" /\ rec'[g].sid = rec[g].sid
<1>1. "draining" \in States /\ "draining" \notin Pending /\ rec[g].state \notin Over
  BY DEF States, Pending, SetUp, Over, Entered, AcceptsInput, InControl
<1>2. /\ rec' \in [Gateways -> Records]
      /\ \A o \in Gateways : /\ rec'[o].sid = rec[o].sid /\ rec'[o].holder = rec[o].holder
                             /\ rec'[o].state = IF o = g THEN "draining" ELSE rec[o].state
  BY <1>1, StateSet
<1>3. rec[g].state \notin {"idle", "closed"}
  BY <1>1 DEF Over
<1> QED  BY <1>1, <1>2, <1>3, SetRecordsSettle

-----------------------------------------------------------------------------
(* The coordinator's steps *)

\* It is enough that a step keeps the types and settles, when it leaves the queue alone.
LEMMA SettlingStep ==
  ASSUME ControlInv, SessionTypeOK', RestTypeOK', RecordsSettle, CallsSettle,
         UNCHANGED <<sids, lease, queue>>,
         ~stale' => \A g \in stopped' \ stopped : rec'[g].state \in Over,
         \A c \in Callers : calls[c].at = "neutral" => calls'[c].at = "neutral"
  PROVE  ControlInv'
<1>1. NeutralInv'
  BY NeutralKept DEF ControlInv
<1>2. \A i \in 1 .. Len(queue') : queue'[i].snap.sid <= sids
  BY DEF ControlInv, NumberInv
<1>3. stopped' \subseteq Gateways
  BY DEF SessionTypeOK
<1> QED  BY <1>1, <1>2, <1>3, SettledKeeps DEF ControlInv

\* A call that goes on, anywhere but out of its close, is kept.
LEMMA GoingKeeps ==
  ASSUME ControlInv, NEW c \in Callers, calls[c].at \in Steps \ {"close", "neutral"}, NEW at \in Steps,
         Goes(c, at) \/ Ends(c)
  PROVE  /\ calls' \in [Callers -> CallRecords \cup {Idle}]
         /\ CallsSettle
         /\ \A d \in Callers : calls[d].at = "neutral" => calls'[d].at = "neutral"
<1>1. RestTypeOK /\ calls[c] \in CallRecords /\ calls[c] # Idle
  BY CallIsRecord DEF ControlInv, Steps
<1>2. \A d \in Callers : calls[d] = Idle \/ calls[d] \in CallRecords
  BY <1>1 DEF RestTypeOK
<1>3. /\ calls' \in [Callers -> CallRecords \cup {Idle}]
      /\ \A d \in Callers : d # c => calls'[d] = calls[d]
      /\ calls'[c] = Idle \/ calls'[c] = [calls[c] EXCEPT !.at = at]
  BY <1>1, CallGoes, CallEnds
<1>4. \A d \in Callers : calls'[d] = calls[d] => calls'[d] = Idle \/ CallKept(d)
  BY DEF CallKept
<1>5. calls'[c] = Idle \/ CallKept(c)
  BY <1>1, <1>3 DEF CallKept, CallRecords
<1> QED  BY <1>3, <1>4, <1>5 DEF CallsSettle

\* The pilot has answered: a session still being requested is grabbed, or only authorised.
LEMMA GrantedKeeps ==
  ASSUME ControlInv, NEW c \in Callers, Granted(c)
  PROVE  ControlInv'
<1>1. SessionTypeOK /\ RestTypeOK /\ NumberInv /\ calls[c] \in CallRecords
  BY CallIsRecord DEF ControlInv, Granted
<1> DEFINE g == calls[c].g
<1>2. g \in Gateways
  BY <1>1 DEF CallRecords
<1>3. PICK s \in {"authority_grabbed", "authorized"} :
        rec' = IF Expected(g, "requesting") THEN [rec EXCEPT ![g].state = s] ELSE rec
  BY DEF Granted
<1>4. rec' \in [Gateways -> Records] /\ RecordsSettle
  <2>1. CASE Expected(g, "requesting")
    <3>1. rec' = [rec EXCEPT ![g].state = s] /\ s \in States
      BY <1>3, <2>1 DEF States
    <3>2. rec[g].state = "requesting"
      BY <2>1 DEF Expected
    <3>3. UNCHANGED stale
      BY DEF Granted
    <3> HIDE DEF g
    <3> QED  BY <1>1, <1>2, <3>1, <3>2, <3>3, StateSet, SetRecordsSettle DEF Pending, SetUp, Over
  <2>2. CASE ~Expected(g, "requesting")
    BY <1>1, <1>3, <2>2, SameRecordsSettle DEF Granted, SessionTypeOK
  <2> QED  BY <2>1, <2>2
<1>5. /\ calls' \in [Callers -> CallRecords \cup {Idle}] /\ CallsSettle
      /\ \A d \in Callers : calls[d].at = "neutral" => calls'[d].at = "neutral"
  BY GoingKeeps DEF Granted, Steps
<1>6. SessionTypeOK'
  BY <1>1, <1>4 DEF SessionTypeOK, Granted
<1>7. RestTypeOK'
  BY <1>1, <1>5 DEF RestTypeOK, Granted, transportVars, guardVars
<1> QED  BY <1>4, <1>5, <1>6, <1>7, SettlingStep DEF Granted, guardVars

\* A budget that is spent stays a budget.
LEMMA SpendIsTyped ==
  ASSUME RestTypeOK, NEW k \in Kinds, Spend(k)
  PROVE  left' \in [Kinds -> Nat]
BY DEF RestTypeOK, Spend, Kinds

\* The reply to drc_mode_enter counts only for a session that is still grabbed.
LEMMA EnterKeeps ==
  ASSUME ControlInv, NEW c \in Callers, NEW ok \in BOOLEAN, Enter(c, ok)
  PROVE  ControlInv'
<1>1. SessionTypeOK /\ RestTypeOK /\ NumberInv /\ calls[c] \in CallRecords
  BY CallIsRecord DEF ControlInv, Enter
<1> DEFINE g == calls[c].g
           entered == ok /\ Expected(g, "authority_grabbed")
<1>2. g \in Gateways
  BY <1>1 DEF CallRecords
<1>3. rec' = (IF entered THEN [rec EXCEPT ![g].state = "drc_mode_active"] ELSE rec) /\ UNCHANGED stale
  BY DEF Enter
<1>4. rec' \in [Gateways -> Records] /\ RecordsSettle
  <2>1. CASE entered
    <3>1. rec' = [rec EXCEPT ![g].state = "drc_mode_active"] /\ "drc_mode_active" \in States
      BY <1>3, <2>1 DEF States
    <3>2. rec[g].state = "authority_grabbed"
      BY <2>1 DEF Expected
    <3>3. UNCHANGED stale
      BY <1>3
    <3> HIDE DEF g, entered
    <3> QED  BY <1>1, <1>2, <3>1, <3>2, <3>3, StateSet, SetRecordsSettle DEF Pending, SetUp, Over
  <2>2. CASE ~entered
    BY <1>1, <1>3, <2>2, SameRecordsSettle DEF SessionTypeOK
  <2> QED  BY <2>1, <2>2
<1>5. /\ calls' \in [Callers -> CallRecords \cup {Idle}] /\ CallsSettle
      /\ \A d \in Callers : calls[d].at = "neutral" => calls'[d].at = "neutral"
  BY GoingKeeps DEF Enter, Steps
<1>6. SessionTypeOK'
  BY <1>1, <1>4 DEF SessionTypeOK, Enter
<1>7. RestTypeOK'
  BY <1>1, <1>5 DEF RestTypeOK, Enter, transportVars, guardVars
<1> QED  BY <1>4, <1>5, <1>6, <1>7, SettlingStep DEF Enter, guardVars

\* setTransportConnected marks whatever record the gateway has by now.
LEMMA LinkedKeeps ==
  ASSUME ControlInv, NEW c \in Callers, Linked(c)
  PROVE  ControlInv'
<1>1. SessionTypeOK /\ RestTypeOK /\ NumberInv /\ calls[c] \in CallRecords
  BY CallIsRecord DEF ControlInv, Linked
<1>2. calls[c].g \in Gateways /\ calls[c].by \in Operators
  BY <1>1 DEF CallRecords
<1>3. rec' = [rec EXCEPT ![calls[c].g].conn = TRUE] /\ UNCHANGED stale
  BY DEF Linked
<1>4. rec' \in [Gateways -> Records] /\ RecordsSettle
  <2>1. [rec[calls[c].g] EXCEPT !.conn = TRUE] \in Records
    BY <1>1, <1>2 DEF SessionTypeOK, Records
  <2>2. rec' \in [Gateways -> Records]
    BY <1>1, <1>2, <1>3, <2>1 DEF SessionTypeOK
  <2>3. \A o \in Gateways : /\ rec'[o].sid = rec[o].sid /\ rec'[o].holder = rec[o].holder
                            /\ rec'[o].state = rec[o].state
    BY <1>1, <1>2, <1>3 DEF SessionTypeOK, Records
  <2> QED  BY <1>1, <1>2, <1>3, <2>2, <2>3, SetRecordsSettle DEF Over
<1>5. /\ calls' \in [Callers -> CallRecords \cup {Idle}] /\ CallsSettle
      /\ \A d \in Callers : calls[d].at = "neutral" => calls'[d].at = "neutral"
  BY GoingKeeps DEF Linked, Steps
<1>6. SessionTypeOK'
  BY <1>1, <1>2, <1>4 DEF SessionTypeOK, Linked
<1>7. RestTypeOK'
  BY <1>1, <1>5 DEF RestTypeOK, Linked, transportVars, guardVars
<1> QED  BY <1>4, <1>5, <1>6, <1>7, SettlingStep DEF Linked, guardVars

\* disconnect leaves the calls where they are, but for those that wait for the client.
LEMMA DisconnectKeeps ==
  ASSUME ControlInv, NEW c \in Callers, Dial(c) \/ Hangup(c)
  PROVE  ControlInv'
<1>1. SessionTypeOK /\ RestTypeOK /\ NumberInv /\ calls[c] \in CallRecords
  BY CallIsRecord DEF ControlInv, Dial, Hangup
<1>2. PICK at \in {"ending", "open", "parting", "release"} :
        calls' = [d \in DOMAIN calls |->
                    CASE d = c -> [calls[d] EXCEPT !.at = at]
                      [] d # c /\ calls[d].at = "connect" /\ calls[d].gen = client /\ client # 0
                           -> [calls[d] EXCEPT !.at = "hung"]
                      [] OTHER -> calls[d]]
  BY DEF Dial, Hangup, Disconnect
<1>3. /\ UNCHANGED <<sessionVars, guardVars, wire, reached, left>>
      /\ client' = 0 /\ up' = FALSE /\ gen' = gen + 1
      /\ calls[c].at \in {"dial", "hangup"}
  BY DEF Dial, Hangup, Disconnect
<1>4. \A d \in Callers : \/ calls'[d] = calls[d]
                         \/ \E s \in Steps \ {"close", "neutral"} :
                              /\ calls[d] \in CallRecords /\ calls[d].at \notin {"close", "neutral"}
                              /\ calls[d] # Idle
                              /\ calls'[d] = [calls[d] EXCEPT !.at = s]
  <2> SUFFICES ASSUME NEW d \in Callers, calls'[d] # calls[d]
               PROVE  \E s \in Steps \ {"close", "neutral"} :
                        /\ calls[d] \in CallRecords /\ calls[d].at \notin {"close", "neutral"}
                        /\ calls[d] # Idle
                        /\ calls'[d] = [calls[d] EXCEPT !.at = s]
    OBVIOUS
  <2>1. d \in DOMAIN calls
    BY <1>1 DEF RestTypeOK
  <2>2. CASE d = c
    BY <1>1, <1>2, <1>3, <2>1, <2>2, CallIsRecord DEF Steps
  <2>3. CASE d # c
    <3>1. calls[d].at = "connect" /\ calls'[d] = [calls[d] EXCEPT !.at = "hung"]
      BY <1>2, <2>1, <2>3
    <3> QED  BY <1>1, <3>1, CallIsRecord DEF Steps
  <2> QED  BY <2>2, <2>3
<1>5. /\ calls' \in [Callers -> CallRecords \cup {Idle}] /\ CallsSettle
      /\ \A d \in Callers : calls[d].at = "neutral" => calls'[d].at = "neutral"
  <2>1. \A d \in Callers : calls[d] \in CallRecords \cup {Idle}
    BY <1>1 DEF RestTypeOK
  <2>2. calls' \in [Callers -> CallRecords \cup {Idle}]
    <3>1. DOMAIN calls' = Callers /\ calls' = [d \in Callers |-> calls'[d]]
      BY <1>1, <1>2 DEF RestTypeOK
    <3>2. \A r \in CallRecords, s \in Steps : [r EXCEPT !.at = s] \in CallRecords
      BY DEF CallRecords
    <3>3. ASSUME NEW d \in Callers, calls'[d] # calls[d]  PROVE calls'[d] \in CallRecords
      <4>1. PICK s \in Steps : calls[d] \in CallRecords /\ calls'[d] = [calls[d] EXCEPT !.at = s]
        BY <1>4, <3>3
      <4> QED  BY <3>2, <4>1
    <3>4. \A d \in Callers : calls'[d] \in CallRecords \cup {Idle}
      BY <2>1, <3>3
    <3> QED  BY <3>1, <3>4
  <2>3. ASSUME NEW d \in Callers  PROVE calls'[d] = Idle \/ CallKept(d)
    <3>1. CASE calls'[d] = calls[d]
      BY <3>1 DEF CallKept
    <3>2. CASE calls'[d] # calls[d]
      <4>1. PICK s \in Steps \ {"close", "neutral"} :
              /\ calls[d] \in CallRecords /\ calls[d].at \notin {"close", "neutral"}
              /\ calls[d] # Idle
              /\ calls'[d] = [calls[d] EXCEPT !.at = s]
        BY <1>4, <3>2
      <4> QED  BY <4>1 DEF CallKept, CallRecords
    <3> QED  BY <3>1, <3>2
  <2>4. \A d \in Callers : calls[d].at = "neutral" => calls'[d].at = "neutral"
    BY <1>4
  <2> QED  BY <2>2, <2>3, <2>4 DEF CallsSettle
<1>6. RecordsSettle
  BY <1>1, <1>3, SameRecordsSettle DEF sessionVars
<1>7. SessionTypeOK'
  BY <1>1, <1>3 DEF SessionTypeOK, sessionVars
<1>8. RestTypeOK'
  <2>1. gen' \in Nat /\ client' \in Nat
    BY <1>1, <1>3 DEF RestTypeOK
  <2>2. up' \in BOOLEAN
    BY <1>3
  <2>3. UNCHANGED <<fc3, lease, pair, authority, wire, reached, left>>
    BY <1>3 DEF guardVars
  <2> QED  BY <1>1, <1>5, <2>1, <2>2, <2>3 DEF RestTypeOK
<1> QED  BY <1>3, <1>5, <1>6, <1>7, <1>8, SettlingStep DEF sessionVars, guardVars

\* The old client has ended, a client is opened, or it connects or fails.
LEMMA ClientKeeps ==
  ASSUME ControlInv, NEW c \in Callers, Ended(c) \/ OpenClient(c) \/ Connected(c) \/ ConnectFails(c)
  PROVE  ControlInv'
<1>1. SessionTypeOK /\ RestTypeOK /\ NumberInv /\ calls[c] \in CallRecords
  BY CallIsRecord DEF ControlInv, Ended, OpenClient, Connected, ConnectFails
<1>2. UNCHANGED <<sessionVars, guardVars, wire, reached>>
  BY DEF Ended, OpenClient, Connected, ConnectFails
<1>3. gen' \in Nat /\ client' \in Nat
  BY <1>1 DEF Ended, OpenClient, Connected, ConnectFails, transportVars, RestTypeOK
<1>8. up' \in BOOLEAN
  BY <1>1 DEF Ended, OpenClient, Connected, ConnectFails, transportVars, RestTypeOK
<1>9. left' \in [Kinds -> Nat]
  BY <1>1, SpendIsTyped DEF Ended, OpenClient, Connected, ConnectFails, RestTypeOK, Kinds
<1>4. /\ calls' \in [Callers -> CallRecords \cup {Idle}] /\ CallsSettle
      /\ \A d \in Callers : calls[d].at = "neutral" => calls'[d].at = "neutral"
  <2>1. CASE Ended(c) \/ Connected(c) \/ ConnectFails(c)
    BY <2>1, GoingKeeps DEF Ended, Connected, ConnectFails, ConnectFailed, Steps
  <2>2. CASE OpenClient(c)
    <3>1. calls' = [calls EXCEPT ![c] = [calls[c] EXCEPT !.at = "connect", !.gen = gen + 1]]
      BY <1>1, <2>2 DEF OpenClient, RestTypeOK
    <3>2. [calls[c] EXCEPT !.at = "connect", !.gen = gen + 1] \in CallRecords
      <4>1. gen + 1 \in Nat /\ "connect" \in Steps
        BY <1>1 DEF RestTypeOK, Steps
      <4> QED  BY <1>1, <4>1 DEF CallRecords
    <3>3. calls' \in [Callers -> CallRecords \cup {Idle}] /\ \A d \in Callers : d # c => calls'[d] = calls[d]
      BY <1>1, <3>1, <3>2 DEF RestTypeOK
    <3>4. CallKept(c)
      <4>1. calls'[c] = [calls[c] EXCEPT !.at = "connect", !.gen = gen + 1]
        BY <1>1, <3>1 DEF RestTypeOK
      <4>2. calls[c].at = "open" /\ calls[c] # Idle
        BY <2>2 DEF OpenClient, Idle
      <4> QED  BY <1>1, <4>1, <4>2 DEF CallKept, CallRecords
    <3>5. \A d \in Callers : calls'[d] = calls[d] => calls'[d] = Idle \/ CallKept(d)
      BY DEF CallKept
    <3>6. calls[c].at # "neutral"
      BY <2>2 DEF OpenClient
    <3> QED  BY <3>3, <3>4, <3>5, <3>6 DEF CallsSettle
  <2> QED  BY <2>1, <2>2
<1>5. RecordsSettle
  BY <1>1, <1>2, SameRecordsSettle DEF sessionVars
<1>6. SessionTypeOK'
  BY <1>1, <1>2 DEF SessionTypeOK, sessionVars
<1>7. RestTypeOK'
  <2>1. UNCHANGED <<fc3, lease, pair, authority, wire, reached>>
    BY <1>2 DEF guardVars
  <2> QED  BY <1>1, <1>3, <1>4, <1>8, <1>9, <2>1 DEF RestTypeOK
<1> QED  BY <1>2, <1>4, <1>5, <1>6, <1>7, SettlingStep DEF sessionVars, guardVars

\* forceClose of whatever session the gateway has by now
LEMMA RefuseKeeps ==
  ASSUME ControlInv, NEW c \in Callers, Refuse(c)
  PROVE  ControlInv'
<1>1. SessionTypeOK /\ RestTypeOK /\ NumberInv /\ calls[c] \in CallRecords
  BY CallIsRecord DEF ControlInv, Refuse
<1>2. calls[c].g \in Gateways
  BY <1>1 DEF CallRecords
<1>3. rec' \in [Gateways -> Records] /\ RecordsSettle
  <2>1. rec' = [rec EXCEPT ![calls[c].g].state = "closed", ![calls[c].g].conn = FALSE] /\ UNCHANGED stale
    BY DEF Refuse, ForceClosed
  <2> QED  BY <1>1, <1>2, <2>1, ClosedSettles
<1>4. /\ calls' \in [Callers -> CallRecords \cup {Idle}] /\ CallsSettle
      /\ \A d \in Callers : calls[d].at = "neutral" => calls'[d].at = "neutral"
  BY GoingKeeps DEF Refuse, Steps
<1>5. SessionTypeOK'
  BY <1>1, <1>2, <1>3 DEF SessionTypeOK, Refuse, ForceClosed
<1>6. RestTypeOK'
  BY <1>1, <1>4 DEF RestTypeOK, Refuse, transportVars, guardVars
<1> QED  BY <1>3, <1>4, <1>5, <1>6, SettlingStep DEF Refuse, guardVars

\* The reply to drc_mode_exit
LEMMA ExitKeeps ==
  ASSUME ControlInv, NEW c \in Callers, NEW ok \in BOOLEAN, Exit(c, ok)
  PROVE  ControlInv'
<1>1. SessionTypeOK /\ RestTypeOK /\ NumberInv /\ calls[c] \in CallRecords
  BY CallIsRecord DEF ControlInv, Exit
<1>2. calls[c].g \in Gateways
  BY <1>1 DEF CallRecords
<1>3. rec' \in [Gateways -> Records] /\ RecordsSettle
  <2> DEFINE g == calls[c].g
             s == calls[c].sid
  <2>1. /\ rec' = [rec EXCEPT ![g].sid = s, ![g].state = "closed", ![g].conn = FALSE]
        /\ ~stale' => ~stale /\ rec[g].sid = s
    BY DEF Exit
  <2>2. s \in Nat /\ s <= sids /\ "closed" \in States /\ "closed" \notin Pending
    BY <1>1, CallIsRecord DEF CallRecords, NumberInv, States, Pending, SetUp, Exit, Idle
  <2>3. g \in Gateways
    BY <1>2
  <2> HIDE DEF g, s
  <2>4. /\ rec' \in [Gateways -> Records]
        /\ \A o \in Gateways : /\ rec'[o].sid = IF o = g THEN s ELSE rec[o].sid
                               /\ rec'[o].holder = rec[o].holder
                               /\ rec'[o].state = IF o = g THEN "closed" ELSE rec[o].state
    BY <1>1, <2>1, <2>2, <2>3 DEF SessionTypeOK, Records
  <2>5. RecordsSettle
    BY <1>1, <2>1, <2>2, <2>4 DEF RecordsSettle, NumberInv, Open, Over
  <2> QED  BY <2>4, <2>5
<1>4. /\ calls' \in [Callers -> CallRecords \cup {Idle}] /\ CallsSettle
      /\ \A d \in Callers : calls[d].at = "neutral" => calls'[d].at = "neutral"
  BY GoingKeeps DEF Exit, CloseDone, Steps
<1>5. stale' \in BOOLEAN
  BY <1>1 DEF Exit, SessionTypeOK
<1>6. SessionTypeOK'
  BY <1>1, <1>2, <1>3, <1>5 DEF SessionTypeOK, Exit
<1>7. RestTypeOK'
  BY <1>1, <1>4 DEF RestTypeOK, Exit, transportVars, guardVars
<1> QED  BY <1>3, <1>4, <1>6, <1>7, SettlingStep DEF Exit, guardVars

\* closeGracefully up to its first await: whatever it finds, the session is over then.
LEMMA CloseKeeps ==
  ASSUME ControlInv, NEW c \in Callers, Close(c)
  PROVE  ControlInv'
<1>1. /\ SessionTypeOK /\ RestTypeOK /\ NumberInv /\ calls[c] \in CallRecords
      /\ calls[c].at = "close" /\ calls[c] # Idle
  BY CallIsRecord DEF ControlInv, Close
<1> PICK g \in Gateways : g = calls[c].g
  BY <1>1 DEF CallRecords
<1> DEFINE neutral == rec[g].conn /\ rec[g].state \in InControl
           frame   == [g |-> g, call |-> c, snap |-> rec'[g]]
           at      == IF neutral THEN "neutral" ELSE "exit"
<1>2. /\ UNCHANGED <<sids, runtime, stale, stopped, transportVars, guardVars, wire, reached, left>>
      /\ \/ /\ rec[g].state \notin Entered \cup SetUp
            /\ CloseDone(c) /\ UNCHANGED <<rec, watched, beat, queue>>
         \/ /\ rec[g].state \in SetUp
            /\ ForceClosed(g) /\ CloseDone(c) /\ UNCHANGED queue
         \/ /\ rec[g].state \in Entered
            /\ rec' = [rec EXCEPT ![g].state = "draining"]
            /\ watched' = watched \ {g}
            /\ beat' = IF neutral THEN beat ELSE None
            /\ queue' = IF neutral THEN Append(queue, frame) ELSE queue
            /\ calls' = [calls EXCEPT ![c].at = at, ![c].sid = rec[g].sid]
  BY DEF Close
<1> HIDE DEF neutral, frame, at
<1>3. rec[g] \in Records /\ rec[g].sid \in Nat /\ rec[g].sid <= sids
  BY <1>1 DEF SessionTypeOK, Records, NumberInv
<1>4. /\ rec' \in [Gateways -> Records] /\ RecordsSettle
      /\ rec'[g].state \in Over /\ rec'[g].sid = rec[g].sid
  <2>1. CASE rec[g].state \notin Entered \cup SetUp /\ UNCHANGED rec
    <3>1. rec[g].state \in Over
      BY <1>3, <2>1 DEF Records, States, Entered, SetUp, AcceptsInput, InControl, Over
    <3>2. UNCHANGED <<rec, stale>>
      BY <1>2, <2>1
    <3> QED  BY <1>1, <3>1, <3>2, SameRecordsSettle DEF SessionTypeOK
  <2>2. CASE rec[g].state \in SetUp /\ ForceClosed(g)
    <3>1. stale' = stale /\ rec' = [rec EXCEPT ![g].state = "closed", ![g].conn = FALSE]
      BY <1>2, <2>2 DEF ForceClosed
    <3>2. /\ rec' \in [Gateways -> Records] /\ RecordsSettle
          /\ rec'[g].state = "closed" /\ rec'[g].sid = rec[g].sid
      BY <1>1, <3>1, ClosedSettles
    <3> QED  BY <3>2 DEF Over
  <2>3. CASE rec[g].state \in Entered /\ rec' = [rec EXCEPT ![g].state = "draining"]
    BY <1>1, <1>2, <2>3, DrainedSettles DEF Over
  <2> QED  BY <1>2, <2>1, <2>2, <2>3
<1>5. /\ calls' \in [Callers -> CallRecords \cup {Idle}]
      /\ \A d \in Callers : d # c => calls'[d] = calls[d]
      /\ \/ calls'[c] = Idle
         \/ /\ calls'[c].op = calls[c].op /\ calls'[c].g = calls[c].g /\ calls'[c].by = calls[c].by
            /\ calls'[c].back = calls[c].back
            /\ calls'[c].sid \in {calls[c].sid, rec[g].sid}
  <2>1. CASE CloseDone(c)
    <3>1. "hangup" \in Steps
      BY DEF Steps
    <3>2. CASE Ends(c)
      BY <1>1, <3>2, CallEnds
    <3>3. CASE Goes(c, "hangup")
      <4>1. /\ calls' \in [Callers -> CallRecords \cup {Idle}]
            /\ \A d \in Callers : d # c => calls'[d] = calls[d]
            /\ calls'[c] = [calls[c] EXCEPT !.at = "hangup"]
        BY <1>1, <3>1, <3>3, CallGoes
      <4> QED  BY <1>1, <4>1 DEF CallRecords
    <3> QED  BY <2>1, <3>2, <3>3 DEF CloseDone
  <2>2. CASE calls' = [calls EXCEPT ![c].at = at, ![c].sid = rec[g].sid]
    <3>1. at \in Steps
      BY DEF at, Steps
    <3>2. [calls[c] EXCEPT !.at = at, !.sid = rec[g].sid] \in CallRecords
      BY <1>1, <1>3, <3>1 DEF CallRecords
    <3>3. calls' = [calls EXCEPT ![c] = [calls[c] EXCEPT !.at = at, !.sid = rec[g].sid]]
      BY <1>1, <2>2 DEF RestTypeOK
    <3>4. calls'[c] = [calls[c] EXCEPT !.at = at, !.sid = rec[g].sid]
      BY <1>1, <3>3 DEF RestTypeOK
    <3>5. /\ calls' \in [Callers -> CallRecords \cup {Idle}]
          /\ \A d \in Callers : d # c => calls'[d] = calls[d]
      BY <1>1, <3>2, <3>3 DEF RestTypeOK
    <3> QED  BY <1>1, <3>4, <3>5 DEF CallRecords
  <2> QED  BY <1>2, <2>1, <2>2
<1>6. CallsSettle
  <2>1. calls'[c] = Idle \/ CallKept(c)
    <3>1. calls[c].sid <= sids
      BY <1>1 DEF NumberInv
    <3> QED  BY <1>1, <1>3, <1>4, <1>5, <3>1 DEF CallKept
  <2>2. ASSUME NEW d \in Callers, d # c  PROVE calls'[d] = Idle \/ CallKept(d)
    BY <1>5, <2>2 DEF CallKept
  <2> QED  BY <2>1, <2>2 DEF CallsSettle
<1>7. CASE UNCHANGED queue
  <2>1. SessionTypeOK'
    BY <1>1, <1>2, <1>4, <1>7 DEF SessionTypeOK, ForceClosed
  <2>2. RestTypeOK'
    BY <1>1, <1>2, <1>5 DEF RestTypeOK, transportVars, guardVars
  <2>3. \A d \in Callers : calls[d].at = "neutral" => calls'[d].at = "neutral"
    BY <1>1, <1>5
  <2> QED  BY <1>2, <1>4, <1>6, <1>7, <2>1, <2>2, <2>3, SettlingStep DEF guardVars
<1>8. CASE queue' = Append(queue, frame) /\ calls'[c].at = "neutral" /\ watched' = watched \ {g} /\ beat' = beat
  <2>1. frame \in Frames /\ frame.call = c /\ frame.snap.sid = rec[g].sid
    <3>1. rec'[g] \in Records /\ rec'[g].sid = rec[g].sid /\ c \in Callers \cup {None}
      BY <1>4
    <3> QED  BY <3>1 DEF frame, Frames
  <2>2. queue' \in Seq(Frames) /\ Len(queue') = Len(queue) + 1
        /\ \A i \in 1 .. Len(queue') : queue'[i] = IF i <= Len(queue) THEN queue[i] ELSE frame
    BY <1>1, <1>8, <2>1, AppendProperties DEF SessionTypeOK
  <2>3. \A i \in 1 .. Len(queue) : queue[i].call # None => queue[i].call # c /\ queue[i].call \in Callers
    BY <1>1, FramesAreTyped DEF ControlInv, NeutralInv
  <2>4. NeutralInv'
    <3>1. \A i \in 1 .. Len(queue') : queue'[i].call # None => calls'[queue'[i].call].at = "neutral"
      <4> SUFFICES ASSUME NEW i \in 1 .. Len(queue'), queue'[i].call # None
                   PROVE  calls'[queue'[i].call].at = "neutral"
        OBVIOUS
      <4>1. CASE i \in 1 .. Len(queue)
        <5>1. queue'[i] = queue[i]
          BY <2>2, <4>1
        <5>2. calls'[queue[i].call] = calls[queue[i].call]
          BY <1>5, <2>3, <4>1, <5>1
        <5> QED  BY <4>1, <5>1, <5>2 DEF ControlInv, NeutralInv
      <4>2. CASE i \notin 1 .. Len(queue)
        <5>1. i \in 1 .. Len(queue) + 1 /\ Len(queue) \in Nat
          BY <1>1, <2>2 DEF SessionTypeOK
        <5>2. queue'[i] = frame
          BY <2>2, <4>2, <5>1
        <5> QED  BY <1>8, <2>1, <5>2
      <4> QED  BY <4>1, <4>2
    <3>2. \A i, j \in 1 .. Len(queue') : queue'[i].call # None /\ queue'[i].call = queue'[j].call => i = j
      <4> SUFFICES ASSUME NEW i \in 1 .. Len(queue'), NEW j \in 1 .. Len(queue'),
                          queue'[i].call # None, queue'[i].call = queue'[j].call
                   PROVE  i = j
        OBVIOUS
      <4>1. Len(queue) \in Nat /\ i \in 1 .. Len(queue) + 1 /\ j \in 1 .. Len(queue) + 1
        BY <1>1, <2>2 DEF SessionTypeOK
      <4>2. CASE i \in 1 .. Len(queue) /\ j \in 1 .. Len(queue)
        BY <2>2, <4>2 DEF ControlInv, NeutralInv
      <4>3. \A k \in 1 .. Len(queue') : k \notin 1 .. Len(queue) => queue'[k].call = c /\ k = Len(queue) + 1
        BY <2>1, <2>2, <4>1
      <4>4. \A k \in 1 .. Len(queue) : queue'[k] = queue[k]
        BY <2>2, <4>1
      <4> QED  BY <2>3, <4>2, <4>3, <4>4
    <3> QED  BY <3>1, <3>2 DEF NeutralInv
  <2>5. SessionTypeOK'
    BY <1>1, <1>2, <1>4, <1>8, <2>2 DEF SessionTypeOK
  <2>6. RestTypeOK'
    BY <1>1, <1>2, <1>5 DEF RestTypeOK, transportVars, guardVars
  <2>7. \A i \in 1 .. Len(queue') : queue'[i].snap.sid <= sids
    BY <1>1, <1>3, <2>1, <2>2 DEF NumberInv
  <2> QED  BY <1>1, <1>2, <1>4, <1>6, <2>4, <2>5, <2>6, <2>7, SettledKeeps DEF ControlInv, SessionTypeOK, guardVars
<1> QED
  <2>1. CASE rec[g].state \in Entered /\ neutral
    <3>1. /\ queue' = Append(queue, frame) /\ watched' = watched \ {g} /\ beat' = beat
          /\ calls' = [calls EXCEPT ![c].at = "neutral", ![c].sid = rec[g].sid]
      BY <1>2, <2>1 DEF at, Entered, AcceptsInput, InControl, SetUp
    <3>2. calls'[c].at = "neutral"
      BY <1>1, <3>1 DEF RestTypeOK, CallRecords
    <3> QED  BY <1>8, <3>1, <3>2
  <2>2. CASE ~(rec[g].state \in Entered /\ neutral)
    BY <1>2, <1>7, <2>2
  <2> QED  BY <2>1, <2>2

\* The reply to cloud_control_release: the session of a stop is over by now.
LEMMA ReleaseKeeps ==
  ASSUME ControlInv, NEW c \in Callers, NEW ok \in BOOLEAN, Release(c, ok)
  PROVE  ControlInv'
<1>1. /\ SessionTypeOK /\ RestTypeOK /\ NumberInv /\ calls[c] \in CallRecords
      /\ calls[c].at = "release"
  BY CallIsRecord DEF ControlInv, Release
<1> PICK g \in Gateways : g = calls[c].g
  BY <1>1 DEF CallRecords
<1>2. /\ UNCHANGED <<rec, sids, watched, beat, queue, runtime, stale, gen, client, up, fc3, lease, pair, wire, reached, left>>
      /\ authority' = IF ok THEN authority \ {g} ELSE authority
      /\ stopped' = IF ok /\ calls[c].op = "stop" /\ rec[g].sid = calls[c].sid THEN stopped \cup {g} ELSE stopped
  BY DEF Release, transportVars
<1>3. authority' \subseteq Gateways /\ stopped' \subseteq Gateways
  BY <1>1, <1>2 DEF RestTypeOK, SessionTypeOK
<1>4. ~stale' => \A o \in stopped' \ stopped : rec'[o].state \in Over
  BY <1>1, <1>2 DEF ControlInv, StopInv
<1>5. /\ calls' \in [Callers -> CallRecords \cup {Idle}] /\ CallsSettle
      /\ \A d \in Callers : calls[d].at = "neutral" => calls'[d].at = "neutral"
  BY GoingKeeps DEF Release, Steps
<1>6. RecordsSettle
  BY <1>1, <1>2, SameRecordsSettle
<1>7. SessionTypeOK'
  BY <1>1, <1>2, <1>3 DEF SessionTypeOK
<1>8. RestTypeOK'
  BY <1>1, <1>2, <1>3, <1>5 DEF RestTypeOK
<1> QED  BY <1>2, <1>4, <1>5, <1>6, <1>7, <1>8, SettlingStep

\* A new call is a record.
LEMMA NewCallIsTyped ==
  ASSUME NEW op \in {"start", "stop", "recover", "tick"}, NEW g \in Gateways, NEW by \in Operators,
         NEW sid \in Nat, NEW at \in Steps
  PROVE  Call(op, g, by, sid, at) \in CallRecords
BY DEF Call, CallRecords

\* A call that begins in a slot or a watchdog's that was idle.
LEMMA NewCallSettles ==
  ASSUME RestTypeOK, NEW c \in Callers, calls[c] = Idle, NEW r \in CallRecords, r.sid <= sids, r.op # "start",
         r.op = "stop" => r.at = "close",
         calls' = [calls EXCEPT ![c] = r]
  PROVE  /\ calls' \in [Callers -> CallRecords \cup {Idle}] /\ CallsSettle
         /\ \A d \in Callers : calls[d].at = "neutral" => calls'[d].at = "neutral"
<1>1. calls' \in [Callers -> CallRecords \cup {Idle}]
  BY DEF RestTypeOK
<1>2. \A d \in Callers : calls'[d] = IF d = c THEN r ELSE calls[d]
  BY DEF RestTypeOK
<1>3. CallBegins(c)
  BY <1>2 DEF CallBegins
<1>4. \A d \in Callers : d # c => calls'[d] = Idle \/ CallKept(d)
  BY <1>2 DEF CallKept
<1>5. \A d \in Callers : calls[d].at = "neutral" => d # c
  BY DEF Idle
<1> QED  BY <1>1, <1>2, <1>3, <1>4, <1>5 DEF CallsSettle

\* A stop, a recovery and a watchdog that fires begin.
LEMMA BeginningsKeep ==
  ASSUME ControlInv,
         \/ \E c \in Slots, g \in Gateways : Stop(c, g) \/ Recover(c, g)
         \/ \E g \in Gateways : Tick(g)
  PROVE  ControlInv'
<1>1. SessionTypeOK /\ RestTypeOK /\ NumberInv
  BY DEF ControlInv
<1>2. PICK c \in Callers, g \in Gateways, op \in {"stop", "recover", "tick"}, by \in Operators, sid \in Nat,
           at \in {"close", "dial"} :
        /\ calls[c] = Idle
        /\ sid \in {0, rec[g].sid}
        /\ calls' = [calls EXCEPT ![c] = Call(op, g, by, sid, at)]
        /\ op = "stop" => at = "close"
        /\ runtime' \in {runtime, [runtime EXCEPT ![g] = None]}
        /\ UNCHANGED <<rec, sids, watched, beat, queue, stale, stopped, transportVars, guardVars, wire, reached>>
        /\ left' = left \/ Spend("calls")
  <2>1. CASE \E c \in Slots, g \in Gateways : Stop(c, g)
    BY <1>1, <2>1 DEF Stop, Callers, Operators, SessionTypeOK, Records
  <2>2. CASE \E c \in Slots, g \in Gateways : Recover(c, g)
    BY <1>1, <2>2 DEF Recover, Callers, sessionVars, SessionTypeOK
  <2>3. CASE \E g \in Gateways : Tick(g)
    BY <2>3 DEF Tick, Callers, Operators, sessionVars
  <2> QED  BY <2>1, <2>2, <2>3
<1> PICK r : r = Call(op, g, by, sid, at)
  OBVIOUS
<1>3. /\ r \in CallRecords /\ r.sid <= sids /\ r.op # "start"
      /\ r.op = "stop" => r.at = "close"
  <2>1. rec[g].sid \in Nat /\ rec[g].sid <= sids /\ sids \in Nat
    BY <1>1 DEF SessionTypeOK, Records, NumberInv
  <2>2. sid \in Nat /\ sid <= sids /\ at \in Steps
    <3>1. sid = 0 \/ sid = rec[g].sid
      BY <1>2
    <3> QED  BY <2>1, <3>1 DEF Steps
  <2>3. r = [op |-> op, g |-> g, by |-> by, sid |-> sid, at |-> at, failed |-> FALSE, gen |-> 0, back |-> FALSE]
    BY DEF Call
  <2>4. r.sid = sid /\ r.op = op /\ r.at = at
    BY <2>3
  <2>5. r \in CallRecords
    <3>1. op \in {"start", "stop", "recover", "tick"} /\ 0 \in Nat
      OBVIOUS
    <3> QED  BY <2>2, <2>3, <3>1 DEF CallRecords
  <2>6. op # "start" /\ (op = "stop" => at = "close")
    BY <1>2
  <2> QED  BY <2>2, <2>4, <2>5, <2>6
<1>4. /\ calls' \in [Callers -> CallRecords \cup {Idle}] /\ CallsSettle
      /\ \A d \in Callers : calls[d].at = "neutral" => calls'[d].at = "neutral"
  BY <1>1, <1>2, <1>3, NewCallSettles
<1>5. RecordsSettle
  BY <1>1, <1>2, SameRecordsSettle
<1>6. SessionTypeOK'
  <2>1. runtime' \in [Gateways -> Operators]
    BY <1>1, <1>2 DEF SessionTypeOK, Operators
  <2> QED  BY <1>1, <1>2, <2>1 DEF SessionTypeOK
<1>7. RestTypeOK'
  <2>1. left' \in [Kinds -> Nat]
    BY <1>1, <1>2, SpendIsTyped DEF RestTypeOK, Kinds
  <2> QED  BY <1>1, <1>2, <1>4, <2>1 DEF RestTypeOK, transportVars, guardVars
<1> QED  BY <1>2, <1>4, <1>5, <1>6, <1>7, SettlingStep DEF guardVars

\* The watchdog's own end of a heartbeat, and the guards, which no part speaks of but for leases.
LEMMA BeatAndGuardsKeep ==
  ASSUME ControlInv, BeatFails \/ GuardsChange
  PROVE  ControlInv'
<1>1. SessionTypeOK /\ RestTypeOK /\ NumberInv
  BY DEF ControlInv
<1>2. UNCHANGED <<rec, sids, watched, queue, runtime, stale, stopped, transportVars, calls, wire, reached, lease>>
  BY DEF BeatFails, GuardsChange, sessionVars, guardVars
<1>3. SessionTypeOK'
  <2>1. beat' \in Gateways \cup {None}
    BY <1>1 DEF SessionTypeOK, BeatFails, GuardsChange, sessionVars
  <2> QED  BY <1>1, <1>2, <2>1 DEF SessionTypeOK
<1>4. left' \in [Kinds -> Nat]
  BY <1>1, SpendIsTyped DEF RestTypeOK, BeatFails, GuardsChange, Kinds
<1>5. fc3' \subseteq Gateways /\ pair' \in [Gateways -> Pairs] /\ authority' \subseteq Gateways
  BY <1>1 DEF RestTypeOK, BeatFails, GuardsChange, guardVars
<1>6. RestTypeOK'
  BY <1>1, <1>2, <1>4, <1>5 DEF RestTypeOK, transportVars
<1>7. RecordsSettle /\ CallsSettle
  BY <1>1, <1>2, SameRecordsSettle DEF CallsSettle, CallKept
<1> QED  BY <1>2, <1>3, <1>6, <1>7, SettlingStep

\* The transport is lost: the open sessions are marked, and part of the wire is gone.
LEMMA LostKeeps ==
  ASSUME ControlInv, Lost
  PROVE  ControlInv'
<1>1. SessionTypeOK /\ RestTypeOK /\ NumberInv
  BY DEF ControlInv
<1>2. /\ UNCHANGED <<sids, queue, runtime, stale, stopped, gen, client, guardVars, calls, reached>>
      /\ up' = FALSE
      /\ rec' = [g \in Gateways |-> IF Open(g) THEN [rec[g] EXCEPT !.conn = FALSE] ELSE rec[g]]
  BY DEF Lost, LostSessions
<1>3. watched' \subseteq Gateways /\ beat' \in Gateways \cup {None}
  BY <1>1 DEF Lost, LostSessions, SessionTypeOK
<1>4. wire' \in Seq(Gateways)
  BY <1>1 DEF Lost, RestTypeOK
<1>5. left' \in [Kinds -> Nat]
  BY <1>1, SpendIsTyped DEF Lost, Kinds
<1>6. \A g \in Gateways : /\ rec'[g] \in Records
                          /\ rec'[g].sid = rec[g].sid /\ rec'[g].state = rec[g].state
                          /\ rec'[g].holder = rec[g].holder
  BY <1>1, <1>2 DEF SessionTypeOK, Records
<1>7. SessionTypeOK'
  <2>1. rec' \in [Gateways -> Records]
    BY <1>2, <1>6
  <2> QED  BY <1>1, <1>2, <1>3, <2>1 DEF SessionTypeOK
<1>8. RestTypeOK'
  <2>1. up' \in BOOLEAN
    BY <1>2
  <2> QED  BY <1>1, <1>2, <1>4, <1>5, <2>1 DEF RestTypeOK, guardVars
<1>9. RecordsSettle
  BY <1>1, <1>2, <1>6 DEF RecordsSettle, NumberInv, Open
<1>10. CallsSettle
  BY <1>2 DEF CallsSettle, CallKept
<1> QED  BY <1>2, <1>7, <1>8, <1>9, <1>10, SettlingStep DEF guardVars

\* The starts that wait for the pilot go on together.
LEMMA ConsentKeeps ==
  ASSUME ControlInv, NEW g \in Gateways, NEW ok \in BOOLEAN, NEW granted \in BOOLEAN, Consent(g, ok, granted)
  PROVE  ControlInv'
<1>1. SessionTypeOK /\ RestTypeOK /\ NumberInv
  BY DEF ControlInv
<1> PICK waiting : waiting = {c \in Slots : calls[c].at = "consent" /\ calls[c].g = g}
  OBVIOUS
<1> PICK at \in {"granted", "refuse"} : at = IF ok THEN "granted" ELSE "refuse"
  OBVIOUS
<1>2. /\ UNCHANGED <<sessionVars, transportVars, fc3, lease, pair, wire, reached, left>>
      /\ calls' = [c \in DOMAIN calls |-> IF c \in waiting THEN [calls[c] EXCEPT !.at = at] ELSE calls[c]]
      /\ authority' = IF granted THEN authority \cup {g} ELSE authority \ {g}
  BY DEF Consent
<1>3. DOMAIN calls = Callers /\ waiting \subseteq Callers
  BY <1>1 DEF RestTypeOK, Callers
<1>4. ASSUME NEW c \in Callers
      PROVE  /\ calls'[c] \in CallRecords \cup {Idle}
             /\ calls'[c] = Idle \/ CallKept(c)
             /\ calls[c].at = "neutral" => calls'[c].at = "neutral"
  <2>1. CASE c \in waiting
    <3>1. calls[c].at = "consent" /\ calls[c] \in CallRecords /\ calls[c] # Idle
      BY <1>1, <2>1, CallIsRecord
    <3>2. calls'[c] = [calls[c] EXCEPT !.at = at] /\ at \in Steps
      BY <1>2, <1>3, <2>1 DEF Steps
    <3> QED  BY <3>1, <3>2 DEF CallRecords, CallKept
  <2>2. CASE c \notin waiting
    BY <1>1, <1>2, <1>3, <2>2 DEF CallKept, RestTypeOK
  <2> QED  BY <2>1, <2>2
<1>5. calls' \in [Callers -> CallRecords \cup {Idle}]
  BY <1>2, <1>3, <1>4
<1>6. SessionTypeOK'
  BY <1>1, <1>2 DEF SessionTypeOK, sessionVars
<1>7. RestTypeOK'
  <2>1. authority' \subseteq Gateways
    BY <1>1, <1>2 DEF RestTypeOK
  <2> QED  BY <1>1, <1>2, <1>5, <2>1 DEF RestTypeOK, transportVars
<1>8. RecordsSettle
  BY <1>1, <1>2, SameRecordsSettle DEF sessionVars
<1> QED  BY <1>2, <1>4, <1>6, <1>7, <1>8, SettlingStep DEF CallsSettle, sessionVars

\* A frame of an operator is queued with the record as it is then.
LEMMA SendKeeps ==
  ASSUME ControlInv, NEW g \in Gateways, NEW h \in Holders, Send(g, h)
  PROVE  ControlInv'
<1>1. SessionTypeOK /\ RestTypeOK /\ NumberInv /\ NeutralInv
  BY DEF ControlInv
<1> PICK frame : frame = [g |-> g, call |-> None, snap |-> rec[g]]
  OBVIOUS
<1>2. /\ queue' = Append(queue, frame)
      /\ UNCHANGED <<rec, sids, watched, beat, runtime, stale, stopped, transportVars, guardVars, calls, wire, reached>>
      /\ Spend("sends")
  BY DEF Send
<1>3. frame \in Frames /\ frame.call = None /\ frame.snap.sid <= sids
  BY <1>1 DEF Frames, SessionTypeOK, NumberInv
<1>4. queue' \in Seq(Frames) /\ Len(queue') = Len(queue) + 1
      /\ \A i \in 1 .. Len(queue') : queue'[i] = IF i <= Len(queue) THEN queue[i] ELSE frame
  BY <1>1, <1>2, <1>3, AppendProperties DEF SessionTypeOK
<1>5. Len(queue) \in Nat
  BY <1>1 DEF SessionTypeOK
<1>6. \A i \in 1 .. Len(queue') : \/ i \in 1 .. Len(queue) /\ queue'[i] = queue[i]
                                  \/ queue'[i] = frame
  BY <1>4, <1>5
<1>7. NeutralInv'
  BY <1>1, <1>2, <1>3, <1>6 DEF NeutralInv
<1>8. \A i \in 1 .. Len(queue') : queue'[i].snap.sid <= sids
  BY <1>1, <1>3, <1>6 DEF NumberInv
<1>9. SessionTypeOK'
  BY <1>1, <1>2, <1>4 DEF SessionTypeOK
<1>10. RestTypeOK'
  <2>1. left' \in [Kinds -> Nat]
    BY <1>1, <1>2, SpendIsTyped DEF Kinds
  <2> QED  BY <1>1, <1>2, <2>1 DEF RestTypeOK, transportVars, guardVars
<1>11. RecordsSettle /\ CallsSettle
  BY <1>1, <1>2, SameRecordsSettle DEF CallsSettle, CallKept
<1>12. stopped' \subseteq Gateways /\ (~stale' => \A o \in stopped' \ stopped : rec'[o].state \in Over)
  BY <1>1, <1>2 DEF SessionTypeOK
<1> QED  BY <1>2, <1>7, <1>8, <1>9, <1>10, <1>11, <1>12, SettledKeeps DEF ControlInv, guardVars

\* The head of the queue goes: the rest are the frames they were.
LEMMA TailKeeps ==
  ASSUME SessionTypeOK, NumberInv, NeutralInv, queue # <<>>, queue' = Tail(queue), UNCHANGED sids,
         \A c \in Callers : calls[c].at = "neutral" /\ c # Head(queue).call => calls'[c].at = "neutral"
  PROVE  queue' \in Seq(Frames) /\ NeutralInv' /\ \A i \in 1 .. Len(queue') : queue'[i].snap.sid <= sids
<1>1. /\ queue' \in Seq(Frames) /\ Len(queue) \in Nat /\ Len(queue') = Len(queue) - 1
      /\ \A i \in 1 .. Len(queue') : queue'[i] = queue[i + 1]
  BY DEF SessionTypeOK
<1>2. Head(queue) = queue[1] /\ 1 \in 1 .. Len(queue)
  BY DEF SessionTypeOK
<1>3. \A i \in 1 .. Len(queue') : i + 1 \in 1 .. Len(queue) /\ i + 1 # 1
  BY <1>1
<1>4. \A i \in 1 .. Len(queue) : queue[i].call \in Callers \cup {None}
  BY FramesAreTyped
<1>5. \A i \in 1 .. Len(queue') : queue'[i].call # None => calls'[queue'[i].call].at = "neutral"
  <2> SUFFICES ASSUME NEW i \in 1 .. Len(queue'), queue'[i].call # None
               PROVE  calls'[queue'[i].call].at = "neutral"
    OBVIOUS
  <2> PICK j \in 1 .. Len(queue) : j = i + 1 /\ j # 1 /\ queue'[i] = queue[j]
    BY <1>1, <1>3
  <2>1. calls[queue[j].call].at = "neutral" /\ queue[j].call \in Callers /\ queue[j].call # queue[1].call
    BY <1>2, <1>4 DEF NeutralInv
  <2> QED  BY <1>2, <2>1
<1>6. \A i, j \in 1 .. Len(queue') : queue'[i].call # None /\ queue'[i].call = queue'[j].call => i = j
  <2> SUFFICES ASSUME NEW i \in 1 .. Len(queue'), NEW j \in 1 .. Len(queue'),
                      queue'[i].call # None, queue'[i].call = queue'[j].call
               PROVE  i = j
    OBVIOUS
  <2>1. i + 1 \in 1 .. Len(queue) /\ j + 1 \in 1 .. Len(queue) /\ queue[i + 1].call # None
        /\ queue[i + 1].call = queue[j + 1].call
    BY <1>1, <1>3
  <2>2. i + 1 = j + 1
    BY <2>1 DEF NeutralInv
  <2> QED  BY <2>2
<1>7. \A i \in 1 .. Len(queue') : queue'[i].snap.sid <= sids
  BY <1>1, <1>3 DEF NumberInv
<1>8. NeutralInv'
  BY <1>5, <1>6 DEF NeutralInv
<1> QED  BY <1>1, <1>7, <1>8

\* The first frame is published: a neutral one lets its call go on, an operator's stores the
\* record it was made from, with the session now controlling.
LEMMA PublishKeeps ==
  ASSUME ControlInv, Publish
  PROVE  ControlInv'
<1>1. SessionTypeOK /\ RestTypeOK /\ NumberInv /\ NeutralInv
  BY DEF ControlInv
<1> PICK f : f = Head(queue)
  OBVIOUS
<1>2. f \in Frames /\ f = queue[1] /\ 1 \in 1 .. Len(queue)
  BY <1>1 DEF SessionTypeOK, Publish
<1>3. f.g \in Gateways /\ f.call \in Callers \cup {None} /\ f.snap \in Records /\ f.snap.sid <= sids
  BY <1>1, <1>2 DEF Frames, NumberInv
<1>4. /\ queue # <<>> /\ queue' = Tail(queue)
      /\ UNCHANGED <<sids, runtime, stopped, transportVars, guardVars, reached, left>>
      /\ wire' = IF up THEN Append(wire, f.g) ELSE wire
      /\ \/ /\ f.call # None
            /\ calls' = [calls EXCEPT ![f.call].at = "exit", ![f.call].failed = ~up]
            /\ beat' = None
            /\ UNCHANGED <<rec, watched, stale>>
         \/ /\ f.call = None /\ up
            /\ rec' = [rec EXCEPT ![f.g] = [f.snap EXCEPT !.state = "controlling"]]
            /\ watched' = IF f.snap.state = "drc_mode_active" THEN watched \cup {f.g} ELSE watched
            /\ stale' = (stale \/ rec[f.g].sid # f.snap.sid \/ ~rec[f.g].conn
                               \/ rec[f.g].state \notin AcceptsInput)
            /\ UNCHANGED <<calls, beat>>
         \/ f.call = None /\ ~up /\ UNCHANGED <<rec, watched, stale, calls, beat>>
  BY DEF Publish
<1>5. wire' \in Seq(Gateways)
  <2>1. wire' = Append(wire, f.g) \/ wire' = wire
    BY <1>4
  <2>2. wire \in Seq(Gateways)
    BY <1>1 DEF RestTypeOK
  <2> QED  BY <1>3, <2>1, <2>2
<1>6. beat' \in Gateways \cup {None} /\ watched' \subseteq Gateways
  BY <1>1, <1>3, <1>4 DEF SessionTypeOK
<1>7. /\ calls' \in [Callers -> CallRecords \cup {Idle}] /\ CallsSettle
      /\ \A c \in Callers : calls[c].at = "neutral" /\ c # f.call => calls'[c].at = "neutral"
  <2>1. CASE f.call # None
    <3>1. f.call \in Callers /\ calls[f.call].at = "neutral"
      BY <1>1, <1>2, <1>3, <2>1 DEF NeutralInv
    <3>2. calls[f.call] \in CallRecords /\ calls[f.call] # Idle
      BY <1>1, <3>1, CallIsRecord
    <3>3. PICK failed \in BOOLEAN : failed = ~up
      OBVIOUS
    <3>4. calls' = [calls EXCEPT ![f.call] = [calls[f.call] EXCEPT !.at = "exit", !.failed = failed]]
      BY <1>1, <1>4, <2>1, <3>1, <3>3 DEF RestTypeOK
    <3>5. [calls[f.call] EXCEPT !.at = "exit", !.failed = failed] \in CallRecords
      BY <3>2 DEF CallRecords, Steps
    <3>6. /\ calls' \in [Callers -> CallRecords \cup {Idle}]
          /\ calls'[f.call] = [calls[f.call] EXCEPT !.at = "exit", !.failed = failed]
          /\ \A d \in Callers : d # f.call => calls'[d] = calls[d]
      BY <1>1, <3>1, <3>4, <3>5 DEF RestTypeOK
    <3>7. CallKept(f.call)
      BY <3>1, <3>2, <3>6 DEF CallKept, CallRecords
    <3> QED  BY <3>6, <3>7 DEF CallsSettle, CallKept
  <2>2. CASE UNCHANGED calls
    BY <1>1, <2>2 DEF RestTypeOK, CallsSettle, CallKept
  <2> QED  BY <1>4, <2>1, <2>2
<1>8. rec' \in [Gateways -> Records] /\ stale' \in BOOLEAN /\ RecordsSettle
  <2>1. CASE UNCHANGED <<rec, stale>>
    BY <1>1, <2>1, SameRecordsSettle DEF SessionTypeOK
  <2>2. CASE /\ rec' = [rec EXCEPT ![f.g] = [f.snap EXCEPT !.state = "controlling"]]
             /\ stale' = (stale \/ rec[f.g].sid # f.snap.sid \/ ~rec[f.g].conn
                                \/ rec[f.g].state \notin AcceptsInput)
    <3>1. [f.snap EXCEPT !.state = "controlling"] \in Records
      BY <1>3 DEF Records, States
    <3>2. rec' \in [Gateways -> Records] /\ stale' \in BOOLEAN
      BY <1>1, <2>2, <3>1 DEF SessionTypeOK
    <3>3. /\ \A o \in Gateways : o # f.g => rec'[o] = rec[o]
          /\ rec'[f.g].state = "controlling" /\ rec'[f.g].sid = f.snap.sid
      BY <1>1, <1>3, <2>2 DEF SessionTypeOK, Records
    <3>4. "controlling" \notin Pending
      BY DEF Pending, SetUp
    <3>5. \A o \in Gateways : rec'[o].state \in Pending => rec[o].state \in Pending /\ rec'[o].holder = rec[o].holder
      BY <3>3, <3>4
    <3>6. \A o \in Gateways : rec'[o].sid <= sids
      BY <1>1, <1>3, <3>3 DEF NumberInv
    <3>7. ASSUME ~stale'
          PROVE  /\ ~stale
                 /\ \A o \in Gateways : /\ rec'[o].sid = rec[o].sid
                                        /\ rec[o].state \in Over => rec'[o].state \in Over
                                        /\ Open(o)' => Open(o)
      <4>1. ~stale /\ rec[f.g].sid = f.snap.sid /\ rec[f.g].state \in AcceptsInput
        BY <2>2, <3>7
      <4>2. rec[f.g].state \notin Over
        BY <4>1 DEF AcceptsInput, InControl, Over
      <4> QED  BY <3>3, <4>1, <4>2 DEF Open, Over
    <3> QED  BY <3>2, <3>5, <3>6, <3>7 DEF RecordsSettle
  <2> QED  BY <1>4, <2>1, <2>2
<1>9. queue' \in Seq(Frames) /\ NeutralInv' /\ \A i \in 1 .. Len(queue') : queue'[i].snap.sid <= sids
  BY <1>1, <1>4, <1>7, TailKeeps
<1>10. SessionTypeOK'
  BY <1>1, <1>4, <1>6, <1>8, <1>9 DEF SessionTypeOK
<1>11. RestTypeOK'
  BY <1>1, <1>4, <1>5, <1>7 DEF RestTypeOK, transportVars, guardVars
<1>12. stopped' \subseteq Gateways /\ (~stale' => \A o \in stopped' \ stopped : rec'[o].state \in Over)
  BY <1>1, <1>4 DEF SessionTypeOK
<1> QED  BY <1>4, <1>7, <1>8, <1>9, <1>10, <1>11, <1>12, SettledKeeps DEF ControlInv, guardVars

\* A lease that goes to an operator with a start under way is marked with that start.
LEMMA LeaseKeeps ==
  ASSUME ControlInv, LeaseChanges
  PROVE  ControlInv'
<1>1. SessionTypeOK /\ RestTypeOK /\ NumberInv /\ NeutralInv
  BY DEF ControlInv
<1>2. PICK g \in Gateways, h \in Operators :
        /\ lease' = [lease EXCEPT ![g] = h]
        /\ calls' = [c \in DOMAIN calls |->
                       IF calls[c].op = "start" /\ calls[c].g = g /\ calls[c].by = h
                       THEN [calls[c] EXCEPT !.back = TRUE] ELSE calls[c]]
  BY DEF LeaseChanges, Operators
<1>3. UNCHANGED <<fc3, pair, authority, sessionVars, transportVars, wire, reached>> /\ Spend("leases")
  BY DEF LeaseChanges
<1>4. ASSUME NEW c \in Callers
      PROVE  /\ calls'[c] \in CallRecords \cup {Idle}
             /\ \/ calls'[c] = calls[c] /\ ~(calls[c].op = "start" /\ calls[c].g = g /\ calls[c].by = h)
                \/ /\ calls[c] # Idle /\ calls'[c] # Idle /\ calls'[c].back /\ calls'[c].op = calls[c].op
                   /\ calls'[c].g = calls[c].g /\ calls'[c].by = calls[c].by
                   /\ calls'[c].at = calls[c].at /\ calls'[c].sid = calls[c].sid
  <2>1. CASE calls[c].op = "start" /\ calls[c].g = g /\ calls[c].by = h
    <3>1. calls[c] \in CallRecords /\ calls[c] # Idle
      BY <1>1, <2>1, IdleIsNone DEF RestTypeOK
    <3>2. calls'[c] = [calls[c] EXCEPT !.back = TRUE]
      BY <1>1, <1>2, <2>1 DEF RestTypeOK
    <3>3. calls'[c] \in CallRecords
      BY <3>1, <3>2 DEF CallRecords
    <3> QED  BY <3>1, <3>2, <3>3, IdleIsNone DEF CallRecords
  <2>2. CASE ~(calls[c].op = "start" /\ calls[c].g = g /\ calls[c].by = h)
    BY <1>1, <1>2, <2>2 DEF RestTypeOK
  <2> QED  BY <2>1, <2>2
<1>5. calls' \in [Callers -> CallRecords \cup {Idle}]
  BY <1>1, <1>2, <1>4 DEF RestTypeOK
<1>6. SessionTypeOK'
  BY <1>1, <1>3 DEF SessionTypeOK, sessionVars
<1>7. RestTypeOK'
  <2>1. left' \in [Kinds -> Nat]
    BY <1>1, <1>3, SpendIsTyped DEF Kinds
  <2>2. lease' \in [Gateways -> Operators]
    BY <1>1, <1>2 DEF RestTypeOK
  <2> QED  BY <1>1, <1>3, <1>5, <2>1, <2>2 DEF RestTypeOK, transportVars
<1>8. UNCHANGED <<rec, sids, queue, stale, stopped>>
  BY <1>3 DEF sessionVars
<1>9. NumberInv'
  BY <1>1, <1>4, <1>8 DEF NumberInv
<1>10. NeutralInv'
  <2>1. \A c \in Callers : calls[c].at = "neutral" => calls'[c].at = "neutral"
    BY <1>4
  <2> QED  BY <1>1, <1>8, <2>1, NeutralKept
<1>11. OneInv'
  BY <1>8 DEF ControlInv, OneInv, Open
<1>12. StopInv'
  BY <1>4, <1>8 DEF ControlInv, StopInv
<1>13. HolderInv'
  <2> SUFFICES ASSUME NEW c \in Callers, calls'[c].op = "start", ~calls'[c].back,
                      lease'[calls'[c].g] = calls'[c].by, rec'[calls'[c].g].state \in Pending
               PROVE  rec'[calls'[c].g].holder = calls'[c].by
    BY DEF HolderInv, Pending
  <2>1. calls'[c] = calls[c] /\ ~(calls[c].g = g /\ calls[c].by = h)
    BY <1>4
  <2>2. lease[calls[c].g] = calls[c].by
    <3>1. calls[c].g \in Gateways
      BY <1>1, <2>1, IdleIsNone DEF RestTypeOK, CallRecords
    <3> QED  BY <1>1, <1>2, <2>1, <3>1 DEF RestTypeOK
  <2> QED  BY <1>8, <2>1, <2>2 DEF ControlInv, HolderInv
<1> QED  BY <1>6, <1>7, <1>9, <1>10, <1>11, <1>12, <1>13 DEF ControlInv

\* A start requests a session of its own number, when no other gateway's is open.
LEMMA StartKeeps ==
  ASSUME ControlInv, NEW c \in Slots, NEW g \in Gateways, NEW h \in Holders, Start(c, g, h)
  PROVE  ControlInv'
<1>1. SessionTypeOK /\ RestTypeOK /\ NumberInv /\ NeutralInv /\ c \in Callers
  BY DEF ControlInv, Callers
<1> PICK r : r = [sid |-> sids + 1, state |-> "requesting", conn |-> FALSE, holder |-> h]
  OBVIOUS
<1> PICK n : n = Call("start", g, h, sids + 1, "consent")
  OBVIOUS
<1>2. /\ calls[c] = Idle /\ Spend("calls") /\ NoOtherSession(g) /\ lease[g] = h
      /\ sids' = sids + 1
      /\ rec' = [rec EXCEPT ![g] = r]
      /\ calls' = [calls EXCEPT ![c] = n]
      /\ stopped' = stopped \ {g}
      /\ UNCHANGED <<watched, beat, queue, runtime, stale, transportVars, guardVars, wire, reached>>
  BY DEF Start, RequestGuards
<1>3. sids \in Nat /\ sids + 1 \in Nat /\ sids < sids + 1
  BY <1>1 DEF SessionTypeOK
<1>4. r \in Records /\ r.sid = sids + 1 /\ r.state = "requesting" /\ r.holder = h
  BY <1>3 DEF Records, States, Operators
<1>5. n \in CallRecords /\ n.op = "start" /\ n.g = g /\ n.by = h /\ n.sid = sids + 1 /\ n.at = "consent"
  <2>1. n = [op |-> "start", g |-> g, by |-> h, sid |-> sids + 1, at |-> "consent", failed |-> FALSE,
             gen |-> 0, back |-> FALSE]
    BY DEF Call
  <2>2. h \in Operators /\ "consent" \in Steps /\ "start" \in {"start", "stop", "recover", "tick"} /\ 0 \in Nat
    BY DEF Operators, Steps
  <2>3. n.op = "start" /\ n.g = g /\ n.by = h /\ n.sid = sids + 1 /\ n.at = "consent"
    BY <2>1
  <2>5. n \in CallRecords
    BY <1>3, <2>2, NewCallIsTyped
  <2> QED  BY <2>3, <2>5
<1>6. /\ rec' \in [Gateways -> Records]
      /\ \A o \in Gateways : rec'[o] = IF o = g THEN r ELSE rec[o]
  BY <1>1, <1>2, <1>4 DEF SessionTypeOK
<1>7. /\ calls' \in [Callers -> CallRecords \cup {Idle}]
      /\ \A d \in Callers : calls'[d] = IF d = c THEN n ELSE calls[d]
  BY <1>1, <1>2, <1>5 DEF RestTypeOK
<1>8. \A d \in Callers : calls[d] = Idle \/ (calls[d].g \in Gateways /\ calls[d].sid \in Nat)
  BY <1>1 DEF RestTypeOK, CallRecords
<1>9. SessionTypeOK'
  BY <1>1, <1>2, <1>3, <1>6 DEF SessionTypeOK
<1>10. RestTypeOK'
  <2>1. left' \in [Kinds -> Nat]
    BY <1>1, <1>2, SpendIsTyped DEF Kinds
  <2> QED  BY <1>1, <1>2, <1>7, <2>1 DEF RestTypeOK, transportVars, guardVars
<1>11. NumberInv'
  <2>1. \A o \in Gateways : rec'[o].sid <= sids + 1
    <3>1. \A o \in Gateways : rec[o].sid \in Nat /\ rec[o].sid <= sids
      BY <1>1 DEF NumberInv, SessionTypeOK, Records
    <3> QED  BY <1>3, <1>4, <1>6, <3>1
  <2>2. \A d \in Callers : calls'[d] # Idle => calls'[d].sid <= sids + 1
    <3>1. \A d \in Callers : calls[d] # Idle => calls[d].sid \in Nat /\ calls[d].sid <= sids
      BY <1>1, <1>8 DEF NumberInv
    <3> QED  BY <1>3, <1>5, <1>7, <3>1
  <2>3. \A i \in 1 .. Len(queue') : queue'[i].snap.sid <= sids + 1
    <3>1. \A i \in 1 .. Len(queue) : queue[i].snap.sid \in Nat /\ queue[i].snap.sid <= sids
      BY <1>1, FramesAreTyped DEF NumberInv, Records
    <3> QED  BY <1>2, <1>3, <3>1
  <2> QED  BY <1>2, <2>1, <2>2, <2>3 DEF NumberInv
<1>12. NeutralInv'
  <2>1. \A d \in Callers : calls[d].at = "neutral" => calls'[d].at = "neutral"
    BY <1>2, <1>7, IdleIsNone
  <2> QED  BY <1>1, <1>2, <2>1, NeutralKept
<1>13. OneInv'
  <2>1. \A o \in Gateways : o # g => ~Open(o)'
    BY <1>2, <1>6 DEF NoOtherSession, Open
  <2> QED  BY <2>1 DEF OneInv
<1>14. StopInv'
  <2> SUFFICES ASSUME ~stale'
               PROVE  /\ \A o \in stopped' : rec'[o].state \in Over
                      /\ \A d \in Callers :
                           calls'[d].op = "stop" /\ calls'[d].at # "close" /\ rec'[calls'[d].g].sid = calls'[d].sid
                             => rec'[calls'[d].g].state \in Over
    BY DEF StopInv, Over
  <2>1. ~stale
    BY <1>2
  <2>2. \A o \in stopped' : rec'[o].state \in Over
    BY <1>1, <1>2, <1>6, <2>1 DEF ControlInv, StopInv, SessionTypeOK
  <2>3. ASSUME NEW d \in Callers, calls'[d].op = "stop", calls'[d].at # "close",
               rec'[calls'[d].g].sid = calls'[d].sid
        PROVE  rec'[calls'[d].g].state \in Over
    <3>1. calls'[d] = calls[d] /\ calls[d] # Idle
      BY <1>5, <1>7, <2>3, IdleIsNone
    <3>2. calls[d].g \in Gateways /\ calls[d].sid \in Nat /\ calls[d].sid <= sids
      BY <1>1, <1>8, <3>1 DEF NumberInv
    <3>3. calls[d].g # g
      BY <1>3, <1>4, <1>6, <2>3, <3>1, <3>2
    <3>4. rec'[calls[d].g] = rec[calls[d].g]
      BY <1>6, <3>2, <3>3
    <3> QED  BY <2>1, <2>3, <3>1, <3>4 DEF ControlInv, StopInv
  <2> QED  BY <2>2, <2>3
<1>15. HolderInv'
  <2> SUFFICES ASSUME NEW d \in Callers, calls'[d].op = "start", ~calls'[d].back,
                      lease'[calls'[d].g] = calls'[d].by, rec'[calls'[d].g].state \in Pending
               PROVE  rec'[calls'[d].g].holder = calls'[d].by
    BY DEF HolderInv, Pending
  <2>1. UNCHANGED lease
    BY <1>2 DEF guardVars
  <2>2. CASE calls'[d].g = g
    BY <1>2, <1>4, <1>6, <2>1, <2>2
  <2>3. CASE calls'[d].g # g
    <3>1. calls'[d] = calls[d] /\ calls[d] # Idle
      BY <1>5, <1>7, <2>3, IdleIsNone
    <3>2. rec'[calls[d].g] = rec[calls[d].g]
      BY <1>6, <1>8, <2>3, <3>1
    <3> QED  BY <2>1, <3>1, <3>2 DEF ControlInv, HolderInv
  <2> QED  BY <2>2, <2>3
<1> QED  BY <1>9, <1>10, <1>11, <1>12, <1>13, <1>14, <1>15 DEF ControlInv

-----------------------------------------------------------------------------
(* The broker's steps *)

\* A delivery leaves the coordinator as it was, but for the wire and what has arrived.
LEMMA DeliverKeeps ==
  ASSUME ControlInv, Deliver
  PROVE  ControlInv'
<1>1. SessionTypeOK /\ RestTypeOK /\ NumberInv
  BY DEF ControlInv
<1>2. /\ UNCHANGED <<sessionVars, transportVars, guardVars, calls, clientVars, left>>
      /\ wire # <<>> /\ wire' = Tail(wire)
  BY DEF Deliver
<1>3. wire' \in Seq(Gateways) /\ Head(wire) \in Gateways
  BY <1>1, <1>2 DEF RestTypeOK
<1>4. reached' \in [Gateways -> Nat]
  <2>1. reached' = [reached EXCEPT ![Head(wire)] = @ + 1] \/ reached' = reached
    BY DEF Deliver
  <2>2. reached \in [Gateways -> Nat]
    BY <1>1 DEF RestTypeOK
  <2> PICK g \in Gateways : g = Head(wire)
    BY <1>3
  <2>3. reached[g] + 1 \in Nat
    BY <2>2
  <2>4. reached' = [reached EXCEPT ![g] = reached[g] + 1] \/ reached' = reached
    BY <2>1
  <2> QED  BY <2>2, <2>3, <2>4
<1>5. SessionTypeOK'
  BY <1>1, <1>2 DEF SessionTypeOK, sessionVars
<1>6. RestTypeOK'
  BY <1>1, <1>2, <1>3, <1>4 DEF RestTypeOK, transportVars, guardVars
<1>7. RecordsSettle /\ CallsSettle
  BY <1>1, <1>2, SameRecordsSettle DEF CallsSettle, CallKept, sessionVars
<1> QED  BY <1>2, <1>5, <1>6, <1>7, SettlingStep DEF sessionVars, guardVars

\* So do the broker's questions and its clients.
LEMMA CoordinatorKept ==
  ASSUME ControlInv, UNCHANGED coordinatorVars, left' \in [Kinds -> Nat]
  PROVE  ControlInv'
<1>1. SessionTypeOK /\ RestTypeOK /\ NumberInv
  BY DEF ControlInv
<1>2. /\ UNCHANGED <<sessionVars, transportVars, guardVars, calls, wire, reached>>
  BY DEF coordinatorVars
<1>3. SessionTypeOK'
  BY <1>1, <1>2 DEF SessionTypeOK, sessionVars
<1>4. RestTypeOK'
  BY <1>1, <1>2 DEF RestTypeOK, transportVars, guardVars
<1>5. RecordsSettle /\ CallsSettle
  BY <1>1, <1>2, SameRecordsSettle DEF CallsSettle, CallKept, sessionVars
<1> QED  BY <1>2, <1>3, <1>4, <1>5, SettlingStep DEF sessionVars, guardVars

\* An increasing sequence has as many elements as it is long.
LEMMA IncreasingCardinality ==
  ASSUME NEW s \in Seq(Nat), Increasing(s)
  PROVE  /\ IsFiniteSet({s[i] : i \in DOMAIN s})
         /\ Cardinality({s[i] : i \in DOMAIN s}) = Len(s)
<1>1. Len(s) \in Nat /\ DOMAIN s = 1 .. Len(s) /\ \A i \in 1 .. Len(s) : s[i] \in Nat
  OBVIOUS
<1> PICK S : S = {s[i] : i \in DOMAIN s}
  OBVIOUS
<1> PICK f : f = [i \in 1 .. Len(s) |-> s[i]]
  OBVIOUS
<1>2. \A i, j \in 1 .. Len(s) : s[i] = s[j] => i = j
  BY <1>1 DEF Increasing
<1>3. f \in [1 .. Len(s) -> S] /\ IsInjective(f) /\ \A t \in S : \E i \in 1 .. Len(s) : f[i] = t
  BY <1>1, <1>2 DEF IsInjective
<1>4. ExistsBijection(1 .. Len(s), S)
  BY <1>3 DEF ExistsBijection, Bijection, Injection, Surjection
<1> QED  BY <1>1, <1>4, FS_CountingElements, FS_NatBijection

\* A part of an increasing sequence is increasing, of the same elements.
LEMMA IncreasingPart ==
  ASSUME NEW s \in Seq(Nat), Increasing(s), NEW m \in Nat \ {0}, NEW n \in Nat, n <= Len(s)
  PROVE  /\ SubSeq(s, m, n) \in Seq(Nat) /\ Increasing(SubSeq(s, m, n))
         /\ Len(SubSeq(s, m, n)) = IF m <= n THEN n - m + 1 ELSE 0
         /\ \A i \in 1 .. Len(SubSeq(s, m, n)) : m + i - 1 \in 1 .. Len(s) /\ SubSeq(s, m, n)[i] = s[m + i - 1]
<1> PICK t : t = SubSeq(s, m, n)
  OBVIOUS
<1>1. Len(s) \in Nat /\ \A i \in 1 .. Len(s) : s[i] \in Nat
  OBVIOUS
<1>2. \A i \in m .. n : s[i] \in Nat
  BY <1>1
<1>3. /\ t \in Seq(Nat) /\ Len(t) = IF m <= n THEN n - m + 1 ELSE 0
      /\ \A i \in 1 .. n - m + 1 : t[i] = s[m + i - 1]
  BY <1>2, SubSeqProperties
<1>4. \A i \in 1 .. Len(t) : m + i - 1 \in 1 .. Len(s) /\ t[i] = s[m + i - 1]
  BY <1>1, <1>3
<1>5. Increasing(t)
  <2> SUFFICES ASSUME NEW i \in 1 .. Len(t), NEW j \in 1 .. Len(t), i < j  PROVE t[i] < t[j]
    BY DEF Increasing
  <2>1. m + i - 1 \in 1 .. Len(s) /\ m + j - 1 \in 1 .. Len(s) /\ m + i - 1 < m + j - 1
    <3>1. i \in Nat /\ j \in Nat
      BY <1>3
    <3> QED  BY <1>4, <3>1
  <2>2. s[m + i - 1] < s[m + j - 1]
    BY <2>1 DEF Increasing
  <2> QED  BY <1>4, <2>2
<1> QED  BY <1>3, <1>4, <1>5

\* The front of an increasing sequence, and the rest of it, are increasing.
LEMMA IncreasingFront ==
  ASSUME NEW s \in Seq(Nat), Increasing(s), NEW n \in Nat, n <= Len(s)
  PROVE  /\ SubSeq(s, 1, n) \in Seq(Nat) /\ Increasing(SubSeq(s, 1, n)) /\ Len(SubSeq(s, 1, n)) = n
         /\ \A i \in 1 .. n : i \in 1 .. Len(s) /\ SubSeq(s, 1, n)[i] = s[i]
<1>1. PICK m \in Nat \ {0} : m = 1
  OBVIOUS
<1>2. PICK t : t = SubSeq(s, m, n)
  OBVIOUS
<1>3. /\ SubSeq(s, m, n) \in Seq(Nat) /\ Increasing(SubSeq(s, m, n))
      /\ Len(SubSeq(s, m, n)) = IF m <= n THEN n - m + 1 ELSE 0
      /\ \A i \in 1 .. Len(SubSeq(s, m, n)) : m + i - 1 \in 1 .. Len(s) /\ SubSeq(s, m, n)[i] = s[m + i - 1]
  BY IncreasingPart
<1>4. /\ t \in Seq(Nat) /\ Increasing(t) /\ Len(t) = IF m <= n THEN n - m + 1 ELSE 0
      /\ \A i \in 1 .. Len(t) : m + i - 1 \in 1 .. Len(s) /\ t[i] = s[m + i - 1]
  BY <1>2, <1>3
<1>5. Len(t) = n
  BY <1>1, <1>4
<1>6. \A i \in 1 .. n : i \in 1 .. Len(s) /\ t[i] = s[i]
  <2> SUFFICES ASSUME NEW i \in 1 .. n  PROVE i \in 1 .. Len(s) /\ t[i] = s[i]
    OBVIOUS
  <2>1. m + i - 1 = i
    BY <1>1
  <2> QED  BY <1>4, <1>5, <2>1
<1> QED  BY <1>1, <1>2, <1>4, <1>5, <1>6

\* And so is the rest of it.
LEMMA IncreasingRest ==
  ASSUME NEW s \in Seq(Nat), Increasing(s), NEW n \in Nat, n <= Len(s)
  PROVE  /\ SubSeq(s, n + 1, Len(s)) \in Seq(Nat) /\ Increasing(SubSeq(s, n + 1, Len(s)))
         /\ Len(SubSeq(s, n + 1, Len(s))) = Len(s) - n
         /\ \A i \in 1 .. Len(s) - n : n + i \in 1 .. Len(s) /\ SubSeq(s, n + 1, Len(s))[i] = s[n + i]
<1>1. PICK m \in Nat \ {0} : m = n + 1
  OBVIOUS
<1>2. PICK l \in Nat : l = Len(s)
  OBVIOUS
<1>3. PICK t : t = SubSeq(s, m, l)
  OBVIOUS
<1>4. l <= Len(s)
  BY <1>2
<1>5. /\ SubSeq(s, m, l) \in Seq(Nat) /\ Increasing(SubSeq(s, m, l))
      /\ Len(SubSeq(s, m, l)) = IF m <= l THEN l - m + 1 ELSE 0
      /\ \A i \in 1 .. Len(SubSeq(s, m, l)) : m + i - 1 \in 1 .. Len(s) /\ SubSeq(s, m, l)[i] = s[m + i - 1]
  BY <1>4, IncreasingPart
<1>6. /\ t \in Seq(Nat) /\ Increasing(t) /\ Len(t) = IF m <= l THEN l - m + 1 ELSE 0
      /\ \A i \in 1 .. Len(t) : m + i - 1 \in 1 .. Len(s) /\ t[i] = s[m + i - 1]
  BY <1>3, <1>5
<1>7. n <= l
  BY <1>2
<1>8. Len(t) = l - n
  <2>1. Len(t) = IF m <= l THEN l - m + 1 ELSE 0
    BY <1>6
  <2> QED  BY <1>1, <1>7, <2>1
<1>9. \A i \in 1 .. l - n : n + i \in 1 .. Len(s) /\ t[i] = s[n + i]
  <2> SUFFICES ASSUME NEW i \in 1 .. l - n  PROVE n + i \in 1 .. Len(s) /\ t[i] = s[n + i]
    OBVIOUS
  <2>1. m + i - 1 = n + i
    BY <1>1
  <2> QED  BY <1>6, <1>8, <2>1
<1>10. t = SubSeq(s, n + 1, Len(s))
  BY <1>1, <1>2, <1>3
<1>11. Len(t) = Len(s) - n /\ \A i \in 1 .. Len(s) - n : n + i \in 1 .. Len(s) /\ t[i] = s[n + i]
  BY <1>2, <1>8, <1>9
<1>12. t \in Seq(Nat) /\ Increasing(t)
  BY <1>6
<1> QED  BY <1>10, <1>11, <1>12

\* Two increasing sequences, one before the other, make one.
LEMMA IncreasingBoth ==
  ASSUME NEW s \in Seq(Nat), NEW t \in Seq(Nat), Increasing(s), Increasing(t),
         \A i \in 1 .. Len(s), j \in 1 .. Len(t) : s[i] < t[j]
  PROVE  /\ s \o t \in Seq(Nat) /\ Increasing(s \o t) /\ Len(s \o t) = Len(s) + Len(t)
         /\ \A i \in 1 .. Len(s \o t) : \/ \E k \in 1 .. Len(s) : (s \o t)[i] = s[k]
                                        \/ \E k \in 1 .. Len(t) : (s \o t)[i] = t[k]
<1> PICK u : u = s \o t
  OBVIOUS
<1> PICK m \in Nat : m = Len(s)
  OBVIOUS
<1> PICK n \in Nat : n = Len(t)
  OBVIOUS
<1>1. /\ u \in Seq(Nat) /\ Len(u) = m + n
      /\ \A i \in 1 .. m + n : u[i] = IF i <= m THEN s[i] ELSE t[i - m]
  BY ConcatProperties
<1>2. ASSUME NEW i \in 1 .. m + n
      PROVE  \/ i \in 1 .. m /\ u[i] = s[i]
             \/ i > m /\ i - m \in 1 .. n /\ u[i] = t[i - m]
  <2>1. CASE i <= m
    BY <1>1, <2>1
  <2>2. CASE ~(i <= m)
    <3>1. i > m /\ i - m \in 1 .. n
      BY <2>2
    <3> QED  BY <1>1, <2>2, <3>1
  <2> QED  BY <2>1, <2>2
<1>3. ASSUME NEW i \in 1 .. m + n, NEW j \in 1 .. m + n, i < j  PROVE u[i] < u[j]
  <2>1. CASE i \in 1 .. m /\ u[i] = s[i] /\ j \in 1 .. m /\ u[j] = s[j]
    BY <1>3, <2>1 DEF Increasing
  <2>2. CASE i \in 1 .. m /\ u[i] = s[i] /\ j - m \in 1 .. n /\ u[j] = t[j - m]
    BY <2>2
  <2>3. CASE i - m \in 1 .. n /\ u[i] = t[i - m] /\ j - m \in 1 .. n /\ u[j] = t[j - m]
    <3>1. i - m < j - m
      BY <1>3
    <3> QED  BY <2>3, <3>1 DEF Increasing
  <2>4. ~(i > m /\ j \in 1 .. m)
    BY <1>3
  <2> QED  BY <1>2, <2>1, <2>2, <2>3, <2>4
<1>4. \A i \in 1 .. m + n : \/ \E k \in 1 .. m : u[i] = s[k]
                            \/ \E k \in 1 .. n : u[i] = t[k]
  BY <1>2
<1> QED  BY <1>1, <1>3, <1>4 DEF Increasing

\* The audit's records stay numbered in order, and each is accounted for, whatever the audit does.
LEMMA EnqueueKeeps ==
  ASSUME BrokerAssumption, AuditTypeOK, AuditInv, NEW result, NEW topic, Audit(result, topic)
  PROVE  AuditTypeOK' /\ AuditInv'
<1>1. CASE UNCHANGED auditVars
  BY <1>1 DEF auditVars, AuditTypeOK, AuditInv, AuditAccounted, Increasing
<1>2. CASE ~UNCHANGED auditVars
  <2>0. PICK kept : kept = IF Len(buffer) >= Capacity THEN Tail(buffer) ELSE buffer
    OBVIOUS
  <2>1. /\ asked' = asked + 1 /\ buffer' = Append(kept, asked + 1)
        /\ dropped' = IF Len(buffer) >= Capacity THEN dropped + 1 ELSE dropped
        /\ UNCHANGED <<database, flying, stored>>
    BY <1>2, <2>0 DEF Audit
  <2>2. /\ asked \in Nat /\ dropped \in Nat /\ buffer \in Seq(Nat) /\ flying \in Seq(Nat)
        /\ Len(buffer) \in Nat /\ Len(flying) \in Nat /\ Capacity \in Nat \ {0}
        /\ Len(buffer) <= Capacity
        /\ stored \subseteq 1 .. asked /\ Increasing(buffer) /\ Increasing(flying)
        /\ \A i \in 1 .. Len(buffer) : buffer[i] \in 1 .. asked
        /\ \A i \in 1 .. Len(flying) : flying[i] \in 1 .. asked
    BY DEF AuditTypeOK, AuditInv, AuditAccounted, BrokerAssumption
  <2>3. /\ kept \in Seq(Nat) /\ Increasing(kept) /\ Len(kept) \in Nat
        /\ Len(kept) = IF Len(buffer) >= Capacity THEN Len(buffer) - 1 ELSE Len(buffer)
        /\ \A i \in 1 .. Len(kept) : \E j \in 1 .. Len(buffer) : kept[i] = buffer[j]
    <3>1. CASE Len(buffer) >= Capacity
      <4>1. buffer # <<>> /\ kept = Tail(buffer)
        BY <2>0, <2>2, <3>1
      <4>2. /\ kept \in Seq(Nat) /\ Len(kept) = Len(buffer) - 1
            /\ \A i \in 1 .. Len(kept) : kept[i] = buffer[i + 1]
        BY <2>2, <4>1, HeadTailProperties
      <4>3. Len(kept) \in Nat
        BY <4>2
      <4>4. \A i \in 1 .. Len(kept) : i \in Nat /\ i + 1 \in 1 .. Len(buffer)
        BY <2>2, <4>2, <4>3
      <4>5. Increasing(kept)
        <5> SUFFICES ASSUME NEW i \in 1 .. Len(kept), NEW j \in 1 .. Len(kept), i < j  PROVE kept[i] < kept[j]
          BY DEF Increasing
        <5>1. i + 1 \in 1 .. Len(buffer) /\ j + 1 \in 1 .. Len(buffer) /\ i + 1 < j + 1
          BY <4>4
        <5>2. buffer[i + 1] < buffer[j + 1]
          BY <2>2, <5>1 DEF Increasing
        <5> QED  BY <4>2, <5>2
      <4> QED  BY <3>1, <4>2, <4>3, <4>4, <4>5
    <3>2. CASE ~(Len(buffer) >= Capacity)
      <4>1. kept = buffer
        BY <2>0, <3>2
      <4> QED  BY <2>2, <3>2, <4>1
    <3> QED  BY <3>1, <3>2
  <2>4. \A i \in 1 .. Len(kept) : kept[i] \in 1 .. asked
    BY <2>2, <2>3
  <2>5. /\ buffer' \in Seq(Nat) /\ Len(buffer') = Len(kept) + 1
        /\ \A i \in 1 .. Len(kept) : buffer'[i] = kept[i]
        /\ buffer'[Len(kept) + 1] = asked + 1
    <3> PICK n \in Nat : n = asked + 1
      BY <2>2
    <3>1. buffer' = Append(kept, n) /\ kept \in Seq(Nat)
      BY <2>1, <2>3
    <3>2. /\ Append(kept, n) \in Seq(Nat) /\ Len(Append(kept, n)) = Len(kept) + 1
          /\ \A i \in 1 .. Len(kept) : Append(kept, n)[i] = kept[i]
          /\ Append(kept, n)[Len(kept) + 1] = n
      BY <3>1, AppendProperties
    <3> QED  BY <3>1, <3>2
  <2>6. Len(buffer') <= Capacity /\ Len(buffer') + dropped' = Len(buffer) + dropped + 1
    <3>1. Len(buffer') = Len(kept) + 1
      BY <2>5
    <3>2. CASE Len(buffer) >= Capacity
      <4>1. dropped' = dropped + 1 /\ Len(kept) = Len(buffer) - 1
        BY <2>1, <2>3, <3>2
      <4>2. Len(buffer') = Len(buffer)
        BY <2>2, <3>1, <4>1
      <4>3. dropped \in Nat /\ Len(buffer) \in Nat /\ Len(buffer) <= Capacity
        BY <2>2
      <4>4. Len(buffer) + (dropped + 1) = Len(buffer) + dropped + 1
        BY <4>3
      <4> QED  BY <4>1, <4>2, <4>3, <4>4
    <3>3. CASE ~(Len(buffer) >= Capacity)
      <4>1. dropped' = dropped /\ Len(kept) = Len(buffer)
        BY <2>1, <2>3, <3>3
      <4> QED  BY <2>2, <3>1, <3>3, <4>1
    <3> QED  BY <3>2, <3>3
  <2>7. \A i \in 1 .. Len(buffer') : \/ i \in 1 .. Len(kept) /\ buffer'[i] = kept[i]
                                     \/ i = Len(kept) + 1 /\ buffer'[i] = asked + 1
    <3> SUFFICES ASSUME NEW i \in 1 .. Len(buffer')
                 PROVE  \/ i \in 1 .. Len(kept) /\ buffer'[i] = kept[i]
                        \/ i = Len(kept) + 1 /\ buffer'[i] = asked + 1
      OBVIOUS
    <3>1. i \in 1 .. Len(kept) \/ i = Len(kept) + 1
      BY <2>3, <2>5
    <3> QED  BY <2>5, <3>1
  <2>8. Increasing(buffer')
    <3> SUFFICES ASSUME NEW i \in 1 .. Len(buffer'), NEW j \in 1 .. Len(buffer'), i < j
                 PROVE  buffer'[i] < buffer'[j]
      BY DEF Increasing
    <3>1. i \in 1 .. Len(kept) /\ buffer'[i] = kept[i] /\ kept[i] \in 1 .. asked
      BY <2>3, <2>4, <2>5, <2>7
    <3>2. CASE j \in 1 .. Len(kept) /\ buffer'[j] = kept[j]
      BY <2>3, <3>1, <3>2 DEF Increasing
    <3>3. CASE buffer'[j] = asked + 1
      BY <2>2, <3>1, <3>3
    <3> QED  BY <2>7, <3>2, <3>3
  <2>9. \A i \in 1 .. Len(buffer') : \/ buffer'[i] = asked + 1
                                     \/ \E j \in 1 .. Len(buffer) : buffer'[i] = buffer[j]
    BY <2>3, <2>7
  <2>10. AuditTypeOK'
    <3>1. asked + 1 \in Nat /\ dropped' \in Nat /\ 1 .. asked \subseteq 1 .. asked + 1
      BY <2>1, <2>2
    <3>2. database \in BOOLEAN
      BY DEF AuditTypeOK
    <3>3. stored' \subseteq 1 .. asked'
      BY <2>1, <2>2, <3>1
    <3> QED  BY <2>1, <2>2, <2>5, <3>1, <3>2, <3>3 DEF AuditTypeOK
  <2>11. \A i \in 1 .. Len(flying'), j \in 1 .. Len(buffer') : flying'[i] < buffer'[j]
    <3> SUFFICES ASSUME NEW i \in 1 .. Len(flying), NEW j \in 1 .. Len(buffer')  PROVE flying[i] < buffer'[j]
      BY <2>1
    <3>1. CASE buffer'[j] = asked + 1
      BY <2>2, <3>1
    <3>2. CASE \E k \in 1 .. Len(buffer) : buffer'[j] = buffer[k]
      BY <3>2 DEF AuditInv
    <3> QED  BY <2>9, <3>1, <3>2
  <2>12. \A n \in stored : \A j \in 1 .. Len(buffer') : n < buffer'[j]
    <3> SUFFICES ASSUME NEW n \in stored, NEW j \in 1 .. Len(buffer')  PROVE n < buffer'[j]
      OBVIOUS
    <3>1. CASE buffer'[j] = asked + 1
      <4>1. n \in 1 .. asked
        BY <2>2
      <4> QED  BY <2>2, <3>1, <4>1
    <3>2. CASE \E k \in 1 .. Len(buffer) : buffer'[j] = buffer[k]
      BY <3>2 DEF AuditInv
    <3> QED  BY <2>9, <3>1, <3>2
  <2>13. \A i \in 1 .. Len(buffer') : buffer'[i] \in 1 .. asked'
    <3>1. \A k \in 1 .. asked : k \in 1 .. asked + 1
      BY <2>2
    <3>2. asked + 1 \in 1 .. asked + 1
      BY <2>2
    <3>3. \A i \in 1 .. Len(kept) : kept[i] \in 1 .. asked + 1
      BY <2>4, <3>1
    <3> QED  BY <2>1, <2>7, <3>2, <3>3
  <2>14. \A i \in 1 .. Len(flying') : flying'[i] \in 1 .. asked'
    BY <2>1, <2>2
  <2>15. AuditAccounted'
    <3>1. asked = Cardinality(stored) + Len(buffer) + Len(flying) + dropped /\ Cardinality(stored) \in Nat
      <4>1. IsFiniteSet(1 .. asked)
        BY <2>2, FS_Interval
      <4>2. IsFiniteSet(stored)
        BY <2>2, <4>1, FS_Subset
      <4> QED  BY <4>2, FS_CardinalityType DEF AuditInv, AuditAccounted
    <3>2. Len(buffer') \in Nat /\ dropped' \in Nat
      BY <2>1, <2>2, <2>3, <2>5
    <3>3. asked' = Cardinality(stored') + Len(buffer') + Len(flying') + dropped'
      <4>1. Cardinality(stored') = Cardinality(stored) /\ Len(flying') = Len(flying) /\ asked' = asked + 1
        BY <2>1
      <4>2. Len(buffer') + dropped' = Len(buffer) + dropped + 1
        BY <2>6
      <4>3. Len(buffer) \in Nat /\ Len(flying) \in Nat /\ dropped \in Nat
        BY <2>2
      <4>4. Cardinality(stored) + Len(buffer) + Len(flying) + dropped + 1
              = Cardinality(stored) + Len(buffer') + Len(flying) + dropped'
        <5>1. PICK n \in Nat : n = Cardinality(stored)
          BY <3>1
        <5>2. n + Len(buffer) + Len(flying) + dropped + 1 = n + Len(buffer') + Len(flying) + dropped'
          BY <3>2, <4>2, <4>3
        <5> QED  BY <5>1, <5>2
      <4> QED  BY <3>1, <4>1, <4>4
    <3> QED  BY <2>6, <3>3 DEF AuditAccounted
  <2>16. \A n \in stored' : \A i \in 1 .. Len(flying') : n < flying'[i]
    BY <2>1 DEF AuditInv
  <2>17. Increasing(flying')
    BY <2>1, <2>2
  <2>18. stored' = stored
    BY <2>1
  <2> QED  BY <2>8, <2>10, <2>11, <2>12, <2>13, <2>14, <2>15, <2>16, <2>17, <2>18 DEF AuditInv
<1> QED  BY <1>1, <1>2

\* What the invariant says of the audit in one place, for the provers' sake.
LEMMA AuditFacts ==
  ASSUME BrokerAssumption, AuditTypeOK, AuditInv
  PROVE  /\ asked \in Nat /\ dropped \in Nat /\ buffer \in Seq(Nat) /\ flying \in Seq(Nat)
         /\ Len(buffer) \in Nat /\ Len(flying) \in Nat /\ Capacity \in Nat \ {0} /\ BatchSize \in Nat \ {0}
         /\ Len(buffer) <= Capacity
         /\ stored \subseteq 1 .. asked /\ IsFiniteSet(stored) /\ Cardinality(stored) \in Nat
         /\ Increasing(buffer) /\ Increasing(flying)
         /\ \A i \in 1 .. Len(buffer) : buffer[i] \in 1 .. asked
         /\ \A i \in 1 .. Len(flying) : flying[i] \in 1 .. asked
         /\ \A i \in 1 .. Len(flying), j \in 1 .. Len(buffer) : flying[i] < buffer[j]
         /\ \A n \in stored : /\ \A i \in 1 .. Len(flying) : n < flying[i]
                              /\ \A i \in 1 .. Len(buffer) : n < buffer[i]
         /\ asked = Cardinality(stored) + Len(buffer) + Len(flying) + dropped
<1>1. IsFiniteSet(1 .. asked)
  BY FS_Interval DEF AuditTypeOK
<1>2. IsFiniteSet(stored) /\ Cardinality(stored) \in Nat
  BY <1>1, FS_Subset, FS_CardinalityType DEF AuditTypeOK
<1>3. /\ asked \in Nat /\ dropped \in Nat /\ buffer \in Seq(Nat) /\ flying \in Seq(Nat)
      /\ Len(buffer) \in Nat /\ Len(flying) \in Nat /\ Capacity \in Nat \ {0} /\ BatchSize \in Nat \ {0}
      /\ stored \subseteq 1 .. asked
  BY DEF AuditTypeOK, BrokerAssumption
<1> QED  BY <1>2, <1>3 DEF AuditInv, AuditAccounted

\* A batch is taken from the front of the buffer.
LEMMA FlushKeeps ==
  ASSUME BrokerAssumption, AuditTypeOK, AuditInv, Flush
  PROVE  AuditTypeOK' /\ AuditInv'
<1>1. /\ asked \in Nat /\ buffer \in Seq(Nat) /\ Len(buffer) \in Nat /\ Increasing(buffer) /\ Len(buffer) <= Capacity
      /\ Capacity \in Nat /\ BatchSize \in Nat
  BY AuditFacts
<1>2. PICK n \in Nat : n <= Len(buffer) /\ n = IF Len(buffer) < BatchSize THEN Len(buffer) ELSE BatchSize
  <2>1. CASE Len(buffer) < BatchSize
    BY <1>1, <2>1
  <2>2. CASE ~(Len(buffer) < BatchSize)
    BY <1>1, <2>2
  <2> QED  BY <2>1, <2>2
<1>3. /\ flying = <<>> /\ UNCHANGED <<database, asked, stored, dropped>>
      /\ flying' = SubSeq(buffer, 1, n) /\ buffer' = SubSeq(buffer, n + 1, Len(buffer))
  BY <1>2 DEF Flush
<1>4. n <= Len(buffer)
  BY <1>2
<1>5. /\ flying' \in Seq(Nat) /\ Increasing(flying') /\ Len(flying') = n
      /\ \A i \in 1 .. n : i \in 1 .. Len(buffer) /\ flying'[i] = buffer[i]
  BY <1>1, <1>3, <1>4, IncreasingFront
<1>6. /\ buffer' \in Seq(Nat) /\ Increasing(buffer') /\ Len(buffer') = Len(buffer) - n
      /\ \A i \in 1 .. Len(buffer) - n : n + i \in 1 .. Len(buffer) /\ buffer'[i] = buffer[n + i]
  BY <1>1, <1>3, <1>4, IncreasingRest
<1>7. AuditTypeOK'
  BY <1>3, <1>5, <1>6 DEF AuditTypeOK
<1>8. \A i \in 1 .. Len(flying'), j \in 1 .. Len(buffer') : flying'[i] < buffer'[j]
  <2> SUFFICES ASSUME NEW i \in 1 .. n, NEW j \in 1 .. Len(buffer) - n  PROVE flying'[i] < buffer'[j]
    BY <1>5, <1>6
  <2>1. i < n + j
    BY <1>1
  <2>2. buffer[i] < buffer[n + j]
    BY <1>1, <1>5, <1>6, <2>1 DEF Increasing
  <2> QED  BY <1>5, <1>6, <2>2
<1>9. \A k \in stored : /\ \A i \in 1 .. Len(flying') : k < flying'[i]
                        /\ \A i \in 1 .. Len(buffer') : k < buffer'[i]
  BY <1>5, <1>6 DEF AuditInv
<1>10. /\ \A i \in 1 .. Len(flying') : flying'[i] \in 1 .. asked
       /\ \A i \in 1 .. Len(buffer') : buffer'[i] \in 1 .. asked
  BY <1>5, <1>6 DEF AuditInv
<1>11. AuditAccounted'
  <2>1. Cardinality(stored) \in Nat /\ dropped \in Nat
        /\ asked = Cardinality(stored) + Len(buffer) + Len(flying) + dropped
    BY AuditFacts
  <2>2. Len(flying) = 0
    BY <1>3
  <2>3. Len(buffer') <= Capacity
    BY <1>1, <1>4, <1>6
  <2>4. asked = Cardinality(stored) + (Len(buffer) - n) + n + dropped
    BY <1>1, <2>1, <2>2
  <2> QED  BY <1>3, <1>5, <1>6, <2>3, <2>4 DEF AuditAccounted
<1> QED  BY <1>3, <1>5, <1>6, <1>7, <1>8, <1>9, <1>10, <1>11 DEF AuditInv

\* The batch is in the database.
LEMMA FlushedKeeps ==
  ASSUME BrokerAssumption, AuditTypeOK, AuditInv, Flushed
  PROVE  AuditTypeOK' /\ AuditInv'
<1> PICK S : S = {flying[i] : i \in DOMAIN flying}
  OBVIOUS
<1>1. /\ asked \in Nat /\ dropped \in Nat /\ buffer \in Seq(Nat) /\ flying \in Seq(Nat)
      /\ Len(buffer) \in Nat /\ Len(flying) \in Nat /\ Len(buffer) <= Capacity
      /\ stored \subseteq 1 .. asked /\ IsFiniteSet(stored) /\ Cardinality(stored) \in Nat
      /\ Increasing(buffer) /\ Increasing(flying)
  BY AuditFacts
<1>2. stored' = stored \cup S /\ flying' = <<>> /\ UNCHANGED <<database, asked, buffer, dropped>>
  BY DEF Flushed
<1>3. \A x \in S : \E i \in 1 .. Len(flying) : x = flying[i]
  BY <1>1
<1>4. stored \cap S = {}
  <2> SUFFICES ASSUME NEW x \in stored, x \in S  PROVE FALSE
    OBVIOUS
  <2> PICK i \in 1 .. Len(flying) : x = flying[i]
    BY <1>3
  <2>1. x < x
    BY DEF AuditInv
  <2>2. x \in Nat
    BY <1>1
  <2> QED  BY <2>1, <2>2
<1>5. IsFiniteSet(S) /\ Cardinality(S) = Len(flying)
  BY <1>1, IncreasingCardinality
<1>6. Cardinality(stored') = Cardinality(stored) + Len(flying)
  <2>1. Cardinality(stored \cup S) = Cardinality(stored) + Cardinality(S) - Cardinality(stored \cap S)
    BY <1>1, <1>5, FS_Union
  <2>2. Cardinality(stored \cap S) = 0
    BY <1>4, FS_EmptySet
  <2> QED  BY <1>1, <1>2, <1>5, <2>1, <2>2
<1>7. \A x \in S : x \in 1 .. asked /\ \A j \in 1 .. Len(buffer) : x < buffer[j]
  BY <1>3 DEF AuditInv
<1>8. AuditTypeOK'
  <2>1. stored' \subseteq 1 .. asked
    BY <1>1, <1>2, <1>7
  <2>2. flying' \in Seq(Nat)
    BY <1>2
  <2> QED  BY <1>2, <2>1, <2>2 DEF AuditTypeOK
<1>9. Len(flying') = 0
  BY <1>2
<1>10. AuditAccounted'
  <2>1. asked = Cardinality(stored) + Len(buffer) + Len(flying) + dropped
    BY AuditFacts
  <2> QED  BY <1>1, <1>2, <1>6, <1>9, <2>1 DEF AuditAccounted
<1>11. \A n \in stored' : \A j \in 1 .. Len(buffer) : n < buffer[j]
  BY <1>2, <1>7 DEF AuditInv
<1>12. \A i \in 1 .. Len(buffer) : buffer[i] \in 1 .. asked
  BY DEF AuditInv
<1> QED  BY <1>1, <1>2, <1>8, <1>9, <1>10, <1>11, <1>12 DEF AuditInv, Increasing

\* Of a batch that could not be written the newest go back to the front of the buffer.
LEMMA FlushFailsKeeps ==
  ASSUME BrokerAssumption, AuditTypeOK, AuditInv, FlushFails
  PROVE  AuditTypeOK' /\ AuditInv'
<1>1. /\ asked \in Nat /\ dropped \in Nat /\ buffer \in Seq(Nat) /\ flying \in Seq(Nat)
      /\ Len(buffer) \in Nat /\ Len(flying) \in Nat /\ Capacity \in Nat /\ Len(buffer) <= Capacity
      /\ Increasing(buffer) /\ Increasing(flying)
  BY AuditFacts
<1>2. PICK free : free = IF Len(buffer) < Capacity THEN Capacity - Len(buffer) ELSE 0
  OBVIOUS
<1>3. PICK lost : lost = IF Len(flying) > free THEN Len(flying) - free ELSE 0
  OBVIOUS
<1>4. /\ lost \in Nat /\ lost <= Len(flying) /\ Len(buffer) + (Len(flying) - lost) <= Capacity
      /\ (IF Len(flying) > free THEN Len(flying) - free + 1 ELSE 1) = lost + 1
  <2>1. free \in Nat /\ Len(buffer) + free = Capacity
    <3>1. CASE Len(buffer) < Capacity
      BY <1>1, <1>2, <3>1
    <3>2. CASE ~(Len(buffer) < Capacity)
      BY <1>1, <1>2, <3>2
    <3> QED  BY <3>1, <3>2
  <2>2. CASE Len(flying) > free
    <3>1. lost = Len(flying) - free
      BY <1>3, <2>2
    <3> QED  BY <1>1, <2>1, <2>2, <3>1
  <2>3. CASE ~(Len(flying) > free)
    <3>1. lost = 0
      BY <1>3, <2>3
    <3> QED  BY <1>1, <2>1, <2>3, <3>1
  <2> QED  BY <2>2, <2>3
<1>5. PICK back : back = SubSeq(flying, lost + 1, Len(flying))
  OBVIOUS
<1>6. /\ buffer' = back \o buffer /\ dropped' = dropped + lost
      /\ flying' = <<>> /\ UNCHANGED <<database, asked, stored>>
  <2>1. Restored(free) = back
    BY <1>4, <1>5 DEF Restored
  <2>2. /\ buffer' = Restored(free) \o buffer /\ dropped' = dropped + lost
        /\ flying' = <<>> /\ UNCHANGED <<database, asked, stored>>
    BY <1>2, <1>3 DEF FlushFails
  <2> QED  BY <2>1, <2>2
<1>7. /\ back \in Seq(Nat) /\ Increasing(back) /\ Len(back) = Len(flying) - lost
      /\ \A i \in 1 .. Len(flying) - lost : lost + i \in 1 .. Len(flying) /\ back[i] = flying[lost + i]
  <2>1. lost \in Nat /\ lost <= Len(flying) /\ flying \in Seq(Nat) /\ Increasing(flying)
    BY <1>1, <1>4
  <2>2. /\ SubSeq(flying, lost + 1, Len(flying)) \in Seq(Nat)
        /\ Increasing(SubSeq(flying, lost + 1, Len(flying)))
        /\ Len(SubSeq(flying, lost + 1, Len(flying))) = Len(flying) - lost
        /\ \A i \in 1 .. Len(flying) - lost :
             /\ lost + i \in 1 .. Len(flying)
             /\ SubSeq(flying, lost + 1, Len(flying))[i] = flying[lost + i]
    BY <2>1, IncreasingRest
  <2> QED  BY <1>5, <2>2
<1>8. \A i \in 1 .. Len(back), j \in 1 .. Len(buffer) : back[i] < buffer[j]
  BY <1>7 DEF AuditInv
<1>9. /\ buffer' \in Seq(Nat) /\ Increasing(buffer') /\ Len(buffer') = Len(back) + Len(buffer)
      /\ \A i \in 1 .. Len(buffer') : \/ \E k \in 1 .. Len(back) : buffer'[i] = back[k]
                                      \/ \E k \in 1 .. Len(buffer) : buffer'[i] = buffer[k]
  <2>1. back \in Seq(Nat) /\ Increasing(back)
    BY <1>7
  <2>2. /\ back \o buffer \in Seq(Nat) /\ Increasing(back \o buffer)
        /\ Len(back \o buffer) = Len(back) + Len(buffer)
        /\ \A i \in 1 .. Len(back \o buffer) : \/ \E k \in 1 .. Len(back) : (back \o buffer)[i] = back[k]
                                               \/ \E k \in 1 .. Len(buffer) : (back \o buffer)[i] = buffer[k]
    BY <1>1, <1>8, <2>1, IncreasingBoth
  <2> QED  BY <1>6, <2>2
<1>10. \A k \in 1 .. Len(back) : back[k] \in 1 .. asked /\ \A m \in stored : m < back[k]
  BY <1>7 DEF AuditInv
<1>11. \A i \in 1 .. Len(buffer') : buffer'[i] \in 1 .. asked /\ \A m \in stored : m < buffer'[i]
  BY <1>9, <1>10 DEF AuditInv
<1>12. flying' \in Seq(Nat) /\ Len(flying') = 0
  BY <1>6
<1>13. AuditTypeOK'
  <2>1. dropped' \in Nat
    BY <1>1, <1>4, <1>6
  <2> QED  BY <1>6, <1>9, <1>12, <2>1 DEF AuditTypeOK
<1>14. AuditAccounted'
  <2>1. asked = Cardinality(stored) + Len(buffer) + Len(flying) + dropped /\ Cardinality(stored) \in Nat
    BY AuditFacts
  <2>2. Len(buffer') = Len(flying) - lost + Len(buffer) /\ Len(buffer') <= Capacity
    <3>1. Len(buffer') = Len(back) + Len(buffer) /\ Len(back) = Len(flying) - lost
      BY <1>7, <1>9
    <3>2. lost \in Nat /\ Len(buffer) + (Len(flying) - lost) <= Capacity
      BY <1>4
    <3> QED  BY <1>1, <3>1, <3>2
  <2>3. asked = Cardinality(stored) + Len(buffer') + Len(flying') + dropped'
    <3>1. lost \in Nat /\ dropped' = dropped + lost
      BY <1>4, <1>6
    <3>2. Len(buffer') + dropped' = Len(buffer) + Len(flying) + dropped
      BY <1>1, <2>2, <3>1
    <3>3. Len(buffer') \in Nat /\ dropped' \in Nat
      BY <1>1, <1>9, <3>1
    <3>4. asked = Cardinality(stored) + (Len(buffer') + dropped')
      BY <1>1, <2>1, <3>2
    <3> QED  BY <1>12, <2>1, <3>3, <3>4
  <2> QED  BY <1>6, <2>2, <2>3 DEF AuditAccounted
<1> QED  BY <1>6, <1>9, <1>11, <1>12, <1>13, <1>14 DEF AuditInv, Increasing

\* The broker's question is audited, and subscribes only gateways.
LEMMA AskKeeps ==
  ASSUME BrokerAssumption, ClientTypeOK, AuditTypeOK, AuditInv, NEW r, NEW active, Ask(r, active),
         r.topic.sn \in Gateways
  PROVE  ClientTypeOK' /\ AuditTypeOK' /\ AuditInv'
<1>1. AuditTypeOK' /\ AuditInv'
  BY EnqueueKeeps DEF Ask
<1> PICK down : down = [sn |-> r.user, craft |-> FALSE, suffix |-> "drc/down"]
  OBVIOUS
<1>2. /\ UNCHANGED <<enabled, attached>>
      /\ subscribed' = subscribed \/ (subscribed' = subscribed \cup {r.user} /\ r.topic = down)
  BY DEF Ask
<1>3. subscribed' \subseteq Gateways
  <2>1. down.sn = r.user
    OBVIOUS
  <2> QED  BY <1>2, <2>1 DEF ClientTypeOK
<1> QED  BY <1>1, <1>2, <1>3 DEF ClientTypeOK

\* Every action of the broker keeps the coordinator as it is.
LEMMA BrokerKeeps ==
  ASSUME BrokerAssumption, IInv, \/ \E g \in Gateways : Subscribe(g)
                                 \/ AskOther
                                 \/ Broker
  PROVE  IInv'
<1>1. UNCHANGED coordinatorVars
  BY DEF Subscribe, AskOther, Broker
<1>2. RestTypeOK
  BY DEF IInv, ControlInv
<1>3. left' \in [Kinds -> Nat]
  BY <1>2, SpendIsTyped
     DEF RestTypeOK, Subscribe, AskOther, Broker, BrokerStep, Flush, Flushed, FlushFails, Attach, Detach, Disable, Kinds
<1>4. ControlInv'
  BY <1>1, <1>3, CoordinatorKept DEF IInv
<1>5. ClientTypeOK' /\ AuditTypeOK' /\ AuditInv'
  <2>1. ASSUME NEW g \in Gateways, Subscribe(g)  PROVE ClientTypeOK' /\ AuditTypeOK' /\ AuditInv'
    <3>1. Ask(Subscription(g), Active(g)) /\ Subscription(g).topic.sn = g
      BY <2>1 DEF Subscribe, Subscription
    <3> QED  BY <3>1, AskKeeps DEF IInv
  <2>2. CASE AskOther
    <3>1. PICK r \in Requests : Ask(r, Active(r.topic.sn))
      BY <2>2 DEF AskOther
    <3>2. r.topic.sn \in Gateways
      BY DEF Requests, Topics
    <3> QED  BY <3>1, <3>2, AskKeeps DEF IInv
  <2>3. CASE Flush \/ Flushed \/ FlushFails
    <3>1. UNCHANGED clientVars
      BY <2>3 DEF Flush, Flushed, FlushFails
    <3> QED  BY <2>3, <3>1, FlushKeeps, FlushedKeeps, FlushFailsKeeps DEF IInv, clientVars, ClientTypeOK
  <2>4. ASSUME NEW g \in Gateways, Attach(g) \/ Detach(g) \/ Disable(g)
        PROVE  ClientTypeOK' /\ AuditTypeOK' /\ AuditInv'
    <3>1. UNCHANGED auditVars
      BY <2>4 DEF Attach, Detach, Disable
    <3>2. AuditTypeOK' /\ AuditInv'
      BY <3>1 DEF IInv, auditVars, AuditTypeOK, AuditInv, AuditAccounted, Increasing
    <3>3. ClientTypeOK'
      BY <2>4 DEF IInv, ClientTypeOK, Attach, Detach, Disable
    <3> QED  BY <3>2, <3>3
  <2> QED  BY <2>1, <2>2, <2>3, <2>4 DEF Broker, BrokerStep
<1> QED  BY <1>4, <1>5 DEF IInv

\* The initial states satisfy the inductive invariant.
LEMMA InitHolds ==
  ASSUME BrokerAssumption, CoordinatorAssumption, Init
  PROVE  IInv
<1>1. \A g \in Gateways : rec[g] = [sid |-> 0, state |-> "idle", conn |-> FALSE, holder |-> None]
  BY DEF Init, CoordinatorInit
<1>2. /\ sids = 0 /\ stopped = {} /\ queue = <<>> /\ wire = <<>> /\ stale = FALSE
      /\ calls = [c \in Callers |-> Idle]
  BY DEF Init, CoordinatorInit, Callers
<1>3. SessionTypeOK
  <2>1. [sid |-> 0, state |-> "idle", conn |-> FALSE, holder |-> None] \in Records
    BY DEF Records, States, Operators
  <2>2. rec \in [Gateways -> Records]
    BY <2>1 DEF Init, CoordinatorInit
  <2>3. queue \in Seq(Frames)
    BY <1>2
  <2>4. runtime \in [Gateways -> Operators]
    BY DEF Init, CoordinatorInit, Operators
  <2>5. watched = {} /\ beat = None
    BY DEF Init, CoordinatorInit
  <2> QED  BY <1>2, <2>2, <2>3, <2>4, <2>5 DEF SessionTypeOK
<1>4. RestTypeOK
  <2>1. left \in [Kinds -> Nat]
    BY DEF Init, BrokerInit, BrokerAssumption
  <2>2. calls \in [Callers -> CallRecords \cup {Idle}] /\ wire \in Seq(Gateways)
    BY <1>2
  <2>3. lease \in [Gateways -> Operators]
    <3>1. (CHOOSE h \in Holders : TRUE) \in Holders
      BY DEF CoordinatorAssumption
    <3> QED  BY <3>1 DEF Init, CoordinatorInit, Operators
  <2>4. pair \in [Gateways -> Pairs]
    <3>1. <<"matrice4", "rcPlus2">> \in Pairs
      BY DEF Pairs
    <3> QED  BY <3>1 DEF Init, CoordinatorInit
  <2>5. gen = 0 /\ client = 0 /\ up = FALSE /\ fc3 = Gateways /\ authority = {} /\ reached = [g \in Gateways |-> 0]
    BY DEF Init, CoordinatorInit
  <2>6. reached \in [Gateways -> Nat]
    BY <2>5
  <2>7. gen \in Nat /\ client \in Nat
    BY <2>5
  <2> QED  BY <2>1, <2>2, <2>3, <2>4, <2>5, <2>6, <2>7 DEF RestTypeOK
<1>5. \A c \in Callers : calls[c] = Idle /\ calls[c].op = "none"
  BY <1>2, IdleIsNone
<1>6. NumberInv
  BY <1>1, <1>2, <1>5 DEF NumberInv
<1>7. NeutralInv
  BY <1>2 DEF NeutralInv
<1>8. OneInv
  BY <1>1 DEF OneInv, Open
<1>9. StopInv /\ HolderInv
  BY <1>1, <1>2, <1>5 DEF StopInv, HolderInv
<1>10. ClientTypeOK
  BY DEF Init, BrokerInit, ClientTypeOK
<1>11. /\ asked = 0 /\ dropped = 0 /\ stored = {} /\ buffer = <<>> /\ flying = <<>>
       /\ database \in BOOLEAN
  BY DEF Init, BrokerInit
<1>12. Len(buffer) = 0 /\ Len(flying) = 0 /\ buffer \in Seq(Nat) /\ flying \in Seq(Nat)
  BY <1>11
<1>13. AuditTypeOK
  BY <1>11, <1>12 DEF AuditTypeOK
<1>14. AuditAccounted
  <2>1. Cardinality(stored) = 0
    BY <1>11, FS_EmptySet
  <2>2. Capacity \in Nat
    BY DEF BrokerAssumption
  <2> QED  BY <1>11, <1>12, <2>1, <2>2 DEF AuditAccounted
<1>15. AuditInv
  BY <1>11, <1>12, <1>14 DEF AuditInv, Increasing
<1> QED  BY <1>3, <1>4, <1>6, <1>7, <1>8, <1>9, <1>10, <1>13, <1>15 DEF IInv, ControlInv

\* And every step keeps it.
LEMMA StepHolds ==
  ASSUME BrokerAssumption, CoordinatorAssumption, IInv, [Next]_vars
  PROVE  IInv'
<1>1. CASE UNCHANGED vars
  <2>1. UNCHANGED coordinatorVars /\ UNCHANGED <<clientVars, auditVars, left>>
    BY <1>1 DEF vars, brokerVars
  <2>2. RestTypeOK
    BY DEF IInv, ControlInv
  <2>3. left' \in [Kinds -> Nat]
    BY <2>1, <2>2 DEF RestTypeOK
  <2>4. ControlInv'
    BY <2>1, <2>3, CoordinatorKept DEF IInv
  <2>5. ClientTypeOK' /\ AuditTypeOK' /\ AuditInv'
    BY <2>1 DEF IInv, clientVars, auditVars, ClientTypeOK, AuditTypeOK, AuditInv, AuditAccounted, Increasing
  <2> QED  BY <2>4, <2>5 DEF IInv
<1>2. DOMAIN calls = Callers /\ ControlInv
  BY DEF IInv, ControlInv, RestTypeOK
<1>3. ASSUME ControlInv', UNCHANGED <<clientVars, auditVars>>  PROVE IInv'
  BY <1>3 DEF IInv, clientVars, auditVars, ClientTypeOK, AuditTypeOK, AuditInv, AuditAccounted, Increasing
<1>4. ASSUME NEW c \in Callers, Continue(c)  PROVE IInv'
  <2>1. ControlInv'
    BY <1>2, <1>4, GrantedKeeps, LinkedKeeps, DisconnectKeeps, ClientKeeps, RefuseKeeps, CloseKeeps DEF Continue
  <2> QED  BY <1>3, <1>4, <2>1 DEF Continue
<1>5. CASE Event
  <2>1. ControlInv'
    <3>1. CASE Asked
      BY <1>2, <3>1, StartKeeps, BeginningsKeep, SendKeeps DEF Asked
    <3>2. CASE \E g \in Gateways, ok, granted \in BOOLEAN : Consent(g, ok, granted)
      BY <1>2, <3>2, ConsentKeeps
    <3>3. CASE \E c \in DOMAIN calls : Settles(c)
      BY <1>2, <3>3, EnterKeeps, ExitKeeps, ReleaseKeeps, ClientKeeps DEF Settles
    <3>4. CASE \E g \in Gateways : Tick(g)
      BY <1>2, <3>4, BeginningsKeep
    <3>5. CASE Lost \/ Publish \/ BeatFails \/ LeaseChanges \/ GuardsChange
      BY <1>2, <3>5, LostKeeps, PublishKeeps, BeatAndGuardsKeep, LeaseKeeps
    <3> QED  BY <1>5, <3>1, <3>2, <3>3, <3>4, <3>5 DEF Event
  <2> QED  BY <1>3, <1>5, <2>1 DEF Event
<1>6. CASE Deliver
  <2>1. ControlInv'
    BY <1>2, <1>6, DeliverKeeps
  <2>2. AuditTypeOK' /\ AuditInv'
    BY <1>6, EnqueueKeeps DEF Deliver, IInv
  <2>3. ClientTypeOK'
    BY <1>6 DEF Deliver, IInv, ClientTypeOK, clientVars
  <2> QED  BY <2>1, <2>2, <2>3 DEF IInv
<1>7. CASE (\E g \in Gateways : Subscribe(g)) \/ AskOther \/ Broker
  BY <1>7, BrokerKeeps
<1> QED  BY <1>1, <1>2, <1>4, <1>5, <1>6, <1>7 DEF Next

-----------------------------------------------------------------------------
(* The theorems *)

\* The inductive invariant, and the type invariant with it, hold in every behaviour.
THEOREM Invariant == Spec => []IInv
<1>1. Init => IInv
  BY InitHolds, BrokerAssumption, CoordinatorAssumption
<1>2. IInv /\ [Next]_vars => IInv'
  BY StepHolds, BrokerAssumption, CoordinatorAssumption
<1> QED  BY <1>1, <1>2, PTL DEF Spec

\* Every variable of the coordinator, the broker and the audit keeps its type.
THEOREM TypeCorrect == Spec => []TypeOK
<1>1. IInv => TypeOK
  BY DEF IInv, ControlInv, TypeOK
<1> QED  BY <1>1, Invariant, PTL

\* However starts, stops and watchdogs of several gateways overlap, there is one open
\* session at a time, until a suspended call has overwritten a record it had not read
\* (control-coordinator.ts 56-79).
THEOREM OneOpenSession == Spec => []OneSession
<1>1. IInv => OneSession
  <2> SUFFICES ASSUME IInv, ~stale  PROVE Cardinality({g \in Gateways : Open(g)}) <= 1
    BY DEF OneSession
  <2>1. PICK S : S = {g \in Gateways : Open(g)}
    OBVIOUS
  <2>2. \A g, h \in S : g = h
    BY <2>1 DEF IInv, ControlInv, OneInv
  <2>3. CASE S = {}
    BY <2>1, <2>3, FS_EmptySet
  <2>4. ASSUME NEW g \in S  PROVE Cardinality(S) <= 1
    <3>1. S = {g}
      BY <2>2
    <3>2. Cardinality({g}) = 1
      BY FS_Singleton
    <3> QED  BY <3>1, <3>2
  <2> QED  BY <2>1, <2>3, <2>4
<1> QED  BY <1>1, Invariant, PTL

\* A start that succeeds has activated a session of its own operator, unless the lease has
\* come back to that operator meanwhile (control-coordinator.ts 97-99).
THEOREM StartsActivateTheirOwn == Spec => HolderActivates
<1> DEFINE Step == \A c \in Slots :
                     calls[c].op = "start" /\ calls[c].at = "linked" /\ calls'[c] = Idle /\ ~calls[c].back
                       => rec[calls[c].g].holder = calls[c].by
<1>1. IInv /\ [Next]_vars => Step
  <2> SUFFICES ASSUME IInv, [Next]_vars, NEW c \in Slots,
                      calls[c].op = "start", calls[c].at = "linked", calls'[c] = Idle, ~calls[c].back
               PROVE  rec[calls[c].g].holder = calls[c].by
    OBVIOUS
  <2>1. RestTypeOK /\ HolderInv /\ c \in Callers /\ DOMAIN calls = Callers
    BY DEF IInv, ControlInv, RestTypeOK, Callers
  <2>2. calls[c] # Idle /\ calls[c] \in CallRecords
    BY <2>1, CallIsRecord
  <2>3. ~Settled
    BY <2>1 DEF Settled, Running, Callers
  <2>4. PICK d \in Callers : Continue(d)
    <3>1. ~UNCHANGED vars
      BY <2>2 DEF vars, coordinatorVars
    <3> QED  BY <2>1, <2>3, <3>1 DEF Next, Event, Deliver, Subscribe, AskOther, Broker
  <2>5. d = c
    <3> SUFFICES ASSUME d # c  PROVE calls'[c] = calls[c]
      BY <2>2
    <3>1. CASE Dial(d) \/ Hangup(d)
      BY <2>1, <3>1 DEF Dial, Hangup, Disconnect
    <3>2. CASE OpenClient(d) \/ Refuse(d) \/ Granted(d) \/ Linked(d) \/ Close(d)
      BY <2>1, <3>2 DEF OpenClient, Refuse, Granted, Linked, Close, CloseDone, Goes, Ends, RestTypeOK
    <3> QED  BY <2>4, <3>1, <3>2 DEF Continue
  <2>6. Linked(c)
    BY <2>4, <2>5 DEF Continue, Granted, Dial, OpenClient, Refuse, Close, Hangup
  <2>7. rec[calls[c].g].state = "drc_mode_active" /\ FinalGuards(c)
    <3> SUFFICES ASSUME ~(rec[calls[c].g].state = "drc_mode_active" /\ FinalGuards(c))  PROVE FALSE
      OBVIOUS
    <3>1. calls' = [calls EXCEPT ![c].at = "close"]
      BY <2>6 DEF Linked, Goes
    <3>2. calls'[c].at = "close"
      BY <2>1, <2>2, <3>1 DEF CallRecords
    <3> QED  BY <3>2, IdleIsNone
  <2>8. lease[calls[c].g] = calls[c].by
    BY <2>7 DEF FinalGuards, AllGuards, RequestGuards
  <2> QED  BY <2>1, <2>7, <2>8 DEF HolderInv, Pending
<1>2. Step => [Step]_vars
  OBVIOUS
<1> QED  BY <1>1, Invariant, PTL DEF Spec, HolderActivates

\* After a stop whose release was acknowledged no frame reaches the gateway before it is
\* started again, until a suspended call has overwritten a record it had not read
\* (control-coordinator.ts 174-196, authz.ts).
THEOREM StoppedStaysSilent == Spec => NothingAfterStop
<1>1. IInv /\ [Next]_vars => (~stale => \A g \in stopped : reached'[g] = reached[g])
  <2> SUFFICES ASSUME IInv, [Next]_vars, ~stale, NEW g \in stopped  PROVE reached'[g] = reached[g]
    OBVIOUS
  <2>1. g \in Gateways /\ rec[g].state \in Over /\ reached \in [Gateways -> Nat]
    BY DEF IInv, ControlInv, SessionTypeOK, StopInv, RestTypeOK
  <2>2. ~Active(g)
    BY <2>1 DEF Active, InControl, Over
  <2>3. CASE UNCHANGED reached
    BY <2>3
  <2>4. CASE Deliver
    <3>1. PICK h : h = Head(wire)
      OBVIOUS
    <3>2. PICK down : down = [sn |-> h, craft |-> FALSE, suffix |-> "drc/down"]
      OBVIOUS
    <3>3. PICK result : result = Decision([user |-> "backend", publish |-> TRUE, topic |-> down], Active(h))
      OBVIOUS
    <3>4. reached' = IF result = "allow" /\ h \in subscribed THEN [reached EXCEPT ![h] = @ + 1] ELSE reached
      BY <2>4, <3>1, <3>2, <3>3 DEF Deliver
    <3>5. result = "allow" => Active(h)
      BY <3>3 DEF Decision, Backend
    <3>6. CASE h = g
      BY <2>2, <3>4, <3>5, <3>6
    <3>7. CASE h # g
      BY <2>1, <3>4, <3>7
    <3> QED  BY <3>6, <3>7
  <2>5. [Next]_vars /\ ~Deliver => UNCHANGED reached
    <3>1. ASSUME NEW c, Continue(c)  PROVE UNCHANGED reached
      BY <3>1 DEF Continue, Granted, Linked, Dial, Hangup, Disconnect, OpenClient, Refuse, Close
    <3>2. ASSUME NEW c, Settles(c)  PROVE UNCHANGED reached
      BY <3>2 DEF Settles, Enter, Exit, Release, Ended, Connected, ConnectFails
    <3>3. Asked => UNCHANGED reached
      BY DEF Asked, Start, Stop, Recover, Send
    <3>4. Event => UNCHANGED reached
      BY <3>2, <3>3 DEF Event, Consent, Tick, Lost, Publish, BeatFails, LeaseChanges, GuardsChange
    <3>5. (\E h \in Gateways : Subscribe(h)) \/ AskOther \/ Broker => UNCHANGED reached
      BY DEF Subscribe, AskOther, Broker, coordinatorVars
    <3>6. UNCHANGED vars => UNCHANGED reached
      BY DEF vars, coordinatorVars
    <3> QED  BY <3>1, <3>4, <3>5, <3>6 DEF Next
  <2> QED  BY <2>3, <2>4, <2>5
<1> QED  BY <1>1, Invariant, PTL DEF Spec, NothingAfterStop

\* Every audit record to be kept is stored, waiting, being written, or counted as dropped,
\* and the buffer stays within its capacity (authz-audit.ts).
THEOREM AuditIsAccountedFor == Spec => []AuditAccounted
<1>1. IInv => AuditAccounted
  BY DEF IInv, AuditInv
<1> QED  BY <1>1, Invariant, PTL

================================================================================
