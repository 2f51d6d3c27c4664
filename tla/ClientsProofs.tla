------------------------------ MODULE ClientsProofs ------------------------------
(***************************************************************************)
(* The clients: the part invariants of the RC app and of the web client,   *)
(* for any budgets, files, keys, assets, aircraft and viewers.  The parts  *)
(* share little: each invariant is kept by the steps of its own part, and  *)
(* the steps of the others leave its variables alone.                      *)
(***************************************************************************)
EXTENDS Clients, TLAPS

-------------------------------------------------------------------------------
(* Sequences *)

\* The element is in the sequence.
In(e, q) == \E i \in 1 .. Len(q) : q[i] = e

\* Appending keeps what is in a sequence and puts the new element behind it.
LEMMA AppendFacts ==
  ASSUME NEW S, NEW q \in Seq(S), NEW e \in S
  PROVE  /\ Append(q, e) \in Seq(S) /\ Append(q, e) # <<>>
         /\ Len(Append(q, e)) = Len(q) + 1
         /\ \A i \in 1 .. Len(q) : Append(q, e)[i] = q[i]
         /\ Append(q, e)[Len(q) + 1] = e
OBVIOUS

\* Taking the head moves the others one place to the front.
LEMMA TailFacts ==
  ASSUME NEW S, NEW q \in Seq(S), q # <<>>
  PROVE  /\ Head(q) \in S /\ Head(q) = q[1] /\ Len(q) \in Nat \ {0}
         /\ Tail(q) \in Seq(S) /\ Len(Tail(q)) = Len(q) - 1
         /\ \A i \in 1 .. Len(Tail(q)) : Tail(q)[i] = q[i + 1]
OBVIOUS

\* An empty sequence has no elements.
LEMMA EmptyFacts ==
  ASSUME NEW S, NEW q \in Seq(S)
  PROVE  q = <<>> <=> Len(q) = 0
OBVIOUS

\* What is appended is in, and so is what was.
LEMMA InAppend ==
  ASSUME NEW S, NEW q \in Seq(S), NEW e \in S
  PROVE  In(e, Append(q, e)) /\ \A x : In(x, q) => In(x, Append(q, e))
<1>1. Len(q) \in Nat
  OBVIOUS
<1> QED
  BY <1>1, AppendFacts DEF In

\* Only the head leaves with the head.
LEMMA InTail ==
  ASSUME NEW S, NEW q \in Seq(S), q # <<>>, NEW x, In(x, q), x # Head(q)
  PROVE  In(x, Tail(q))
<1>1. PICK i \in 1 .. Len(q) : q[i] = x
  BY DEF In
<1>2. i # 1 /\ Len(q) \in Nat
  BY <1>1, TailFacts
<1>3. i - 1 \in 1 .. Len(Tail(q)) /\ Tail(q)[i - 1] = x
  BY <1>1, <1>2, TailFacts
<1> QED
  BY <1>3 DEF In

-------------------------------------------------------------------------------
(* The gimbal *)

Commands == {"nudge", "stop"}

GimbalTypes ==
  /\ gimbal \in [started: BOOLEAN, delayed: Nat, warned: BOOLEAN]
  /\ commands \in Seq(Commands)
  /\ answers \in Seq(Commands \X BOOLEAN)
  /\ turning \in BOOLEAN

\* A stop is posted or sent, a nudge that will post one is not answered yet, or the
\* operator will be shown that the stop has failed.
RestIsPending ==
  \/ gimbal.delayed > 0
  \/ In("stop", commands)
  \/ In(<<"nudge", TRUE>>, answers)
  \/ In(<<"stop", FALSE>>, answers)

GimbalInv == GimbalTypes /\ (turning /\ ~gimbal.warned => RestIsPending)

\* The controller's record keeps its type when its fields do.
LEMMA GimbalFields ==
  ASSUME GimbalTypes, NEW n \in Nat, NEW w \in BOOLEAN, NEW s \in BOOLEAN
  PROVE  /\ [gimbal EXCEPT !.warned = w, !.delayed = n]
               \in [started: BOOLEAN, delayed: Nat, warned: BOOLEAN]
         /\ [gimbal EXCEPT !.delayed = n] \in [started: BOOLEAN, delayed: Nat, warned: BOOLEAN]
         /\ [gimbal EXCEPT !.started = s, !.delayed = n]
               \in [started: BOOLEAN, delayed: Nat, warned: BOOLEAN]
         /\ [gimbal EXCEPT !.warned = w, !.delayed = n].warned = w
         /\ [gimbal EXCEPT !.warned = w, !.delayed = n].delayed = n
         /\ [gimbal EXCEPT !.delayed = n].delayed = n
BY DEF GimbalTypes

\* Every step of the gimbal's controller and of the MSDK keeps something pending that
\* brings the gimbal to rest.
LEMMA GimbalInvStep ==
  ASSUME GimbalInv, GimbalStep \/ UNCHANGED gimbalVars
  PROVE  GimbalInv'
<1> USE DEF GimbalInv
<1>1. CASE UNCHANGED gimbalVars
  BY <1>1 DEF gimbalVars, GimbalTypes, RestIsPending, In
<1>2. CASE StartGimbal
  BY <1>2 DEF StartGimbal, GimbalTypes, RestIsPending, In
<1>3. CASE Nudge
  <2>1. commands' \in Seq(Commands) /\ (In("stop", commands) => In("stop", commands'))
    BY <1>3, InAppend, AppendFacts DEF Nudge, GimbalTypes, Commands
  <2> QED
    BY <1>3, <2>1 DEF Nudge, GimbalTypes, RestIsPending
<1>4. ASSUME NEW ok \in BOOLEAN, CarriedOut(ok) PROVE GimbalInv'
  <2>1. /\ commands' = Tail(commands) /\ commands # <<>>
        /\ answers' = Append(answers, <<Head(commands), ok>>)
        /\ turning' = IF ok THEN Head(commands) = "nudge" ELSE turning
        /\ gimbal' = [gimbal EXCEPT !.warned = gimbal.warned /\ turning']
    BY <1>4 DEF CarriedOut
  <2>2. Head(commands) \in Commands /\ commands' \in Seq(Commands)
    BY <2>1, TailFacts DEF GimbalTypes
  <2>3. <<Head(commands), ok>> \in Commands \X BOOLEAN
    BY <2>2
  <2>4. /\ answers' \in Seq(Commands \X BOOLEAN)
        /\ In(<<Head(commands), ok>>, answers')
        /\ \A x : In(x, answers) => In(x, answers')
    BY <2>1, <2>3, InAppend, AppendFacts DEF GimbalTypes
  <2>5. turning' \in BOOLEAN
    BY <2>1 DEF GimbalTypes
  <2>6. gimbal' \in [started: BOOLEAN, delayed: Nat, warned: BOOLEAN] /\ gimbal'.delayed = gimbal.delayed
    BY <2>1, <2>5 DEF GimbalTypes
  <2>7. turning' /\ ~gimbal'.warned => RestIsPending'
    <3>1. SUFFICES ASSUME turning', ~gimbal'.warned PROVE RestIsPending'
      OBVIOUS
    <3>2. ~gimbal.warned
      BY <2>1, <3>1 DEF GimbalTypes
    <3>3. CASE ok
      <4>1. Head(commands) = "nudge" /\ ok = TRUE
        BY <2>1, <3>1, <3>3
      <4> QED
        BY <2>4, <4>1 DEF RestIsPending
    <3>4. CASE ~ok
      <4>1. ok = FALSE /\ turning
        BY <2>1, <3>1, <3>4
      <4>2. CASE In("stop", commands)
        <5>1. CASE Head(commands) = "stop"
          BY <2>4, <4>1, <5>1 DEF RestIsPending
        <5>2. CASE Head(commands) # "stop"
          BY <2>1, <4>2, <5>2, InTail DEF RestIsPending, GimbalTypes
        <5> QED
          BY <5>1, <5>2
      <4> QED
        BY <2>4, <2>6, <3>2, <4>1, <4>2 DEF RestIsPending
    <3> QED
      BY <3>3, <3>4
  <2> QED
    BY <2>2, <2>4, <2>5, <2>6, <2>7 DEF GimbalTypes
<1>5. CASE Answered
  <2>1. /\ answers # <<>> /\ answers' = Tail(answers) /\ UNCHANGED <<commands, turning>>
        /\ gimbal' = [gimbal EXCEPT
             !.warned = gimbal.warned \/ (turning /\ Head(answers) = <<"stop", FALSE>>),
             !.delayed = gimbal.delayed + StopsLater(Head(answers)[1], Head(answers)[2])]
    BY <1>5 DEF Answered
  <2>2. Head(answers) \in Commands \X BOOLEAN /\ answers' \in Seq(Commands \X BOOLEAN)
    BY <2>1, TailFacts DEF GimbalTypes
  <2>3. StopsLater(Head(answers)[1], Head(answers)[2]) \in Nat
    BY DEF StopsLater
  <2>4. /\ gimbal' \in [started: BOOLEAN, delayed: Nat, warned: BOOLEAN]
        /\ gimbal'.delayed = gimbal.delayed + StopsLater(Head(answers)[1], Head(answers)[2])
        /\ gimbal'.warned = (gimbal.warned \/ (turning /\ Head(answers) = <<"stop", FALSE>>))
    <3> DEFINE warned == gimbal.warned \/ (turning /\ Head(answers) = <<"stop", FALSE>>)
    <3>1. warned \in BOOLEAN
      BY DEF GimbalTypes
    <3> HIDE DEF warned
    <3>2. gimbal' = [gimbal EXCEPT !.warned = warned,
                       !.delayed = gimbal.delayed + StopsLater(Head(answers)[1], Head(answers)[2])]
      BY <2>1 DEF warned
    <3>3. gimbal' \in [started: BOOLEAN, delayed: Nat, warned: BOOLEAN]
      <4>1. gimbal.delayed + StopsLater(Head(answers)[1], Head(answers)[2]) \in Nat
        BY <2>3 DEF GimbalTypes
      <4> QED
        BY <3>1, <3>2, <4>1, GimbalFields
    <3>4. /\ gimbal'.delayed = gimbal.delayed + StopsLater(Head(answers)[1], Head(answers)[2])
          /\ gimbal'.warned = warned
      <4>1. gimbal.delayed + StopsLater(Head(answers)[1], Head(answers)[2]) \in Nat
        BY <2>3 DEF GimbalTypes
      <4> QED
        BY <3>1, <3>2, <4>1, GimbalFields
    <3> QED
      BY <3>3, <3>4 DEF warned
  <2>5. turning' /\ ~gimbal'.warned => RestIsPending'
    <3>1. SUFFICES ASSUME turning, ~gimbal'.warned PROVE RestIsPending'
      BY <2>1
    <3>2. ~gimbal.warned /\ Head(answers) # <<"stop", FALSE>>
      BY <2>4, <3>1
    <3>3. CASE In(<<"nudge", TRUE>>, answers)
      <4>1. CASE Head(answers) = <<"nudge", TRUE>>
        <5>1. StopsLater(Head(answers)[1], Head(answers)[2]) = 1
          <6>1. <<"nudge", TRUE>>[1] = "nudge" /\ <<"nudge", TRUE>>[2] = TRUE
            BY Zenon
          <6>2. Head(answers)[1] = "nudge" /\ Head(answers)[2] = TRUE
            BY <4>1, <6>1, Zenon
          <6> QED
            BY <6>2, Zenon DEF StopsLater
        <5>2. gimbal.delayed \in Nat
          BY DEF GimbalTypes
        <5>3. gimbal'.delayed > 0
          BY <2>4, <5>1, <5>2
        <5> QED
          BY <5>3 DEF RestIsPending
      <4>2. CASE Head(answers) # <<"nudge", TRUE>>
        BY <2>1, <3>3, <4>2, InTail DEF RestIsPending, GimbalTypes
      <4> QED
        BY <4>1, <4>2
    <3>4. CASE In(<<"stop", FALSE>>, answers)
      BY <2>1, <3>2, <3>4, InTail DEF RestIsPending, GimbalTypes
    <3>5. CASE In("stop", commands)
      BY <2>1, <3>5 DEF RestIsPending
    <3>6. CASE gimbal.delayed > 0
      <4>1. gimbal.delayed \in Nat
        BY DEF GimbalTypes
      <4>2. gimbal'.delayed > 0
        BY <2>3, <2>4, <3>6, <4>1
      <4> QED
        BY <4>2 DEF RestIsPending
    <3> QED
      BY <3>1, <3>2, <3>3, <3>4, <3>5, <3>6 DEF RestIsPending
  <2> QED
    BY <2>1, <2>2, <2>4, <2>5 DEF GimbalTypes
<1>6. CASE StopDue \/ StopGimbal
  <2>1. commands' = Append(commands, "stop") /\ UNCHANGED <<answers, turning>>
    BY <1>6 DEF StopDue, StopGimbal
  <2>2. commands' \in Seq(Commands) /\ In("stop", commands')
    BY <2>1, InAppend, AppendFacts DEF Commands, GimbalTypes
  <2>3. gimbal' \in [started: BOOLEAN, delayed: Nat, warned: BOOLEAN]
    <3>1. gimbal.delayed \in Nat
      BY DEF GimbalTypes
    <3>2. CASE StopDue
      <4>1. gimbal.delayed - 1 \in Nat /\ gimbal' = [gimbal EXCEPT !.delayed = gimbal.delayed - 1]
        BY <3>1, <3>2 DEF StopDue
      <4> QED
        BY <4>1, GimbalFields
    <3>3. CASE StopGimbal
      <4>1. gimbal' = [gimbal EXCEPT !.started = FALSE, !.delayed = 0]
        BY <3>3 DEF StopGimbal
      <4> QED
        BY <4>1, GimbalFields
    <3> QED
      BY <1>6, <3>2, <3>3
  <2> QED
    BY <2>1, <2>2, <2>3 DEF GimbalTypes, RestIsPending
<1> QED
  BY <1>1, <1>2, <1>3, <1>4, <1>5, <1>6 DEF GimbalStep

\* A nudged gimbal rests once nothing is pending, or its operator is told, for any
\* number of overlapping commands.
THEOREM NudgesEnd == Spec => []GimbalRests
<1>1. Init => GimbalInv
  <2>1. <<>> \in Seq(Commands) /\ <<>> \in Seq(Commands \X BOOLEAN)
    OBVIOUS
  <2>2. PayloadInit => GimbalTypes
    <3>1. [started |-> FALSE, delayed |-> 0, warned |-> FALSE]
            \in [started: BOOLEAN, delayed: Nat, warned: BOOLEAN]
      OBVIOUS
    <3> QED
      BY <2>1, <3>1, Zenon DEF PayloadInit, GimbalTypes
  <2>3. PayloadInit => ~turning
    BY Zenon DEF PayloadInit
  <2> QED
    BY <2>2, <2>3 DEF Init, RcInit, GimbalInv
<1>2. GimbalInv /\ [Next]_vars => GimbalInv'
  <2>1. [Next]_vars => GimbalStep \/ UNCHANGED gimbalVars
    BY DEF Next, RcStep, WaylineStep, Import, Upload, UploadProgress, Uploaded, ClearSelection,
           payloadVars, gimbalVars, rcVars, vars
  <2> QED
    BY <2>1, GimbalInvStep
<1>3. GimbalInv => GimbalRests
  BY DEF GimbalInv, GimbalRests, RestIsPending, GimbalTypes, In
<1> QED
  BY <1>1, <1>2, <1>3, PTL DEF Spec

-------------------------------------------------------------------------------
(* The media overlay *)

IngestStates == {"storing", "orphaned", "committed", "done", "failed"}
Requests     == [assets: SUBSET Assets, at: IngestStates, alone: SUBSET Assets]

IngestTypes ==
  /\ ingests \in Seq(Requests)
  /\ stored \in [Assets -> Nat]
  /\ served \in [Assets -> Nat]
  /\ running \in {"yes", "blind", "no"}
  /\ \A i \in DOMAIN ingests : ingests[i].alone \subseteq ingests[i].assets

\* The request's transaction was committed, and the route has heard of it.
Acknowledged(i) == ingests[i].at \in {"committed", "done"}

\* What is served, or acknowledged, has a row.
RowsExist ==
  /\ \A a \in Assets : served[a] # 0 => stored[a] # 0
  /\ \A i \in DOMAIN ingests : Acknowledged(i) => \A a \in ingests[i].assets : stored[a] # 0

\* The earlier requests for an asset a request has to itself are over.
AloneIsLast ==
  \A i \in DOMAIN ingests : \A a \in ingests[i].alone :
    \A j \in DOMAIN ingests : j < i /\ a \in ingests[j].assets => ~Underway(j)

\* An uncontested row is that of its request, and so is what is served of it.
OwnRows ==
  \A i \in DOMAIN ingests : \A a \in ingests[i].assets : Uncontested(i, a) =>
    /\ Acknowledged(i) => stored[a] = i
    /\ ingests[i].at = "done" => served[a] = i \/ running # "yes"

IngestInv == IngestTypes /\ RowsExist /\ AloneIsLast /\ OwnRows

\* A request is a record of its type.
LEMMA RequestFacts ==
  ASSUME IngestTypes, NEW j \in DOMAIN ingests
  PROVE  /\ ingests[j] \in Requests /\ ingests[j].assets \subseteq Assets
         /\ ingests[j].at \in IngestStates /\ DOMAIN ingests = 1 .. Len(ingests)
<1>1. ingests[j] \in Requests /\ DOMAIN ingests = 1 .. Len(ingests)
  BY DEF IngestTypes
<1> QED
  BY <1>1 DEF Requests

\* A request changes its state and nothing else.
LEMMA GoesFacts ==
  ASSUME IngestTypes, NEW i \in DOMAIN ingests, NEW at \in IngestStates, Goes(i, at)
  PROVE  /\ ingests' \in Seq(Requests) /\ DOMAIN ingests' = DOMAIN ingests
         /\ ingests'[i].at = at
         /\ \A j \in DOMAIN ingests :
              /\ ingests'[j].assets = ingests[j].assets /\ ingests'[j].alone = ingests[j].alone
              /\ j # i => ingests'[j].at = ingests[j].at
<1>1. ingests' = [ingests EXCEPT ![i] = [ingests[i] EXCEPT !.at = at]]
  BY DEF Goes
<1>2. /\ [ingests[i] EXCEPT !.at = at] \in Requests
      /\ [ingests[i] EXCEPT !.at = at].at = at
      /\ [ingests[i] EXCEPT !.at = at].assets = ingests[i].assets
      /\ [ingests[i] EXCEPT !.at = at].alone = ingests[i].alone
  BY RequestFacts DEF Requests
<1>3. /\ DOMAIN ingests' = DOMAIN ingests /\ ingests'[i] = [ingests[i] EXCEPT !.at = at]
      /\ \A j \in DOMAIN ingests : j # i => ingests'[j] = ingests[j]
  BY <1>1
<1>4. ingests' \in Seq(Requests)
  BY <1>1, <1>2 DEF IngestTypes
<1> QED
  BY <1>2, <1>3, <1>4

\* A request that is over stays over, and so an earlier one does not come back.
LEMMA AloneStays ==
  ASSUME IngestInv, DOMAIN ingests' = DOMAIN ingests,
         \A j \in DOMAIN ingests :
           /\ ingests'[j].assets = ingests[j].assets /\ ingests'[j].alone = ingests[j].alone
           /\ Underway(j)' => Underway(j)
  PROVE  AloneIsLast' /\ \A i \in DOMAIN ingests, a \in Assets : Uncontested(i, a)' => Uncontested(i, a)
BY DEF IngestInv, AloneIsLast, Uncontested

\* A request that is under way writes to nothing that is uncontested by another.
LEMMA UncontestedIsSpared ==
  ASSUME IngestInv, NEW i \in DOMAIN ingests, NEW a \in Assets, Uncontested(i, a),
         NEW j \in DOMAIN ingests, Underway(j), a \in ingests[j].assets
  PROVE  j = i
BY DEF IngestInv, IngestTypes, AloneIsLast, Uncontested

\* A new request is the last, and alone with what no request under way writes.
LEMMA IngestKeeps ==
  ASSUME IngestInv, NEW assets \in SUBSET Assets, Ingest(assets)
  PROVE  IngestInv'
<1> DEFINE n == Len(ingests) + 1
           r == [assets |-> assets, at |-> "storing",
                 alone |-> {a \in assets :
                    \A i \in 1 .. Len(ingests) : a \in ingests[i].assets => ~Underway(i)}]
<1>1. ingests \in Seq(Requests) /\ r \in Requests
  BY DEF IngestInv, IngestTypes, Requests, IngestStates
<1>2. ingests' = Append(ingests, r) /\ UNCHANGED <<stored, served, running>>
  BY DEF Ingest
<1> HIDE DEF r
<1>3. /\ ingests' \in Seq(Requests) /\ DOMAIN ingests = 1 .. Len(ingests)
      /\ DOMAIN ingests' = DOMAIN ingests \cup {n} /\ n \notin DOMAIN ingests
      /\ \A i \in DOMAIN ingests : i < n /\ ingests'[i] = ingests[i]
      /\ ingests'[n] = r
  BY <1>1, <1>2, AppendFacts
<1>4. /\ r.assets = assets /\ r.at = "storing" /\ r.alone \subseteq assets
      /\ \A a \in r.alone : \A i \in DOMAIN ingests : a \in ingests[i].assets => ~Underway(i)
  BY <1>3 DEF r
<1>5. \A i \in DOMAIN ingests : (Underway(i)' <=> Underway(i)) /\ (Acknowledged(i)' <=> Acknowledged(i))
  BY <1>3 DEF Underway, Acknowledged
<1>6. IngestTypes'
  BY <1>2, <1>3, <1>4 DEF IngestInv, IngestTypes
<1>7. RowsExist'
  BY <1>2, <1>3, <1>4, <1>5 DEF IngestInv, RowsExist, Acknowledged
<1>8. AloneIsLast'
  <2>1. SUFFICES ASSUME NEW i \in DOMAIN ingests', NEW a \in ingests'[i].alone,
                        NEW j \in DOMAIN ingests', j < i, a \in ingests'[j].assets
                 PROVE  ~Underway(j)'
    BY DEF AloneIsLast
  <2>2. j \in DOMAIN ingests
    BY <1>3, <2>1
  <2> QED
    BY <1>3, <1>4, <1>5, <2>1, <2>2 DEF IngestInv, AloneIsLast
<1>9. OwnRows'
  <2>1. SUFFICES ASSUME NEW i \in DOMAIN ingests', NEW a \in ingests'[i].assets, Uncontested(i, a)'
                 PROVE  /\ Acknowledged(i)' => stored'[a] = i
                        /\ ingests'[i].at = "done" => served'[a] = i \/ running' # "yes"
    BY DEF OwnRows
  <2>2. CASE i \in DOMAIN ingests
    <3>1. Uncontested(i, a)
      BY <1>3, <2>1, <2>2 DEF Uncontested
    <3> QED
      BY <1>2, <1>3, <1>5, <2>1, <2>2, <3>1 DEF IngestInv, OwnRows
  <2>3. CASE i = n
    BY <1>3, <1>4, <2>3 DEF Acknowledged
  <2> QED
    BY <1>3, <2>2, <2>3
<1> QED
  BY <1>6, <1>7, <1>8, <1>9 DEF IngestInv

\* A transaction that commits writes the rows of its request.
LEMMA CommitsKeeps ==
  ASSUME IngestInv, NEW i \in DOMAIN ingests, Commits(i)
  PROVE  IngestInv'
<1> DEFINE at == IF ingests[i].at = "storing" THEN "committed" ELSE "failed"
<1>1. /\ stored' = Put(stored, i) /\ Goes(i, at) /\ UNCHANGED <<served, running>>
      /\ Underway(i) /\ at \in IngestStates /\ i \in Nat \ {0}
  BY DEF Commits, InStore, Underway, IngestStates, IngestInv, IngestTypes
<1>2. IngestTypes
  BY DEF IngestInv
<1> HIDE DEF at
<1>3. /\ ingests' \in Seq(Requests) /\ DOMAIN ingests' = DOMAIN ingests
      /\ ingests'[i].at = at
      /\ \A j \in DOMAIN ingests :
           /\ ingests'[j].assets = ingests[j].assets /\ ingests'[j].alone = ingests[j].alone
           /\ j # i => ingests'[j].at = ingests[j].at
  BY <1>1, <1>2, GoesFacts
<1>4. \A j \in DOMAIN ingests : Underway(j)' => Underway(j)
  BY <1>1, <1>3 DEF Underway
<1>5. AloneIsLast' /\ \A j \in DOMAIN ingests, a \in Assets : Uncontested(j, a)' => Uncontested(j, a)
  BY <1>3, <1>4, AloneStays
<1>6. /\ stored' \in [Assets -> Nat]
      /\ \A a \in Assets : stored'[a] = IF a \in ingests[i].assets THEN i ELSE stored[a]
  BY <1>1, <1>2 DEF Put, IngestTypes
<1>7. IngestTypes'
  BY <1>1, <1>2, <1>3, <1>6 DEF IngestTypes
<1>8. at # "done" /\ \A j \in DOMAIN ingests : ingests[j].assets \subseteq Assets
  BY <1>2, RequestFacts DEF at
<1>9. RowsExist'
  BY <1>1, <1>3, <1>6, <1>8 DEF IngestInv, RowsExist, Acknowledged
<1>10. OwnRows'
  <2>1. SUFFICES ASSUME NEW j \in DOMAIN ingests, NEW a \in ingests[j].assets, Uncontested(j, a)
                 PROVE  /\ Acknowledged(j)' => stored'[a] = j
                        /\ ingests'[j].at = "done" => served[a] = j \/ running # "yes"
    BY <1>1, <1>3, <1>5, <1>8 DEF OwnRows
  <2>2. CASE j = i
    BY <1>3, <1>6, <1>8, <2>1, <2>2
  <2>3. CASE j # i
    <3>1. a \notin ingests[i].assets
      BY <1>1, <1>8, <2>1, <2>3, UncontestedIsSpared
    <3> QED
      BY <1>3, <1>6, <1>8, <2>1, <2>3, <3>1 DEF IngestInv, OwnRows, Acknowledged
  <2> QED
    BY <2>2, <2>3
<1> QED
  BY <1>5, <1>7, <1>9, <1>10 DEF IngestInv

\* A request that fails, in the store or behind it, gives up what it had.
LEMMA FailureKeeps ==
  ASSUME IngestInv, NEW i \in DOMAIN ingests, RolledBack(i) \/ AnswerLost(i)
  PROVE  IngestInv'
<1>1. Goes(i, "failed") /\ UNCHANGED <<stored, served, running>>
  BY DEF RolledBack, AnswerLost
<1>2. IngestTypes
  BY DEF IngestInv
<1>3. /\ ingests' \in Seq(Requests) /\ DOMAIN ingests' = DOMAIN ingests
      /\ ingests'[i].at = "failed"
      /\ \A j \in DOMAIN ingests :
           /\ ingests'[j].assets = ingests[j].assets /\ ingests'[j].alone = ingests[j].alone
           /\ j # i => ingests'[j].at = ingests[j].at
  BY <1>1, <1>2, GoesFacts DEF IngestStates
<1>4. \A j \in DOMAIN ingests : Underway(j)' => Underway(j)
  BY <1>3 DEF Underway
<1>5. AloneIsLast' /\ \A j \in DOMAIN ingests, a \in Assets : Uncontested(j, a)' => Uncontested(j, a)
  BY <1>3, <1>4, AloneStays
<1>6. IngestTypes'
  BY <1>1, <1>2, <1>3 DEF IngestTypes
<1>7. \A j \in DOMAIN ingests : ingests[j].assets \subseteq Assets
  BY <1>2, RequestFacts
<1>8. \A j \in DOMAIN ingests : /\ Acknowledged(j)' => Acknowledged(j)
                                /\ ingests'[j].at = "done" => ingests[j].at = "done"
  BY <1>3 DEF Acknowledged
<1>9. RowsExist' /\ OwnRows'
  BY <1>1, <1>3, <1>5, <1>7, <1>8 DEF IngestInv, RowsExist, OwnRows
<1> QED
  BY <1>5, <1>6, <1>9 DEF IngestInv

\* What is served is what is stored: only a committed request gets there.
LEMMA ServedKeeps ==
  ASSUME IngestInv, NEW i \in DOMAIN ingests, Served(i)
  PROVE  IngestInv'
<1>1. /\ ingests[i].at = "committed" /\ served' = Put(served, i) /\ Goes(i, "done")
      /\ UNCHANGED <<stored, running>> /\ i \in Nat \ {0}
  BY DEF Served, MayServe, IngestInv, IngestTypes
<1>2. IngestTypes
  BY DEF IngestInv
<1>3. /\ ingests' \in Seq(Requests) /\ DOMAIN ingests' = DOMAIN ingests
      /\ ingests'[i].at = "done"
      /\ \A j \in DOMAIN ingests :
           /\ ingests'[j].assets = ingests[j].assets /\ ingests'[j].alone = ingests[j].alone
           /\ j # i => ingests'[j].at = ingests[j].at
  BY <1>1, <1>2, GoesFacts DEF IngestStates
<1>4. \A j \in DOMAIN ingests : Underway(j)' => Underway(j)
  BY <1>3 DEF Underway
<1>5. AloneIsLast' /\ \A j \in DOMAIN ingests, a \in Assets : Uncontested(j, a)' => Uncontested(j, a)
  BY <1>3, <1>4, AloneStays
<1>6. /\ served' \in [Assets -> Nat]
      /\ \A a \in Assets : served'[a] = IF a \in ingests[i].assets THEN i ELSE served[a]
  BY <1>1, <1>2 DEF Put, IngestTypes
<1>7. IngestTypes'
  BY <1>1, <1>2, <1>3, <1>6 DEF IngestTypes
<1>8. \A j \in DOMAIN ingests : /\ ingests[j].assets \subseteq Assets
                                /\ Acknowledged(j)' <=> Acknowledged(j)
  BY <1>1, <1>2, <1>3, RequestFacts DEF Acknowledged
<1>9. RowsExist'
  BY <1>1, <1>3, <1>6, <1>8 DEF IngestInv, RowsExist, Acknowledged
<1>10. OwnRows'
  <2>1. SUFFICES ASSUME NEW j \in DOMAIN ingests, NEW a \in ingests[j].assets, Uncontested(j, a)
                 PROVE  /\ Acknowledged(j) => stored[a] = j
                        /\ ingests'[j].at = "done" => served'[a] = j \/ running # "yes"
    BY <1>1, <1>3, <1>5, <1>8 DEF OwnRows
  <2>2. Acknowledged(j) => stored[a] = j
    BY <2>1 DEF IngestInv, OwnRows
  <2>3. CASE j = i
    BY <1>6, <1>8, <2>1, <2>2, <2>3
  <2>4. CASE j # i
    <3>1. a \notin ingests[i].assets
      BY <1>1, <1>8, <2>1, <2>4, UncontestedIsSpared DEF Underway
    <3> QED
      BY <1>3, <1>6, <1>8, <2>1, <2>2, <2>4, <3>1 DEF IngestInv, OwnRows
  <2> QED
    BY <2>3, <2>4
<1> QED
  BY <1>5, <1>7, <1>9, <1>10 DEF IngestInv

\* A crash takes what is served away and what is only committed with it; a start serves
\* what is stored.
LEMMA RestartKeeps ==
  ASSUME IngestInv, IngestCrash \/ Rehydrate
  PROVE  IngestInv'
<1>0. IngestTypes /\ \A j \in DOMAIN ingests : ingests[j].assets \subseteq Assets
  BY RequestFacts DEF IngestInv
<1>1. CASE IngestCrash
  <2>1. /\ running' = "no" /\ served' = None /\ UNCHANGED stored
        /\ ingests' = [j \in DOMAIN ingests |-> [ingests[j] EXCEPT !.at =
             CASE @ = "storing" -> "orphaned" [] @ = "committed" -> "failed" [] OTHER -> @]]
    BY <1>1 DEF IngestCrash
  <2>2. /\ ingests' \in Seq(Requests) /\ DOMAIN ingests' = DOMAIN ingests
        /\ \A j \in DOMAIN ingests :
             /\ ingests'[j].assets = ingests[j].assets /\ ingests'[j].alone = ingests[j].alone
             /\ Underway(j)' => Underway(j)
             /\ Acknowledged(j)' => Acknowledged(j) /\ ingests[j].at = "done"
    <3> DEFINE Ended(at) == CASE at = "storing" -> "orphaned" [] at = "committed" -> "failed"
                              [] OTHER -> at
    <3>1. \A j \in DOMAIN ingests :
            LET r == [ingests[j] EXCEPT !.at = Ended(ingests[j].at)]
            IN  /\ r \in Requests /\ r.at = Ended(ingests[j].at)
                /\ r.assets = ingests[j].assets /\ r.alone = ingests[j].alone
      BY <1>0, RequestFacts DEF Requests, IngestStates
    <3>2. ingests' = [j \in DOMAIN ingests |-> [ingests[j] EXCEPT !.at = Ended(ingests[j].at)]]
      BY <2>1
    <3>3. DOMAIN ingests = 1 .. Len(ingests) /\ Len(ingests) \in Nat
      BY <1>0 DEF IngestTypes
    <3>4. /\ DOMAIN ingests' = DOMAIN ingests
          /\ \A j \in DOMAIN ingests : ingests'[j] = [ingests[j] EXCEPT !.at = Ended(ingests[j].at)]
      BY <3>2
    <3>5. ingests' \in Seq(Requests)
      <4>1. ingests' = [j \in 1 .. Len(ingests) |-> ingests'[j]]
        BY <3>2, <3>3, <3>4
      <4>2. \A j \in 1 .. Len(ingests) : ingests'[j] \in Requests
        BY <3>1, <3>3, <3>4
      <4> QED
        BY <3>3, <4>1, <4>2
    <3> HIDE DEF Ended
    <3>6. \A j \in DOMAIN ingests :
            /\ ingests'[j].at = Ended(ingests[j].at)
            /\ ingests'[j].assets = ingests[j].assets /\ ingests'[j].alone = ingests[j].alone
      BY <3>1, <3>4
    <3> QED
      BY <3>4, <3>5, <3>6 DEF Ended, Underway, Acknowledged
  <2>3. AloneIsLast' /\ \A j \in DOMAIN ingests, a \in Assets : Uncontested(j, a)' => Uncontested(j, a)
    BY <2>2, AloneStays
  <2>4. served' \in [Assets -> Nat] /\ \A a \in Assets : served'[a] = 0
    BY <2>1 DEF None
  <2>5. IngestTypes'
    BY <1>0, <2>1, <2>2, <2>4 DEF IngestTypes
  <2>6. RowsExist'
    BY <1>0, <2>1, <2>2, <2>4 DEF IngestInv, RowsExist
  <2>7. OwnRows'
    BY <1>0, <2>1, <2>2, <2>3 DEF IngestInv, OwnRows
  <2> QED
    BY <2>3, <2>5, <2>6, <2>7 DEF IngestInv
<1>2. CASE Rehydrate
  <2>1. /\ UNCHANGED <<ingests, stored>> /\ running' \in {"yes", "blind"}
        /\ \/ running' = "yes" /\ served' = stored
           \/ running' = "blind" /\ served' = None
    BY <1>2 DEF Rehydrate
  <2>2. served' \in [Assets -> Nat]
    BY <1>0, <2>1 DEF None, IngestTypes
  <2>3. IngestTypes' /\ AloneIsLast'
    BY <1>0, <2>1, <2>2 DEF IngestInv, IngestTypes, AloneIsLast, Underway
  <2>4. RowsExist'
    BY <1>0, <2>1 DEF IngestInv, IngestTypes, RowsExist, Acknowledged, None
  <2>5. OwnRows'
    BY <1>0, <2>1 DEF IngestInv, OwnRows, Acknowledged, Uncontested
  <2> QED
    BY <2>3, <2>4, <2>5 DEF IngestInv
<1> QED
  BY <1>1, <1>2

\* The overlay shows nothing a restart would take away, and an acknowledged asset nobody
\* else wrote is stored and shown as it was sent, for any assets and overlapping requests.
THEOREM OverlayIsStored == Spec => []ServedIsStored
<1>1. Init => IngestInv
  <2>1. Init => ingests = <<>> /\ stored = None /\ served = None /\ running = "yes"
    BY DEF Init, IngestInit
  <2>2. None \in [Assets -> Nat] /\ \A a \in Assets : None[a] = 0
    BY DEF None
  <2>3. <<>> \in Seq(Requests) /\ DOMAIN <<>> = {}
    OBVIOUS
  <2> QED
    BY <2>1, <2>2, <2>3 DEF IngestInv, IngestTypes, RowsExist, AloneIsLast, OwnRows
<1>2. IngestInv /\ [Next]_vars => IngestInv'
  <2>1. [Next]_vars => IngestStep \/ UNCHANGED ingestVars
    BY DEF Next, WebStep, webVars, vars
  <2>2. IngestInv /\ UNCHANGED ingestVars => IngestInv'
    BY DEF ingestVars, IngestInv, IngestTypes, RowsExist, AloneIsLast, OwnRows, Acknowledged,
           Underway, Uncontested
  <2>3. IngestInv /\ IngestStep => IngestInv'
    BY IngestKeeps, CommitsKeeps, FailureKeeps, ServedKeeps, RestartKeeps DEF IngestStep
  <2> QED
    BY <2>1, <2>2, <2>3
<1>3. IngestInv => ServedIsStored
  BY IngestAssumption
     DEF IngestAssumption, IngestInv, RowsExist, OwnRows, ServedIsStored, Overlay, Acknowledged
<1> QED
  BY <1>1, <1>2, <1>3, PTL DEF Spec

-------------------------------------------------------------------------------
(* The page that connects Pilot *)

SiteTypes ==
  [page: {"none"} \cup Pages, mount: Nat, stage: {"idle", "loading", "waiting", "connected", "error"},
   waits: Nat, library: {"none", "loading", "ready"},
   capture: {"idle", "capturing", "captured", "error"}]

PagesTypes ==
  /\ bridge \in Bridges
  /\ site \in SiteTypes
  /\ callback \in Nat /\ callback <= site.mount
  /\ notices \in Seq(BOOLEAN)

\* The last call of the callback that Pilot has made tells of the link as it is.
NoticesFollow == notices # <<>> => notices[Len(notices)] = bridge.link

PagesInv == PagesTypes /\ NoticesFollow /\ LinkIsShown

\* A step that leaves page, callback, calls and link alone keeps what the page shows.
LEMMA LinkStays ==
  ASSUME PagesInv, UNCHANGED <<site, callback, notices>>, bridge' \in Bridges,
         bridge'.link = bridge.link
  PROVE  PagesInv'
BY DEF PagesInv, PagesTypes, NoticesFollow, LinkIsShown, LinkStage

\* A page that is opened anew has not installed the callback yet.
LEMMA MountedFacts ==
  ASSUME PagesInv, NEW p \in Pages
  PROVE  Mounted(p) \in SiteTypes /\ Mounted(p).mount = site.mount + 1
<1>1. LinkStage \in {"waiting", "connected"}
  BY DEF LinkStage
<1>2. StageAtMount \in {"idle", "waiting", "connected", "error"}
  <2> DEFINE Fails == bridge.present /\ bridge.fails
             Asks  == bridge.present /\ ~bridge.fails /\ bridge.verified /\ "thing" \in bridge.loaded
  <2>1. StageAtMount = CASE Fails -> "error" [] Asks -> LinkStage [] OTHER -> "idle"
    BY DEF StageAtMount
  <2>2. Asks => ~Fails
    OBVIOUS
  <2> HIDE DEF Fails, Asks
  <2>3. CASE Fails
    BY <2>1, <2>2, <2>3
  <2>4. CASE Asks
    BY <1>1, <2>1, <2>2, <2>4
  <2>5. CASE ~Fails /\ ~Asks
    BY <2>1, <2>5
  <2> QED
    BY <2>3, <2>4, <2>5
<1>3. site.mount \in Nat
  BY DEF PagesInv, PagesTypes, SiteTypes
<1>4. NoSite \in SiteTypes
  BY DEF NoSite, SiteTypes
<1>5. p \in {"none"} \cup Pages /\ site.mount + 1 \in Nat
  BY <1>3
<1> QED
  BY <1>2, <1>4, <1>5 DEF SiteTypes, Mounted

\* Opening a page.
LEMMA OpenPageStep ==
  ASSUME PagesInv, NEW p \in Pages, LoadPage(p) \/ Navigate(p)
  PROVE  PagesInv'
<1>1. /\ site' = Mounted(p) /\ bridge' = bridge
      /\ callback' \in {0, callback} /\ notices' \in {<<>>, notices}
  BY DEF LoadPage, Navigate, shellVars
<1>2. site' \in SiteTypes /\ site'.mount = site.mount + 1
  BY <1>1, MountedFacts
<1>3. site.mount \in Nat
  BY DEF PagesInv, PagesTypes, SiteTypes
<1>4. callback' \in Nat /\ callback' < site'.mount
  BY <1>1, <1>2, <1>3 DEF PagesInv, PagesTypes
<1>5. notices' \in Seq(BOOLEAN)
  <2>1. <<>> \in Seq(BOOLEAN)
    OBVIOUS
  <2> QED
    BY <1>1, <2>1 DEF PagesInv, PagesTypes
<1>6. PagesTypes'
  BY <1>1, <1>2, <1>3, <1>4, <1>5 DEF PagesInv, PagesTypes
<1>7. NoticesFollow'
  BY <1>1 DEF PagesInv, NoticesFollow
<1>8. LinkIsShown'
  BY <1>2, <1>3, <1>4 DEF LinkIsShown
<1> QED
  BY <1>6, <1>7, <1>8 DEF PagesInv

\* A refused or failed attempt to connect shows an error.
LEMMA RefusedStep ==
  ASSUME PagesInv, ConnectRefused
  PROVE  PagesInv'
<1>1. /\ site' = [site EXCEPT !.stage = "error"] /\ UNCHANGED <<callback, notices>>
      /\ bridge' \in {bridge, [bridge EXCEPT !.verified = TRUE]}
  BY DEF ConnectRefused
<1>2. bridge' \in Bridges /\ bridge'.link = bridge.link
  BY <1>1 DEF PagesInv, PagesTypes, Bridges
<1>3. site' \in SiteTypes /\ site'.stage = "error" /\ site'.mount = site.mount
  BY <1>1 DEF PagesInv, PagesTypes, SiteTypes
<1> QED
  BY <1>1, <1>2, <1>3 DEF PagesInv, PagesTypes, NoticesFollow, LinkIsShown

\* Connecting installs the callback, and then waits or shows an error.
LEMMA ConnectStep ==
  ASSUME PagesInv, Connect
  PROVE  PagesInv'
<1>1. /\ callback' = site.mount /\ notices' = notices
      /\ \/ /\ bridge' = [bridge EXCEPT !.verified = TRUE, !.loaded = bridge.loaded \cup {"thing"}]
            /\ site' = [site EXCEPT !.stage = "loading", !.waits = site.waits + 1]
         \/ /\ bridge' = [bridge EXCEPT !.verified = TRUE]
            /\ site' = [site EXCEPT !.stage = "error"]
  BY DEF Connect
<1>2. bridge' \in Bridges /\ bridge'.link = bridge.link
  BY <1>1 DEF PagesInv, PagesTypes, Bridges
<1>3. /\ site' \in SiteTypes /\ site'.mount = site.mount
      /\ site'.stage = "error" \/ site'.waits # 0
  <2>1. site.waits \in Nat /\ site \in SiteTypes
    BY DEF PagesInv, PagesTypes, SiteTypes
  <2>2. CASE site' = [site EXCEPT !.stage = "loading", !.waits = site.waits + 1]
    <3>1. site.waits + 1 \in Nat /\ site.waits + 1 # 0
      BY <2>1
    <3>2. site'.waits = site.waits + 1 /\ site'.mount = site.mount
      BY <2>1, <2>2 DEF SiteTypes
    <3> QED
      BY <2>1, <2>2, <3>1, <3>2 DEF SiteTypes
  <2>3. CASE site' = [site EXCEPT !.stage = "error"]
    BY <2>1, <2>3 DEF SiteTypes
  <2> QED
    BY <1>1, <2>2, <2>3
<1> QED
  BY <1>1, <1>2, <1>3 DEF PagesInv, PagesTypes, SiteTypes, NoticesFollow, LinkIsShown

\* The wait's end asks Pilot for the link.
LEMMA WaitedStep ==
  ASSUME PagesInv, Waited
  PROVE  PagesInv'
<1>1. /\ site.waits > 0 /\ UNCHANGED <<bridge, callback, notices>>
      /\ site' = [site EXCEPT !.waits = site.waits - 1, !.stage = AfterWait]
  BY DEF Waited, shellVars
<1>2. AfterWait \in {"error", "connected", "waiting"}
  BY DEF AfterWait, LinkStage
<1>3. site' \in SiteTypes /\ site'.mount = site.mount /\ site'.stage = AfterWait
  <2>1. site \in SiteTypes /\ site.waits \in Nat
    BY DEF PagesInv, PagesTypes, SiteTypes
  <2>2. site.waits - 1 \in Nat
    BY <1>1, <2>1
  <2> QED
    BY <1>1, <1>2, <2>1, <2>2 DEF SiteTypes
<1>4. PagesTypes' /\ NoticesFollow'
  BY <1>1, <1>3 DEF PagesInv, PagesTypes, NoticesFollow
<1>5. LinkIsShown'
  BY <1>1, <1>3 DEF LinkIsShown, AfterWait, LinkStage
<1> QED
  BY <1>4, <1>5 DEF PagesInv

\* A change of the link is on its way to the callback.
LEMMA LinkChangesStep ==
  ASSUME PagesInv, LinkChanges
  PROVE  PagesInv'
<1> DEFINE link == ~bridge.link
<1>1. link \in BOOLEAN
  BY Zenon
<1>2. /\ bridge' = [bridge EXCEPT !.link = link] /\ notices' = Append(notices, link)
      /\ UNCHANGED <<site, callback>>
  BY DEF LinkChanges
<1> HIDE DEF link
<1>3. bridge' \in Bridges /\ bridge'.link = link
  BY <1>1, <1>2 DEF PagesInv, PagesTypes, Bridges
<1>4. /\ notices' \in Seq(BOOLEAN) /\ notices' # <<>> /\ notices'[Len(notices')] = link
  BY <1>1, <1>2, AppendFacts DEF PagesInv, PagesTypes
<1> QED
  BY <1>2, <1>3, <1>4 DEF PagesInv, PagesTypes, NoticesFollow, LinkIsShown

\* The last call shows the link as it is.
LEMMA NotifiedStep ==
  ASSUME PagesInv, Notified
  PROVE  PagesInv'
<1>1. /\ notices # <<>> /\ notices' = Tail(notices) /\ UNCHANGED <<bridge, callback>>
      /\ site' = IF site.page = "bootstrap" /\ callback = site.mount
                 THEN [site EXCEPT !.stage = IF Head(notices) THEN "connected" ELSE "waiting"]
                 ELSE site
  BY DEF Notified, shellVars
<1>2. /\ Len(notices) \in Nat \ {0} /\ notices' \in Seq(BOOLEAN)
      /\ Len(notices') = Len(notices) - 1
      /\ \A i \in 1 .. Len(notices') : notices'[i] = notices[i + 1]
      /\ Head(notices) = notices[1] /\ Head(notices) \in BOOLEAN
  BY <1>1, TailFacts DEF PagesInv, PagesTypes
<1>3. site' \in SiteTypes /\ site'.mount = site.mount
  BY <1>1 DEF PagesInv, PagesTypes, SiteTypes
<1>4. PagesTypes'
  BY <1>1, <1>2, <1>3 DEF PagesInv, PagesTypes
<1>5. NoticesFollow'
  <2>1. SUFFICES ASSUME notices' # <<>> PROVE notices'[Len(notices')] = bridge.link
    BY <1>1 DEF NoticesFollow
  <2>2. Len(notices') \in Nat \ {0}
    BY <1>2, <2>1, EmptyFacts
  <2>3. notices'[Len(notices')] = notices[Len(notices)]
    BY <1>2, <2>2
  <2> QED
    BY <1>1, <2>3 DEF PagesInv, NoticesFollow
<1>6. LinkIsShown'
  <2>1. SUFFICES ASSUME site'.page = "bootstrap", callback = site.mount, notices' = <<>>
                 PROVE  site'.stage = LinkStage'
    BY <1>1, <1>3 DEF LinkIsShown
  <2>2. Len(notices) = 1
    BY <1>2, <2>1
  <2>3. Head(notices) = bridge.link
    BY <1>1, <1>2, <2>2 DEF PagesInv, NoticesFollow
  <2>4. site.page = "bootstrap"
    BY <1>1, <2>1 DEF PagesInv, PagesTypes, SiteTypes
  <2>5. site'.stage = IF Head(notices) THEN "connected" ELSE "waiting"
    BY <1>1, <2>1, <2>4 DEF PagesInv, PagesTypes, SiteTypes
  <2> QED
    BY <1>1, <2>3, <2>5 DEF LinkStage
<1> QED
  BY <1>4, <1>5, <1>6 DEF PagesInv

\* The library and the evidence do not touch what the page shows of the link.
LEMMA OtherPageStep ==
  ASSUME PagesInv,
         \/ EnableLibrary \/ LibraryWaited \/ Capture
         \/ \E c \in captures : EvidenceTaken(c) \/ CaptureAnswered(c)
  PROVE  PagesInv'
<1>1. UNCHANGED <<callback, notices>>
  BY DEF EnableLibrary, LibraryWaited, Capture, EvidenceTaken, CaptureAnswered
<1>2. bridge' \in Bridges /\ bridge'.link = bridge.link
  <2>1. bridge' \in {bridge, [bridge EXCEPT !.loaded = bridge.loaded \cup {"api"}],
                     [bridge EXCEPT !.loaded = bridge.loaded \cup {"api", "mission"}]}
    BY DEF EnableLibrary, LibraryWaited, Capture, EvidenceTaken, CaptureAnswered, shellVars
  <2> QED
    BY <2>1 DEF PagesInv, PagesTypes, Bridges
<1>3. \E l \in {"none", "loading", "ready"}, c \in {"capturing", "captured", "error"} :
        site' \in {site, [site EXCEPT !.library = l], [site EXCEPT !.capture = c]}
  BY DEF EnableLibrary, LibraryWaited, Capture, EvidenceTaken, CaptureAnswered
<1>4. /\ site' \in SiteTypes /\ site'.page = site.page /\ site'.mount = site.mount
      /\ site'.stage = site.stage /\ site'.waits = site.waits
  BY <1>3 DEF PagesInv, PagesTypes, SiteTypes
<1> QED
  BY <1>1, <1>2, <1>4 DEF PagesInv, PagesTypes, NoticesFollow, LinkIsShown, LinkStage

\* The page shows the link Pilot has once nothing is pending, however the callback, the
\* wait, and the page's own mounts interleave.
THEOREM PilotLinkIsShown == Spec => []LinkIsShown
<1>1. Init => PagesInv
  <2>1. NoBridge \in Bridges /\ NoSite \in SiteTypes /\ <<>> \in Seq(BOOLEAN)
    BY DEF NoBridge, Bridges, NoSite, SiteTypes
  <2>2. Init => bridge = NoBridge /\ site = NoSite /\ callback = 0 /\ notices = <<>>
    BY DEF Init, ShellInit, PagesInit
  <2> QED
    BY <2>1, <2>2 DEF PagesInv, PagesTypes, NoticesFollow, LinkIsShown, NoSite
<1>2. PagesInv /\ [Next]_vars => PagesInv'
  <2>1. ASSUME PagesInv, [Next]_vars,
               UNCHANGED <<site, callback, notices>>, ShellStep \/ UNCHANGED bridge
        PROVE  PagesInv'
    <3>1. bridge' \in Bridges /\ bridge'.link = bridge.link
      BY <2>1 DEF ShellStep, RuntimeLoads, BridgeChanges, ReadBridge, TopologyChanges, PagesInv, PagesTypes
    <3> QED
      BY <2>1, <3>1, LinkStays
  <2>2. [Next]_vars => \/ PagesStep
                       \/ UNCHANGED <<site, callback, notices>> /\ (ShellStep \/ UNCHANGED bridge)
    BY DEF Next, WebStep, WorkspaceStep, OpenDesk, CloseDesk, RenderDesk, PollTopology, Polled,
           PollFails, Pick, ShowView, TypeRoute, FlightPathBack, webVars, pageVars, shellVars, vars
  <2>3. PagesInv /\ PagesStep => PagesInv'
    BY OpenPageStep, RefusedStep, ConnectStep, WaitedStep, LinkChangesStep, NotifiedStep,
       OtherPageStep DEF PagesStep
  <2> QED
    BY <2>1, <2>2, <2>3
<1>3. PagesInv => LinkIsShown
  BY DEF PagesInv
<1> QED
  BY <1>1, <1>2, <1>3, PTL DEF Spec

-------------------------------------------------------------------------------
(* The workspace *)

Desks ==
  [open: BOOLEAN, mount: Nat, pairs: SUBSET Pairs, selected: Pairs \cup {NoPair},
   source: {"auto", "user"}, view: DeskViews, route: Routes \cup {NoRoute}]

\* What the selection becomes when a render's effects have run.
SourceAfter(r)   == IF IsGone(r) THEN "auto" ELSE r.source
SelectedAfter(r) == IF IsGone(r) THEN NoPair ELSE IF r.source = "auto" THEN Automatic(r) ELSE r.selected

WorkspaceTypes ==
  /\ desk \in Desks
  /\ desk.source = "user" => desk.selected # NoPair
  /\ seen.pairs \subseteq Pairs
  /\ seen.source \in {"auto", "user"}
  /\ seen.source = "user" => seen.selected # NoPair
  /\ topology \subseteq Pairs
  /\ \A q \in polls : q.pairs \subseteq Pairs

\* While the page is open its last render's effects have run, and since then the operator
\* may have picked another pair of that render.
SelectionFollows ==
  desk.open =>
    \/ desk.source = SourceAfter(seen) /\ desk.selected = SelectedAfter(seen)
    \/ desk.source = "user" /\ desk.selected \in seen.pairs \ {seen.selected}

\* What is loaded is the component of the last render, unless the operator went back from
\* the history; nothing while the page is closed.
NativeFollows ==
  /\ ~desk.open => native = {}
  /\ desk.open => /\ native \subseteq Component(seen)
                  /\ seen.view # "history" => native = Component(seen)

WorkspaceInv == WorkspaceTypes /\ SelectionFollows /\ NativeFollows

\* A component names its view.
LEMMA ComponentView ==
  ASSUME NEW r, NEW x \in Component(r)
  PROVE  x[1] = r.view
BY DEF Component

\* An automatic selection is a pair or nothing.
LEMMA AutomaticType ==
  ASSUME NEW r, r.pairs \subseteq Pairs, r.selected \in Pairs \cup {NoPair}
  PROVE  Automatic(r) \in Pairs \cup {NoPair}
<1>1. Configured \in Pairs \cup {NoPair}
  BY WorkspaceAssumption DEF WorkspaceAssumption
<1>2. r.pairs # {} => FirstOf(r.pairs) \in Pairs
  BY WorkspaceAssumption DEF WorkspaceAssumption
<1>3. CASE Follows(r)
  BY <1>3 DEF Automatic, Follows
<1>4. CASE ~Follows(r)
  BY <1>1, <1>2, <1>4 DEF Automatic
<1> QED
  BY <1>3, <1>4

\* Opening the page selects automatically and loads the component of its first render.
LEMMA OpenDeskStep ==
  ASSUME WorkspaceInv, OpenDesk
  PROVE  WorkspaceInv'
<1> DEFINE r == Look([NoDesk EXCEPT !.open = TRUE])
<1>1. /\ r.pairs = {} /\ r.selected = NoPair /\ r.source = "auto" /\ r.view = "project"
  BY DEF Look, NoDesk
<1>2. /\ seen' = r /\ native' = Component(r) /\ UNCHANGED topology
      /\ desk' = [NoDesk EXCEPT !.open = TRUE, !.mount = desk.mount + 1, !.selected = Automatic(r)]
      /\ polls' = polls \cup {[by |-> desk.mount + 1, pairs |-> topology]}
  BY DEF OpenDesk, shellVars
<1> HIDE DEF r
<1>3. Automatic(r) \in Pairs \cup {NoPair}
  BY <1>1, AutomaticType
<1>4. NoDesk \in Desks /\ NoDesk.source = "auto" /\ desk.mount + 1 \in Nat
  BY DEF NoDesk, Desks, DeskViews, WorkspaceInv, WorkspaceTypes
<1>5. desk' \in Desks /\ desk'.source = "auto" /\ desk'.selected = Automatic(r) /\ desk'.open
  BY <1>2, <1>3, <1>4 DEF Desks
<1>6. WorkspaceTypes'
  BY <1>1, <1>2, <1>5 DEF WorkspaceInv, WorkspaceTypes
<1>7. SelectionFollows'
  BY <1>1, <1>2, <1>5 DEF SelectionFollows, SourceAfter, SelectedAfter, IsGone
<1>8. NativeFollows'
  BY <1>2, <1>5 DEF NativeFollows
<1> QED
  BY <1>6, <1>7, <1>8 DEF WorkspaceInv

\* Leaving the page unloads what it had loaded.
LEMMA CloseDeskStep ==
  ASSUME WorkspaceInv, CloseDesk
  PROVE  WorkspaceInv'
<1>1. /\ desk.open /\ desk' = [NoDesk EXCEPT !.mount = desk.mount]
      /\ native' = native \ Component(seen) /\ UNCHANGED <<topology, seen, polls>>
  BY DEF CloseDesk, shellVars
<1>2. NoDesk \in Desks /\ NoDesk.source = "auto" /\ ~NoDesk.open /\ desk.mount \in Nat
  BY DEF NoDesk, Desks, DeskViews, WorkspaceInv, WorkspaceTypes
<1>3. desk' \in Desks /\ desk'.source = "auto" /\ ~desk'.open
  BY <1>1, <1>2 DEF Desks
<1> QED
  BY <1>1, <1>3 DEF WorkspaceInv, WorkspaceTypes, SelectionFollows, NativeFollows

\* A render runs the effects of what it has seen.
LEMMA RenderDeskStep ==
  ASSUME WorkspaceInv, RenderDesk
  PROVE  WorkspaceInv'
<1> DEFINE r == Look(desk)
<1>1. /\ desk.open /\ seen' = r /\ native' = Loaded(r) /\ UNCHANGED <<topology, polls>>
      /\ Selecting(r)
  BY DEF RenderDesk, shellVars
<1>2. /\ r.pairs = desk.pairs /\ r.selected = desk.selected /\ r.source = desk.source
      /\ r.view = desk.view
  BY DEF Look
<1> HIDE DEF r
<1>3. /\ desk \in Desks /\ desk.pairs \subseteq Pairs /\ desk.selected \in Pairs \cup {NoPair}
      /\ desk.source \in {"auto", "user"}
  BY DEF WorkspaceInv, WorkspaceTypes, Desks
<1>4. Automatic(r) \in Pairs \cup {NoPair}
  BY <1>2, <1>3, AutomaticType
<1>5. /\ desk' \in Desks /\ desk'.open
      /\ desk'.source = SourceAfter(r) /\ desk'.selected = SelectedAfter(r)
  <2>1. CASE IsGone(r)
    <3>1. desk' = [desk EXCEPT !.source = "auto", !.selected = NoPair]
      BY <1>1, <2>1 DEF Selecting, IsGone
    <3> QED
      BY <1>1, <1>3, <2>1, <3>1 DEF Desks, SourceAfter, SelectedAfter
  <2>2. CASE ~IsGone(r) /\ r.source = "auto"
    <3>1. desk' = [desk EXCEPT !.selected = Automatic(r)]
      BY <1>1, <2>2 DEF Selecting
    <3> QED
      BY <1>1, <1>2, <1>3, <1>4, <2>2, <3>1 DEF Desks, SourceAfter, SelectedAfter
  <2>3. CASE ~IsGone(r) /\ r.source # "auto"
    <3>1. desk' = desk
      BY <1>1, <2>3 DEF Selecting
    <3> QED
      BY <1>1, <1>2, <1>3, <2>3, <3>1 DEF SourceAfter, SelectedAfter
  <2> QED
    BY <2>1, <2>2, <2>3
<1>6. WorkspaceTypes'
  BY <1>1, <1>2, <1>3, <1>5 DEF WorkspaceInv, WorkspaceTypes, SourceAfter, SelectedAfter
<1>7. SelectionFollows'
  BY <1>1, <1>5 DEF SelectionFollows
<1>8. NativeFollows'
  <2>1. CASE Component(r) = Component(seen)
    <3>1. native' = native /\ native \subseteq Component(r)
      BY <1>1, <2>1 DEF Loaded, WorkspaceInv, NativeFollows
    <3>2. r.view # "history" => native = Component(r)
      <4>1. CASE seen.view # "history"
        BY <1>1, <2>1, <4>1 DEF WorkspaceInv, NativeFollows
      <4>2. CASE seen.view = "history" /\ r.view # "history"
        <5>1. Component(r) = {}
          BY <2>1, <4>2, ComponentView
        <5> QED
          BY <3>1, <5>1
      <4> QED
        BY <4>1, <4>2
    <3> QED
      BY <1>1, <1>5, <3>1, <3>2 DEF NativeFollows
  <2>2. CASE Component(r) # Component(seen)
    <3>1. native' = Component(r)
      BY <1>1, <2>2 DEF Loaded, WorkspaceInv, NativeFollows
    <3> QED
      BY <1>1, <1>5, <3>1 DEF NativeFollows
  <2> QED
    BY <2>1, <2>2
<1> QED
  BY <1>6, <1>7, <1>8 DEF WorkspaceInv

\* The operator and the poll change the desk alone, or unload the history.
LEMMA OtherDeskStep ==
  ASSUME WorkspaceInv,
         \/ PollTopology \/ FlightPathBack
         \/ \E q \in polls : Polled(q) \/ PollFails(q)
         \/ \E pair \in Pairs : Pick(pair)
         \/ \E v \in DeskViews : ShowView(v)
         \/ \E id \in Routes \cup {NoRoute} : TypeRoute(id)
  PROVE  WorkspaceInv'
<1>1. CASE PollTopology
  BY <1>1 DEF PollTopology, WorkspaceInv, WorkspaceTypes, SelectionFollows, NativeFollows, shellVars
<1>2. CASE FlightPathBack
  BY <1>2 DEF FlightPathBack, WorkspaceInv, WorkspaceTypes, SelectionFollows, NativeFollows, shellVars
<1>3. ASSUME NEW q \in polls, PollFails(q) PROVE WorkspaceInv'
  BY <1>3 DEF PollFails, WorkspaceInv, WorkspaceTypes, SelectionFollows, NativeFollows, shellVars
<1>4. ASSUME desk' \in Desks, UNCHANGED <<seen, native, topology>>, polls' \subseteq polls,
             desk'.open <=> desk.open,
             \/ desk'.source = desk.source /\ desk'.selected = desk.selected
             \/ desk'.source = "user" /\ desk'.selected \in seen.pairs \ {seen.selected}
      PROVE  WorkspaceInv'
  BY <1>4, ShellAssumption
     DEF ShellAssumption, WorkspaceInv, WorkspaceTypes, SelectionFollows, NativeFollows
<1>5. ASSUME NEW q \in polls, Polled(q) PROVE WorkspaceInv'
  <2>1. /\ desk' \in {desk, [desk EXCEPT !.pairs = q.pairs]} /\ polls' = polls \ {q}
        /\ UNCHANGED <<seen, native, topology>>
    BY <1>5 DEF Polled, shellVars
  <2>2. /\ desk' \in Desks /\ (desk'.open <=> desk.open)
        /\ desk'.source = desk.source /\ desk'.selected = desk.selected
    BY <1>5, <2>1 DEF WorkspaceInv, WorkspaceTypes, Desks
  <2> QED
    BY <1>4, <2>1, <2>2
<1>6. ASSUME NEW pair \in Pairs, Pick(pair) PROVE WorkspaceInv'
  <2>1. /\ desk' = [desk EXCEPT !.source = "user", !.selected = pair]
        /\ pair \in seen.pairs \ {seen.selected} /\ UNCHANGED <<seen, native, topology, polls>>
    BY <1>6 DEF Pick, shellVars
  <2>2. /\ desk' \in Desks /\ (desk'.open <=> desk.open)
        /\ desk'.source = "user" /\ desk'.selected = pair
    BY <1>6, <2>1 DEF WorkspaceInv, WorkspaceTypes, Desks
  <2> QED
    BY <1>4, <2>1, <2>2
<1>7. ASSUME NEW v \in DeskViews, ShowView(v) PROVE WorkspaceInv'
  <2>1. desk' = [desk EXCEPT !.view = v] /\ UNCHANGED <<seen, native, topology, polls>>
    BY <1>7 DEF ShowView, shellVars
  <2>2. /\ desk' \in Desks /\ (desk'.open <=> desk.open)
        /\ desk'.source = desk.source /\ desk'.selected = desk.selected
    BY <1>7, <2>1 DEF WorkspaceInv, WorkspaceTypes, Desks
  <2> QED
    BY <1>4, <2>1, <2>2
<1>8. ASSUME NEW id \in Routes \cup {NoRoute}, TypeRoute(id) PROVE WorkspaceInv'
  <2>1. desk' = [desk EXCEPT !.route = id] /\ UNCHANGED <<seen, native, topology, polls>>
    BY <1>8 DEF TypeRoute, shellVars
  <2>2. /\ desk' \in Desks /\ (desk'.open <=> desk.open)
        /\ desk'.source = desk.source /\ desk'.selected = desk.selected
    BY <1>8, <2>1 DEF WorkspaceInv, WorkspaceTypes, Desks
  <2> QED
    BY <1>4, <2>1, <2>2
<1> QED
  BY <1>1, <1>2, <1>3, <1>5, <1>6, <1>7, <1>8

\* When nothing is left to render, the selection and the loaded component are right.
LEMMA WorkspaceInvImplies ==
  ASSUME WorkspaceInv
  PROVE  WorkspaceFollows
<1>1. CASE ~desk.open
  BY <1>1 DEF WorkspaceInv, NativeFollows, WorkspaceFollows
<1>2. ASSUME desk.open, Unchanged(Look(desk))
      PROVE  /\ desk.source = "user" => desk.selected \in desk.pairs
             /\ desk.source = "auto" /\ Follows(seen) => desk.selected = pilot.pair
             /\ desk.pairs # {} => desk.selected # NoPair
             /\ IF desk.view = "history" THEN native \subseteq Component(seen)
                ELSE native = Component(seen)
  <2>1. /\ seen.pairs = desk.pairs /\ seen.selected = desk.selected /\ seen.source = desk.source
        /\ seen.view = desk.view /\ seen.pilot = pilot
    <3>1. seen = Look(desk)
      BY <1>2 DEF Unchanged
    <3> QED
      BY <3>1 DEF Look
  <2>2. desk.source = SourceAfter(seen) /\ desk.selected = SelectedAfter(seen)
    BY <1>2, <2>1 DEF WorkspaceInv, SelectionFollows
  <2>3. desk.source = "user" => desk.selected # NoPair /\ desk.selected \in desk.pairs
    BY <2>1, <2>2 DEF SourceAfter, IsGone, WorkspaceInv, WorkspaceTypes
  <2>4. desk.source = "auto" => desk.selected = Automatic(seen)
    BY <2>1, <2>2 DEF SelectedAfter, IsGone
  <2>5. desk.source = "auto" /\ Follows(seen) => desk.selected = pilot.pair /\ pilot.pair \in desk.pairs
    BY <2>1, <2>4 DEF Automatic, Follows
  <2>6. desk.pairs # {} => desk.selected # NoPair
    <3>1. desk.pairs \subseteq Pairs /\ desk.source \in {"auto", "user"}
      BY DEF WorkspaceInv, WorkspaceTypes, Desks
    <3>2. desk.pairs # {} => FirstOf(desk.pairs) \in desk.pairs
      BY <3>1, WorkspaceAssumption DEF WorkspaceAssumption
    <3>3. NoPair \notin desk.pairs
      BY <3>1, ShellAssumption DEF ShellAssumption
    <3>4. ASSUME desk.source = "auto", ~Follows(seen), desk.pairs # {} PROVE desk.selected # NoPair
      BY <2>1, <2>4, <3>2, <3>3, <3>4 DEF Automatic
    <3> QED
      BY <2>3, <2>5, <3>1, <3>3, <3>4
  <2> QED
    BY <1>2, <2>1, <2>3, <2>5, <2>6 DEF WorkspaceInv, NativeFollows
<1> QED
  BY <1>1, <1>2 DEF WorkspaceFollows

\* When nothing is left to render, the selection follows operator, Pilot and topology and
\* only the selected aircraft's component is loaded, for any pairs, polls and mounts.
THEOREM SelectionSettles == Spec => []WorkspaceFollows
<1>1. Init => WorkspaceInv
  <2>1. Init => /\ desk = NoDesk /\ native = {} /\ polls = {} /\ seen = Look(NoDesk)
                /\ topology = {}
    BY DEF Init, WorkspaceInit, ShellInit
  <2>2. NoDesk \in Desks /\ NoDesk.source = "auto" /\ ~NoDesk.open /\ NoDesk.pairs = {}
    BY DEF NoDesk, Desks, DeskViews
  <2>3. Look(NoDesk).pairs = {} /\ Look(NoDesk).source = "auto"
    BY <2>2 DEF Look
  <2> QED
    BY <2>1, <2>2, <2>3 DEF WorkspaceInv, WorkspaceTypes, SelectionFollows, NativeFollows
<1>2. WorkspaceInv /\ [Next]_vars => WorkspaceInv'
  <2>1. [Next]_vars => \/ WorkspaceStep
                       \/ UNCHANGED deskVars /\ (UNCHANGED topology \/ ShellStep)
    BY DEF Next, WebStep, PagesStep, LoadPage, Navigate, ConnectRefused, Connect, Waited, LinkChanges,
           Notified, EnableLibrary, LibraryWaited, Capture, EvidenceTaken, CaptureAnswered, webVars,
           shellVars, vars
  <2>2. ShellStep \/ UNCHANGED topology => topology' = topology \/ topology' \in SUBSET Pairs
    BY DEF ShellStep, RuntimeLoads, BridgeChanges, ReadBridge, TopologyChanges
  <2>3. ASSUME WorkspaceInv, UNCHANGED deskVars, topology' = topology \/ topology' \in SUBSET Pairs
        PROVE  WorkspaceInv'
    BY <2>3 DEF deskVars, WorkspaceInv, WorkspaceTypes, SelectionFollows, NativeFollows
  <2>4. WorkspaceInv /\ WorkspaceStep => WorkspaceInv'
    BY OpenDeskStep, CloseDeskStep, RenderDeskStep, OtherDeskStep DEF WorkspaceStep
  <2> QED
    BY <2>1, <2>2, <2>3, <2>4
<1> QED
  BY <1>1, <1>2, WorkspaceInvImplies, PTL DEF Spec

-------------------------------------------------------------------------------
(* The media library *)

Transfers == [file: MediaFiles, got: 0 .. Chunks, ended: BOOLEAN, left: BOOLEAN, alone: BOOLEAN]
Libraries ==
  [active: BOOLEAN, enabled: BOOLEAN, byIndex: SUBSET MediaFiles, items: SUBSET MediaFiles,
   current: Nat, output: Nat, saved: Nat]

MediaTypes ==
  /\ downloads \in Seq(Transfers)
  /\ library \in Libraries /\ library.current = library.output
  /\ library.saved \in 0 .. Len(downloads)
  /\ disk = [f \in MediaFiles |-> disk[f]]

\* The first n pieces of a file, in order.
FirstPieces(f, n) == [i \in 1 .. n |-> <<f, i>>]

\* The pull began alone and nobody has stopped it.
Undisturbed(d) == downloads[d].alone /\ ~downloads[d].left

\* An undisturbed pull is the only one, the library knows it as its download, and the
\* file on the RC is what it has got so far.
PullIsClean ==
  \A d \in 1 .. Len(downloads) : Undisturbed(d) /\ ~downloads[d].ended =>
    /\ library.current = d /\ \A e \in 1 .. Len(downloads) : downloads[e].ended \/ e = d
    /\ disk[downloads[d].file] = FirstPieces(downloads[d].file, downloads[d].got)

\* While a file is called saved, no pull is running that could change it.
SavedIsQuiet ==
  library.saved # 0 /\ Undisturbed(library.saved) =>
    /\ \A e \in 1 .. Len(downloads) : downloads[e].ended
    /\ disk[downloads[library.saved].file] = FirstPieces(downloads[library.saved].file, Chunks)

MediaInv == MediaTypes /\ PullIsClean /\ SavedIsQuiet

\* One more piece behind the first n are the first n + 1.
LEMMA OnePieceMore ==
  ASSUME NEW f, NEW n \in Nat
  PROVE  Append(FirstPieces(f, n), <<f, n + 1>>) = FirstPieces(f, n + 1) /\ FirstPieces(f, n) # Gone
<1>1. FirstPieces(f, n) \in Seq({<<f, i>> : i \in 1 .. n + 1}) /\ Len(FirstPieces(f, n)) = n
  BY DEF FirstPieces
<1>2. <<f, n + 1>> \in {<<f, i>> : i \in 1 .. n + 1}
  OBVIOUS
<1>3. /\ Len(Append(FirstPieces(f, n), <<f, n + 1>>)) = n + 1
      /\ Append(FirstPieces(f, n), <<f, n + 1>>) \in Seq({<<f, i>> : i \in 1 .. n + 1})
      /\ \A i \in 1 .. n : Append(FirstPieces(f, n), <<f, n + 1>>)[i] = <<f, i>>
      /\ Append(FirstPieces(f, n), <<f, n + 1>>)[n + 1] = <<f, n + 1>>
  <2> DEFINE S == {<<f, i>> : i \in 1 .. n + 1}
             q == FirstPieces(f, n)
             e == <<f, n + 1>>
  <2>1. \A i \in 1 .. n : q[i] = <<f, i>>
    BY DEF FirstPieces
  <2>2. q \in Seq(S) /\ Len(q) = n /\ e \in S
    BY <1>1, <1>2
  <2> HIDE DEF S, q, e
  <2>3. /\ Len(Append(q, e)) = n + 1 /\ Append(q, e) \in Seq(S)
        /\ \A i \in 1 .. n : Append(q, e)[i] = q[i]
        /\ Append(q, e)[n + 1] = e
    BY <2>2, AppendFacts
  <2> QED
    BY <2>1, <2>3 DEF S, q, e
<1>4. Append(FirstPieces(f, n), <<f, n + 1>>) = FirstPieces(f, n + 1)
  <2>1. \A i \in 1 .. n + 1 : Append(FirstPieces(f, n), <<f, n + 1>>)[i] = <<f, i>>
    BY <1>3
  <2> QED
    BY <1>3, <2>1 DEF FirstPieces
<1>5. FirstPieces(f, n) # Gone
  <2>1. Len(Gone) = 1 /\ Gone[1] = <<>>
    BY DEF Gone
  <2>2. n = 1 => FirstPieces(f, n)[1] = <<f, 1>>
    BY DEF FirstPieces
  <2>3. <<f, 1>> # <<>>
    OBVIOUS
  <2> QED
    BY <1>1, <2>1, <2>2, <2>3
<1> QED
  BY <1>4, <1>5

\* One element of a sequence is replaced; the others are not touched.
LEMMA ReplaceFacts ==
  ASSUME NEW S, NEW q \in Seq(S), NEW d \in 1 .. Len(q), NEW t \in S, NEW p, p = [q EXCEPT ![d] = t]
  PROVE  /\ p \in Seq(S) /\ Len(p) = Len(q) /\ p[d] = t
         /\ \A e \in 1 .. Len(q) : e # d => p[e] = q[e]
OBVIOUS

\* What a pull is that has not ended, and what it is once it has.
LEMMA PullChanges ==
  ASSUME MediaTypes, NEW d \in Pulling
  PROVE  /\ d \in 1 .. Len(downloads) /\ Len(downloads) \in Nat /\ downloads \in Seq(Transfers)
         /\ downloads[d] \in Transfers /\ ~downloads[d].ended
         /\ [downloads[d] EXCEPT !.ended = TRUE] \in Transfers
<1>1. d \in 1 .. Len(downloads) /\ Len(downloads) \in Nat /\ ~downloads[d].ended
      /\ downloads \in Seq(Transfers)
  BY DEF MediaTypes, Pulling
<1>2. downloads[d] \in Transfers
  BY <1>1
<1> QED
  BY <1>1, <1>2 DEF Transfers

\* A pull that is not finished, of which the rest of the state knows nothing new, ends.
LEMMA PullEnds ==
  ASSUME MediaInv, NEW d \in Pulling, downloads' = [downloads EXCEPT ![d].ended = TRUE]
  PROVE  /\ downloads' \in Seq(Transfers) /\ Len(downloads') = Len(downloads)
         /\ d \in 1 .. Len(downloads) /\ Len(downloads) \in Nat
         /\ downloads'[d].ended /\ downloads'[d].file = downloads[d].file
         /\ (Undisturbed(d))' <=> Undisturbed(d)
         /\ \A e \in 1 .. Len(downloads) : e # d => downloads'[e] = downloads[e] /\ (Undisturbed(e)' <=> Undisturbed(e))
         /\ \A e \in 1 .. Len(downloads) : e # d /\ Undisturbed(e) => downloads[e].ended
         /\ library.saved # 0 => ~Undisturbed(library.saved)
<1>0. MediaTypes /\ PullIsClean /\ SavedIsQuiet
  BY DEF MediaInv
<1>1. downloads' = [downloads EXCEPT ![d] = [downloads[d] EXCEPT !.ended = TRUE]]
  OBVIOUS
<1>2. [downloads[d] EXCEPT !.ended = TRUE] \in Transfers
  BY <1>0, PullChanges
<1>3. /\ downloads' \in Seq(Transfers) /\ Len(downloads') = Len(downloads)
      /\ downloads'[d] = [downloads[d] EXCEPT !.ended = TRUE]
      /\ \A e \in 1 .. Len(downloads) : e # d => downloads'[e] = downloads[e]
      /\ d \in 1 .. Len(downloads) /\ Len(downloads) \in Nat
      /\ downloads[d] \in Transfers /\ ~downloads[d].ended
  <2> DEFINE t == [downloads[d] EXCEPT !.ended = TRUE]
  <2>1. /\ d \in 1 .. Len(downloads) /\ Len(downloads) \in Nat /\ downloads \in Seq(Transfers)
        /\ downloads[d] \in Transfers /\ ~downloads[d].ended
    BY <1>0, PullChanges
  <2>2. t \in Transfers /\ downloads' = [downloads EXCEPT ![d] = t]
    BY <1>1, <1>2
  <2> HIDE DEF t
  <2>3. /\ downloads' \in Seq(Transfers) /\ Len(downloads') = Len(downloads) /\ downloads'[d] = t
        /\ \A e \in 1 .. Len(downloads) : e # d => downloads'[e] = downloads[e]
    <3> DEFINE p == downloads'
    <3>1. p = [downloads EXCEPT ![d] = t]
      BY <2>2
    <3> HIDE DEF p
    <3>2. /\ p \in Seq(Transfers) /\ Len(p) = Len(downloads) /\ p[d] = t
          /\ \A e \in 1 .. Len(downloads) : e # d => p[e] = downloads[e]
      BY <2>1, <2>2, <3>1, ReplaceFacts
    <3> QED
      BY <3>2 DEF p
  <2> QED
    BY <2>1, <2>3 DEF t
<1>4. /\ downloads'[d].ended /\ downloads'[d].file = downloads[d].file
      /\ downloads'[d].alone = downloads[d].alone /\ downloads'[d].left = downloads[d].left
  BY <1>3 DEF Transfers
<1>5. \A e \in 1 .. Len(downloads) : e # d /\ Undisturbed(e) => downloads[e].ended
  BY <1>0, <1>3 DEF PullIsClean
<1>6. library.saved # 0 => ~Undisturbed(library.saved)
  BY <1>0, <1>3 DEF SavedIsQuiet
<1> QED
  BY <1>3, <1>4, <1>5, <1>6 DEF Undisturbed

\* The last piece is there: what the library calls saved is whole.
LEMMA FinishedStep ==
  ASSUME MediaInv, NEW d \in Pulling, Finished(d)
  PROVE  MediaInv'
<1>1. /\ downloads' = [downloads EXCEPT ![d].ended = TRUE] /\ downloads[d].got = Chunks
      /\ library' = [library EXCEPT !.current = 0, !.output = 0, !.saved = d] /\ disk' = disk
  BY DEF Finished
<1>2. /\ library' \in Libraries /\ library'.current = 0 /\ library'.output = 0 /\ library'.saved = d
  <2>1. library \in Libraries /\ MediaTypes
    BY DEF MediaInv, MediaTypes
  <2>2. d \in 1 .. Len(downloads) /\ Len(downloads) \in Nat
    BY <2>1, PullChanges
  <2>3. d \in Nat
    BY <2>2
  <2> QED
    BY <1>1, <2>1, <2>3 DEF Libraries
<1>3. MediaTypes'
  <2>1. /\ downloads' \in Seq(Transfers) /\ Len(downloads') = Len(downloads)
        /\ d \in 1 .. Len(downloads) /\ Len(downloads) \in Nat
    BY <1>1, PullEnds
  <2>2. disk' = [f \in MediaFiles |-> disk'[f]]
    BY <1>1 DEF MediaInv, MediaTypes
  <2> QED
    BY <1>2, <2>1, <2>2 DEF MediaTypes
<1>4. PullIsClean'
  BY <1>1, PullEnds DEF PullIsClean
<1>5. SavedIsQuiet'
  <2>1. SUFFICES ASSUME Undisturbed(d)
                 PROVE  /\ \A e \in 1 .. Len(downloads) : downloads'[e].ended
                        /\ disk[downloads[d].file] = FirstPieces(downloads[d].file, Chunks)
    <3>1. /\ Undisturbed(d)' <=> Undisturbed(d)
          /\ Len(downloads') = Len(downloads) /\ downloads'[d].file = downloads[d].file
      BY <1>1, PullEnds
    <3> QED
      BY <1>1, <1>2, <3>1 DEF SavedIsQuiet, Undisturbed
  <2>2. d \in 1 .. Len(downloads) /\ ~downloads[d].ended
    BY DEF Pulling
  <2>3. /\ \A e \in 1 .. Len(downloads) : downloads[e].ended \/ e = d
        /\ disk[downloads[d].file] = FirstPieces(downloads[d].file, downloads[d].got)
    BY <2>1, <2>2 DEF MediaInv, PullIsClean
  <2> QED
    BY <1>1, <2>3, PullEnds
<1> QED
  BY <1>3, <1>4, <1>5 DEF MediaInv

\* A pull that fails or is dropped can have disturbed nothing that is called saved.
LEMMA BrokenStep ==
  ASSUME MediaInv, NEW d \in Pulling, Failed(d) \/ Dropped(d)
  PROVE  MediaInv'
<1>1. downloads' = [downloads EXCEPT ![d].ended = TRUE]
  BY DEF Failed, Dropped
<1>2. /\ library' \in Libraries /\ library'.current = library'.output
      /\ library'.saved = library.saved
      /\ disk' = [f \in MediaFiles |-> disk'[f]]
  <2>1. CASE Failed(d)
    <3>1. /\ library' = [library EXCEPT !.current = 0, !.output = 0]
          /\ disk' = [disk EXCEPT ![downloads[d].file] = Gone]
      BY <2>1 DEF Failed
    <3> QED
      BY <3>1 DEF MediaInv, MediaTypes, Libraries
  <2>2. CASE Dropped(d)
    BY <2>2 DEF Dropped, MediaInv, MediaTypes
  <2> QED
    BY <2>1, <2>2
<1>3. MediaTypes'
  BY <1>1, <1>2, PullEnds DEF MediaInv, MediaTypes
<1>4. PullIsClean'
  BY <1>1, PullEnds DEF PullIsClean
<1>5. SavedIsQuiet'
  <2>1. library.saved # 0 => library.saved \in 1 .. Len(downloads)
    BY PullEnds, <1>1 DEF MediaInv, MediaTypes
  <2> QED
    BY <1>1, <1>2, <2>1, PullEnds DEF SavedIsQuiet
<1> QED
  BY <1>3, <1>4, <1>5 DEF MediaInv

\* A piece goes behind those that are there, if nobody disturbs the pull.
LEMMA ReceivedStep ==
  ASSUME MediaInv, NEW d \in Pulling, Received(d)
  PROVE  MediaInv'
<1> DEFINE n == downloads[d].got
           t == [downloads[d] EXCEPT !.got = n + 1]
           out == library.output
<1>1. /\ downloads' = [downloads EXCEPT ![d].got = n + 1] /\ n < Chunks /\ library' = library
      /\ disk' = IF out = 0 \/ disk[downloads[out].file] = Gone THEN disk
                 ELSE [disk EXCEPT ![downloads[out].file] = Append(@, <<downloads[d].file, n + 1>>)]
  BY DEF Received
<1>2. downloads[d] \in Transfers /\ d \in 1 .. Len(downloads) /\ Len(downloads) \in Nat
      /\ ~downloads[d].ended
  BY PullChanges DEF MediaInv
<1>3. n \in Nat /\ n + 1 \in 0 .. Chunks
  BY <1>1, <1>2, MediaAssumption DEF MediaAssumption, Transfers
<1>4. /\ t \in Transfers /\ t.got = n + 1 /\ t.file = downloads[d].file /\ t.ended = downloads[d].ended
      /\ t.alone = downloads[d].alone /\ t.left = downloads[d].left
  BY <1>2, <1>3 DEF Transfers
<1>5. downloads' = [downloads EXCEPT ![d] = t]
  BY <1>1
<1> HIDE DEF n, t
<1>6. /\ downloads' \in Seq(Transfers) /\ Len(downloads') = Len(downloads) /\ downloads'[d] = t
      /\ \A e \in 1 .. Len(downloads) : e # d => downloads'[e] = downloads[e]
  <2>1. downloads \in Seq(Transfers)
    BY DEF MediaInv, MediaTypes
  <2> QED
    BY <1>2, <1>4, <1>5, <2>1, ReplaceFacts
<1>7. \A e \in 1 .. Len(downloads) :
        /\ Undisturbed(e)' <=> Undisturbed(e)
        /\ downloads'[e].ended = downloads[e].ended /\ downloads'[e].file = downloads[e].file
        /\ e # d => downloads'[e].got = downloads[e].got
  BY <1>4, <1>6 DEF Undisturbed
<1>8. disk' = [f \in MediaFiles |-> disk'[f]]
  BY <1>1 DEF MediaInv, MediaTypes
<1>9. MediaTypes'
  BY <1>1, <1>6, <1>8 DEF MediaInv, MediaTypes
<1>10. PullIsClean'
  <2>1. SUFFICES ASSUME NEW e \in 1 .. Len(downloads), Undisturbed(e), ~downloads[e].ended
                 PROVE  /\ library.current = e
                        /\ \A x \in 1 .. Len(downloads) : downloads[x].ended \/ x = e
                        /\ disk'[downloads[e].file] = FirstPieces(downloads[e].file, downloads'[e].got)
    BY <1>1, <1>6, <1>7 DEF PullIsClean
  <2>2. /\ library.current = e
        /\ \A x \in 1 .. Len(downloads) : downloads[x].ended \/ x = e
        /\ disk[downloads[e].file] = FirstPieces(downloads[e].file, downloads[e].got)
    BY <2>1 DEF MediaInv, PullIsClean
  <2>3. e = d /\ out = d /\ out # 0
    BY <1>2, <2>2 DEF MediaInv, MediaTypes
  <2>4. disk[downloads[d].file] = FirstPieces(downloads[d].file, n)
    BY <2>2, <2>3 DEF n
  <2>5. disk' = [disk EXCEPT ![downloads[d].file] = Append(@, <<downloads[d].file, n + 1>>)]
    BY <1>1, <1>3, <2>3, <2>4, OnePieceMore
  <2>6. downloads[d].file \in MediaFiles
    BY <1>2 DEF Transfers
  <2>7. disk'[downloads[d].file] = Append(disk[downloads[d].file], <<downloads[d].file, n + 1>>)
    BY <2>5, <2>6 DEF MediaInv, MediaTypes
  <2>8. disk'[downloads[d].file] = FirstPieces(downloads[d].file, n + 1)
    BY <1>3, <2>4, <2>7, OnePieceMore
  <2> QED
    BY <1>4, <1>6, <2>2, <2>3, <2>8
<1>11. SavedIsQuiet'
  <2>1. library.saved # 0 => ~Undisturbed(library.saved) /\ library.saved \in 1 .. Len(downloads)
    BY <1>2 DEF MediaInv, MediaTypes, SavedIsQuiet
  <2> QED
    BY <1>1, <1>7, <2>1 DEF SavedIsQuiet
<1> QED
  BY <1>9, <1>10, <1>11 DEF MediaInv

\* A new download begins when no undisturbed one is running.
LEMMA DownloadStep ==
  ASSUME MediaInv, NEW f \in MediaFiles, Download(f)
  PROVE  MediaInv'
<1> DEFINE n == Len(downloads)
           a == Pulling \ {library.current} = {}
           t == [file |-> f, got |-> 0, ended |-> FALSE, left |-> FALSE, alone |-> a]
<1>0. MediaTypes /\ PullIsClean /\ SavedIsQuiet
  BY DEF MediaInv
<1>1. /\ downloads' = Append(downloads, t) /\ library.current = 0
      /\ library' = [library EXCEPT !.current = Len(downloads'), !.output = Len(downloads'), !.saved = 0]
      /\ disk' = [disk EXCEPT ![f] = <<>>]
  BY DEF Download, MayDownload
<1>2. n \in Nat /\ downloads \in Seq(Transfers) /\ library \in Libraries
  BY <1>0 DEF MediaTypes
<1>3. \A e \in 1 .. n : Undisturbed(e) => downloads[e].ended
  BY <1>0, <1>1, <1>2 DEF PullIsClean
<1>4. a <=> \A e \in 1 .. n : downloads[e].ended
  BY <1>1, <1>2 DEF Pulling
<1>5. a \in BOOLEAN
  OBVIOUS
<1> HIDE DEF a
<1>6. 0 \in 0 .. Chunks
  BY MediaAssumption DEF MediaAssumption
<1>7. /\ t \in Transfers /\ t.file = f /\ t.got = 0 /\ t.ended = FALSE /\ t.left = FALSE
      /\ t.alone = a
  BY <1>5, <1>6 DEF Transfers
<1> HIDE DEF t
<1>8. /\ downloads' \in Seq(Transfers) /\ Len(downloads') = n + 1 /\ downloads'[n + 1] = t
      /\ \A e \in 1 .. n : downloads'[e] = downloads[e]
  BY <1>1, <1>2, <1>7, AppendFacts
<1> HIDE DEF n
<1>9. /\ library' \in Libraries /\ library'.current = n + 1 /\ library'.output = n + 1
      /\ library'.saved = 0
  <2>1. Len(downloads') \in Nat
    BY <1>2, <1>8
  <2>2. library' \in Libraries /\ library'.current = Len(downloads')
        /\ library'.output = Len(downloads') /\ library'.saved = 0
    BY <1>1, <1>2, <2>1 DEF Libraries
  <2> QED
    BY <1>8, <2>2
<1>10. disk' = [g \in MediaFiles |-> disk'[g]] /\ disk'[f] = <<>>
  BY <1>0, <1>1 DEF MediaTypes
<1>11. MediaTypes'
  BY <1>2, <1>8, <1>9, <1>10 DEF MediaTypes
<1>12. SavedIsQuiet'
  BY <1>9 DEF SavedIsQuiet
<1>13. PullIsClean'
  <2>1. SUFFICES ASSUME NEW d \in 1 .. n + 1, Undisturbed(d)', ~downloads'[d].ended
                 PROVE  /\ n + 1 = d /\ \A e \in 1 .. n + 1 : downloads'[e].ended \/ e = d
                        /\ disk'[downloads'[d].file]
                             = FirstPieces(downloads'[d].file, downloads'[d].got)
    BY <1>8, <1>9 DEF PullIsClean
  <2>2. d = n + 1
    <3>1. ASSUME d \in 1 .. n PROVE FALSE
      BY <1>3, <1>8, <2>1, <3>1 DEF Undisturbed
    <3> QED
      BY <1>2, <3>1
  <2>3. a
    BY <1>7, <1>8, <2>1, <2>2 DEF Undisturbed
  <2>4. \A e \in 1 .. n : downloads'[e].ended
    BY <1>4, <1>8, <2>3
  <2>5. FirstPieces(f, 0) = <<>>
    BY DEF FirstPieces
  <2>6. disk'[downloads'[d].file] = FirstPieces(downloads'[d].file, downloads'[d].got)
    BY <1>7, <1>8, <1>10, <2>2, <2>5
  <2> QED
    BY <1>2, <2>2, <2>4, <2>6
<1> QED
  BY <1>11, <1>12, <1>13 DEF MediaInv

\* Leaving the screen stops the pull that is running, and the library forgets everything.
LEMMA StopStep ==
  ASSUME MediaInv, CloseScreen
  PROVE  MediaInv'
<1>0. MediaTypes /\ PullIsClean /\ SavedIsQuiet
  BY DEF MediaInv
<1>1. disk' = disk /\ Stop
  BY DEF CloseScreen
<1>2. CASE ~library.active
  <2>1. UNCHANGED <<library, downloads, disk>>
    BY <1>1, <1>2 DEF Stop
  <2> QED
    BY <2>1 DEF MediaInv, MediaTypes, PullIsClean, SavedIsQuiet, Undisturbed
<1>3. CASE library.active
  <2> DEFINE Stopped(d) == IF d = library.current THEN [downloads[d] EXCEPT !.left = TRUE] ELSE downloads[d]
  <2>1. downloads' = [d \in DOMAIN downloads |-> Stopped(d)] /\ library' = NoLibrary
    BY <1>1, <1>3 DEF Stop
  <2>2. downloads \in Seq(Transfers) /\ Len(downloads) \in Nat
    BY <1>0 DEF MediaTypes
  <2>3. \A d \in 1 .. Len(downloads) :
          /\ Stopped(d) \in Transfers /\ Stopped(d).ended = downloads[d].ended
          /\ Stopped(d).file = downloads[d].file /\ Stopped(d).got = downloads[d].got
          /\ Stopped(d).alone = downloads[d].alone
          /\ ~Stopped(d).left => d # library.current /\ ~downloads[d].left
    <3>1. ASSUME NEW d \in 1 .. Len(downloads)
          PROVE  /\ Stopped(d) \in Transfers /\ Stopped(d).ended = downloads[d].ended
                 /\ Stopped(d).file = downloads[d].file /\ Stopped(d).got = downloads[d].got
                 /\ Stopped(d).alone = downloads[d].alone
                 /\ ~Stopped(d).left => d # library.current /\ ~downloads[d].left
      <4>1. downloads[d] \in Transfers
        BY <2>2
      <4> QED
        BY <4>1 DEF Transfers
    <3> QED
      BY <3>1
  <2>4. DOMAIN downloads = 1 .. Len(downloads)
    BY <2>2
  <2> HIDE DEF Stopped
  <2>5. /\ downloads' \in Seq(Transfers) /\ Len(downloads') = Len(downloads)
        /\ \A d \in 1 .. Len(downloads) : downloads'[d] = Stopped(d)
    BY <2>1, <2>2, <2>3, <2>4
  <2>6. /\ library' \in Libraries /\ library'.current = 0 /\ library'.output = 0 /\ library'.saved = 0
    BY <2>1 DEF NoLibrary, Libraries
  <2>7. MediaTypes' /\ SavedIsQuiet'
    BY <1>0, <1>1, <2>2, <2>5, <2>6 DEF MediaTypes, SavedIsQuiet
  <2>8. PullIsClean'
    <3>1. ASSUME NEW d \in 1 .. Len(downloads), Undisturbed(d)', ~downloads'[d].ended PROVE FALSE
      BY <1>0, <2>3, <2>5, <3>1 DEF PullIsClean, Undisturbed
    <3> QED
      BY <2>5, <3>1 DEF PullIsClean
  <2> QED
    BY <2>7, <2>8 DEF MediaInv
<1> QED
  BY <1>2, <1>3

\* The list and the state of the camera concern no file of the RC.
LEMMA ListStep ==
  ASSUME MediaInv, OpenScreen \/ Refresh \/ Enabled \/ EnableFailed \/ Listed
  PROVE  MediaInv'
<1>0. MediaTypes /\ PullIsClean /\ SavedIsQuiet
  BY DEF MediaInv
<1>1. library \in Libraries
  BY <1>0 DEF MediaTypes
<1>2. /\ UNCHANGED <<downloads, disk>> /\ library' \in Libraries
      /\ library'.current = library.current /\ library'.output = library.output
      /\ library'.saved = library.saved
  <2>1. CASE OpenScreen
    BY <1>1, <2>1 DEF OpenScreen, Start, Libraries
  <2>2. CASE Refresh
    BY <1>1, <2>2 DEF Refresh
  <2>3. CASE Enabled
    BY <1>1, <2>3 DEF Enabled, Libraries
  <2>4. CASE EnableFailed
    BY <1>1, <2>4 DEF EnableFailed, Libraries
  <2>5. CASE Listed
    BY <1>1, <2>5 DEF Listed, Libraries
  <2> QED
    BY <2>1, <2>2, <2>3, <2>4, <2>5
<1> QED
  BY <1>0, <1>2 DEF MediaInv, MediaTypes, PullIsClean, SavedIsQuiet, Undisturbed

\* A file that is called saved is whole and nothing else, for any number of files, pieces
\* and screens, unless its download was stopped or began beside a stopped one.
THEOREM SavedIsComplete == Spec => []SavedIsWhole
<1>1. Init => MediaInv
  <2>1. Init => /\ library = NoLibrary /\ downloads = <<>> /\ disk = [f \in MediaFiles |-> Gone]
    BY DEF Init, RcInit, MediaInit
  <2>2. NoLibrary \in Libraries /\ NoLibrary.current = 0 /\ NoLibrary.output = 0 /\ NoLibrary.saved = 0
    BY DEF NoLibrary, Libraries
  <2>3. <<>> \in Seq(Transfers) /\ Len(<<>>) = 0
    OBVIOUS
  <2> QED
    BY <2>1, <2>2, <2>3 DEF MediaInv, MediaTypes, PullIsClean, SavedIsQuiet
<1>2. MediaInv /\ [Next]_vars => MediaInv'
  <2>1. [Next]_vars => MediaStep \/ UNCHANGED mediaVars
    BY DEF Next, RcStep, GimbalStep, WaylineStep, rcVars, vars
  <2>2. MediaInv /\ UNCHANGED mediaVars => MediaInv'
    BY DEF mediaVars, MediaInv, MediaTypes, PullIsClean, SavedIsQuiet, Undisturbed
  <2>3. MediaInv /\ MediaStep => MediaInv'
    BY DownloadStep, StopStep, ListStep, FinishedStep, BrokenStep, ReceivedStep DEF MediaStep
  <2> QED
    BY <2>1, <2>2, <2>3
<1>3. MediaInv => SavedIsWhole
  BY DEF MediaInv, SavedIsQuiet, SavedIsWhole, Undisturbed, FirstPieces, Whole
<1> QED
  BY <1>1, <1>2, <1>3, PTL DEF Spec

-------------------------------------------------------------------------------
(* The key inventory *)

Stops == {"idle", "components", "write", "ready", "ready?", "refresh", "observe", "upsert"}
KeyEvents == CallbackEvents \cup {"none", "ready", "failed"}
Snapshots == [registered: BOOLEAN, ready: BOOLEAN, connected: BOOLEAN]
KeyThreads == [at: Stops, event: KeyEvents, copy: Snapshots, todo: Seq(Keys), connected: BOOLEAN,
               after: {"idle", "components"}]

KeysTypes ==
  /\ sdk \in Snapshots
  /\ runtime \in [due: BOOLEAN, product: BOOLEAN, revived: BOOLEAN]
  /\ heard \subseteq Keys
  /\ threads \in [Threads -> KeyThreads]
  /\ \A t \in Threads : threads[t].at = "upsert" => threads[t].todo # <<>>

\* The thread will still listen to the key or say that the runtime is not ready: it has
\* the product's connection or the runtime's start before it, is about to refresh, or has
\* the key before it in a refresh it has begun.  A key that it has read to be
\* disconnected is lost to it.
PromisedBy(r, k) ==
  \/ r.at \in {"refresh", "ready"}
  \/ r.at = "write" /\ r.event \in {"connected", "ready", "failed"}
  \/ r.at = "ready?" /\ r.event = "connected"
  \/ r.at = "observe" /\ In(k, r.todo)
  \/ r.at = "upsert" /\ (In(k, Tail(r.todo)) \/ (k = Head(r.todo) /\ r.connected))

KeysAreDue == runtime.product /\ sdk.ready /\ RuntimeConnected /\ ~runtime.revived

KeysPromised ==
  KeysAreDue => \A k \in Keys : k \in heard \/ \E t \in Threads : PromisedBy(threads[t], k)

\* The product is gone while its disconnection is handled, which is done on one thread.
DisconnectedIsGone ==
  \A t \in Threads :
    /\ threads[t].event = "disconnected" => t = "msdk" /\ ~runtime.product
    /\ threads[t].at = "ready?" => threads[t].event \in {"connected", "disconnected"}

KeysInv == KeysTypes /\ KeysPromised /\ DisconnectedIsGone

\* The inventory lists all of the keys.
LEMMA InventoryFacts == Inventory \in Seq(Keys) /\ \A k \in Keys : In(k, Inventory)
<1>1. Inventory \in Seq(STRING)
  BY InventoryAssumption DEF InventoryAssumption
<1>2. /\ Inventory = [i \in 1 .. Len(Inventory) |-> Inventory[i]]
      /\ Len(Inventory) \in Nat
      /\ \A i \in 1 .. Len(Inventory) : Inventory[i] \in Keys
  BY <1>1 DEF Keys
<1>3. Inventory \in Seq(Keys)
  BY <1>2
<1>4. \A k \in Keys : In(k, Inventory)
  BY DEF Keys, In
<1> QED
  BY <1>3, <1>4

\* An idle thread is a thread.
LEMMA IdleFacts == Idle \in KeyThreads /\ Idle.at = "idle" /\ Idle.event = "none"
<1>1. <<>> \in Seq(Keys)
  OBVIOUS
<1> QED
  BY <1>1 DEF Idle, FreshSdk, KeyThreads, Snapshots, Stops, KeyEvents, CallbackEvents

\* One thread moves on.
LEMMA ThreadMoves ==
  ASSUME KeysTypes, NEW t \in Threads, NEW r \in KeyThreads, threads' = [threads EXCEPT ![t] = r],
         r.at = "upsert" => r.todo # <<>>
  PROVE  /\ threads' \in [Threads -> KeyThreads] /\ threads'[t] = r
         /\ \A u \in Threads : threads'[u] = IF u = t THEN r ELSE threads[u]
         /\ \A u \in Threads : threads'[u].at = "upsert" => threads'[u].todo # <<>>
<1>1. /\ threads' \in [Threads -> KeyThreads] /\ threads'[t] = r
      /\ \A u \in Threads : threads'[u] = IF u = t THEN r ELSE threads[u]
  BY DEF KeysTypes
<1> QED
  BY <1>1 DEF KeysTypes

\* What a thread's step must leave of the threads, when it now is at a place with an event.
ThreadIs(t, place, event) ==
  /\ threads' \in [Threads -> KeyThreads]
  /\ threads'[t].at = place /\ threads'[t].event = event
  /\ \A u \in Threads : u # t => threads'[u] = threads[u]
  /\ \A u \in Threads : threads'[u].at = "upsert" => threads'[u].todo # <<>>

\* A thread goes on to another place.
LEMMA ThreadGoes ==
  ASSUME KeysTypes, NEW t \in Threads, NEW place \in Stops, place # "upsert", Goto(t, place)
  PROVE  ThreadIs(t, place, threads[t].event)
<1> DEFINE r == [threads[t] EXCEPT !.at = place]
<1>1. threads[t] \in KeyThreads
  BY DEF KeysTypes
<1>2. r \in KeyThreads /\ r.at = place /\ r.event = threads[t].event
  BY <1>1 DEF KeyThreads
<1>3. threads' = [threads EXCEPT ![t] = r]
  BY DEF Goto
<1> HIDE DEF r
<1> QED
  BY <1>2, <1>3, ThreadMoves DEF ThreadIs

\* A thread is about to refresh.
LEMMA ThreadWillRefresh ==
  ASSUME KeysTypes, NEW t \in Threads, NEW after \in {"idle", "components"}, WillRefresh(t, after)
  PROVE  ThreadIs(t, "refresh", threads[t].event)
<1> DEFINE r == [threads[t] EXCEPT !.at = "refresh", !.after = after]
<1>1. threads[t] \in KeyThreads
  BY DEF KeysTypes
<1>2. r \in KeyThreads /\ r.at = "refresh" /\ r.event = threads[t].event
  BY <1>1 DEF KeyThreads, Stops
<1>3. threads' = [threads EXCEPT ![t] = r]
  BY DEF WillRefresh
<1> HIDE DEF r
<1> QED
  BY <1>2, <1>3, ThreadMoves DEF ThreadIs

\* A thread is done.
LEMMA ThreadFinishes ==
  ASSUME KeysTypes, NEW t \in Threads, Finish(t)
  PROVE  ThreadIs(t, "idle", "none")
BY IdleFacts, ThreadMoves DEF ThreadIs, Finish

\* A thread has read the snapshot that it will write.
LEMMA ThreadReads ==
  ASSUME KeysTypes, NEW t \in Threads, NEW event \in KeyEvents, UpdateReads(t, event)
  PROVE  ThreadIs(t, "write", event)
<1> DEFINE r == [threads[t] EXCEPT !.at = "write", !.event = event, !.copy = sdk]
<1>1. threads[t] \in KeyThreads /\ sdk \in Snapshots
  BY DEF KeysTypes
<1>2. r \in KeyThreads /\ r.at = "write" /\ r.event = event
  BY <1>1 DEF KeyThreads, Stops
<1>3. threads' = [threads EXCEPT ![t] = r]
  BY DEF UpdateReads
<1> HIDE DEF r
<1> QED
  BY <1>2, <1>3, ThreadMoves DEF ThreadIs

\* A step that loses no promise and no listener, and after which the keys are due only if
\* they were, keeps every key promised.
LEMMA NothingLost ==
  ASSUME KeysPromised, heard \subseteq heard', KeysAreDue' => KeysAreDue,
         \A u \in Threads, k \in Keys :
           PromisedBy(threads[u], k) => k \in heard' \/ \E t \in Threads : PromisedBy(threads'[t], k)
  PROVE  KeysPromised'
BY DEF KeysPromised, Keys

\* Once a thread promises every key, all are promised.
LEMMA AllPromised ==
  ASSUME NEW t \in Threads, \A k \in Keys : PromisedBy(threads'[t], k)
  PROVE  KeysPromised'
BY DEF KeysPromised, Keys

\* A thread that moves with an event other than the disconnection, or with the one it
\* has, while the product stays what it is.
LEMMA StaysGone ==
  ASSUME DisconnectedIsGone, NEW t \in Threads, NEW place, NEW event, ThreadIs(t, place, event),
         runtime'.product = runtime.product, event = threads[t].event \/ event # "disconnected",
         place = "ready?" => event \in {"connected", "disconnected"}
  PROVE  DisconnectedIsGone'
BY DEF DisconnectedIsGone, ThreadIs

\* A callback of the MSDK reads the snapshot.
LEMMA CallbackStep ==
  ASSUME KeysInv, NEW event \in CallbackEvents, Callback(event)
  PROVE  KeysInv'
<1>0. KeysTypes /\ KeysPromised /\ DisconnectedIsGone /\ "msdk" \in Threads /\ "main" \in Threads
  BY DEF KeysInv, Threads
<1>1. /\ UpdateReads("msdk", event) /\ threads["msdk"].at = "idle" /\ UNCHANGED <<sdk, heard>>
      /\ runtime' = [runtime EXCEPT !.product = (@ \/ event = "connected") /\ event # "disconnected"]
  BY DEF Callback, At
<1>2. ThreadIs("msdk", "write", event)
  BY <1>0, <1>1, ThreadReads DEF KeyEvents
<1>3. /\ runtime' \in [due: BOOLEAN, product: BOOLEAN, revived: BOOLEAN]
      /\ runtime'.revived = runtime.revived
      /\ runtime'.product => runtime.product \/ event = "connected"
      /\ event = "disconnected" => ~runtime'.product
  BY <1>0, <1>1 DEF KeysTypes
<1>4. KeysTypes'
  BY <1>0, <1>1, <1>2, <1>3 DEF KeysTypes, ThreadIs
<1>5. KeysPromised'
  <2>1. CASE event = "connected"
    BY <1>0, <1>2, <2>1, AllPromised DEF ThreadIs, PromisedBy
  <2>2. CASE event # "connected"
    <3>1. KeysAreDue' => KeysAreDue
      BY <1>1, <1>3, <2>2 DEF KeysAreDue, RuntimeConnected
    <3>2. \A u \in Threads, k \in Keys : PromisedBy(threads[u], k) => u # "msdk"
      BY <1>1 DEF PromisedBy
    <3> QED
      BY <1>0, <1>1, <1>2, <3>1, <3>2, NothingLost DEF ThreadIs
  <2> QED
    BY <2>1, <2>2
<1>6. DisconnectedIsGone'
  BY <1>0, <1>2, <1>3 DEF DisconnectedIsGone, ThreadIs, Threads
<1> QED
  BY <1>4, <1>5, <1>6 DEF KeysInv

\* What an update writes is a snapshot, which is ready only if the runtime has just been
\* started or the copy was ready and no event took that back.
LEMMA UpdateFacts ==
  ASSUME NEW event \in KeyEvents, NEW copy \in Snapshots
  PROVE  /\ Written(event, copy) \in Snapshots
         /\ Written(event, copy).ready /\ event # "ready" =>
              copy.ready /\ event \in {"none", "connected", "disconnected", "changed"}
         /\ event \in {"none", "changed"} => Written(event, copy) = copy
BY DEF Written, Snapshots, KeyEvents, CallbackEvents

\* An update writes: a callback that neither connects nor disconnects the product and
\* leaves the runtime ready has written back what it read, over what was there or over a
\* later write.
LEMMA WriteStep ==
  ASSUME KeysInv, NEW t \in Threads, UpdateWrites(t)
  PROVE  KeysInv'
<1> DEFINE event == threads[t].event
           copy == threads[t].copy
           w == Written(event, copy)
<1>0. KeysTypes /\ KeysPromised /\ DisconnectedIsGone
  BY DEF KeysInv
<1>1. /\ threads[t].at = "write" /\ sdk' = w /\ UNCHANGED heard
      /\ runtime' = [runtime EXCEPT !.due = @ \/ event = "registered",
                                    !.revived = @ \/ (copy # sdk /\ copy.ready /\ event # "ready" /\ sdk'.ready)]
      /\ CASE event \in {"connected", "disconnected"} -> Goto(t, "ready?")
           [] event = "ready" -> Goto(t, "ready")
           [] OTHER -> Finish(t)
  BY DEF UpdateWrites, At
<1>2. threads[t] \in KeyThreads /\ event \in KeyEvents /\ copy \in Snapshots
  BY <1>0 DEF KeysTypes, KeyThreads
<1>3. /\ w \in Snapshots
      /\ w.ready /\ event # "ready" => copy.ready /\ event \in {"none", "connected", "disconnected", "changed"}
      /\ event \in {"none", "changed"} => w = copy
  BY <1>2, UpdateFacts
<1> HIDE DEF w
<1>4. /\ runtime' \in [due: BOOLEAN, product: BOOLEAN, revived: BOOLEAN]
      /\ runtime'.product = runtime.product
      /\ ~runtime'.revived => ~runtime.revived /\ ~(copy # sdk /\ copy.ready /\ event # "ready" /\ sdk'.ready)
  BY <1>0, <1>1, <1>2, <1>3 DEF KeysTypes, Snapshots
<1>5. \/ event \in {"connected", "disconnected"} /\ ThreadIs(t, "ready?", event)
      \/ event = "ready" /\ ThreadIs(t, "ready", event)
      \/ event \notin {"connected", "disconnected", "ready"} /\ ThreadIs(t, "idle", "none")
  <2>1. CASE event \in {"connected", "disconnected"}
    <3>1. Goto(t, "ready?") /\ "ready?" \in Stops
      BY <1>1, <2>1 DEF Stops
    <3> QED
      BY <1>0, <2>1, <3>1, ThreadGoes
  <2>2. CASE event = "ready"
    <3>1. Goto(t, "ready") /\ "ready" \in Stops
      BY <1>1, <2>2 DEF Stops
    <3> QED
      BY <1>0, <2>2, <3>1, ThreadGoes
  <2>3. CASE event \notin {"connected", "disconnected", "ready"}
    <3>1. Finish(t)
      BY <1>1, <2>3
    <3> QED
      BY <1>0, <2>3, <3>1, ThreadFinishes
  <2> QED
    BY <2>1, <2>2, <2>3
<1>6. KeysTypes'
  BY <1>0, <1>1, <1>3, <1>4, <1>5 DEF KeysTypes, ThreadIs
<1>7. DisconnectedIsGone'
  BY <1>0, <1>4, <1>5, StaysGone
<1>8. KeysPromised'
  <2>1. CASE event \in {"connected", "ready"}
    <3>1. threads'[t].at \in {"ready?", "ready"} /\ (threads'[t].at = "ready?" => threads'[t].event = "connected")
      BY <1>5, <2>1 DEF ThreadIs
    <3>2. \A k \in Keys : PromisedBy(threads'[t], k)
      BY <3>1 DEF PromisedBy
    <3> QED
      BY <3>2, AllPromised
  <2>2. CASE event = "disconnected"
    BY <1>0, <1>4, <2>2 DEF KeysPromised, KeysAreDue, DisconnectedIsGone
  <2>3. CASE event \in {"none", "changed"}
    <3>1. SUFFICES ASSUME KeysAreDue' PROVE KeysPromised'
      BY DEF KeysPromised
    <3>2. sdk' = sdk
      BY <1>1, <1>3, <1>4, <2>3, <3>1 DEF KeysAreDue
    <3>3. KeysAreDue' => KeysAreDue
      BY <1>4, <3>2 DEF KeysAreDue, RuntimeConnected
    <3>4. \A u \in Threads, k \in Keys : PromisedBy(threads[u], k) => u # t
      BY <1>1, <2>3 DEF PromisedBy
    <3> QED
      BY <1>0, <1>1, <1>5, <2>3, <3>3, <3>4, NothingLost DEF ThreadIs
  <2>4. CASE event \in {"registered", "unregistered", "failed"}
    BY <1>1, <1>3, <2>4 DEF KeysPromised, KeysAreDue
  <2> QED
    BY <1>2, <2>1, <2>2, <2>3, <2>4 DEF KeyEvents, CallbackEvents
<1> QED
  BY <1>6, <1>7, <1>8 DEF KeysInv

\* The main thread starts the components and then looks at the product.
LEMMA MainStep ==
  ASSUME KeysInv, Initialize \/ RuntimeReady \/ LookAtProduct
  PROVE  KeysInv'
<1>0. /\ KeysTypes /\ KeysPromised /\ DisconnectedIsGone /\ "main" \in Threads
      /\ {"components", "ready", "idle"} \subseteq Stops /\ "ready" \in KeyEvents
  BY DEF KeysInv, Threads, Stops, KeyEvents
<1>1. CASE Initialize
  <2>1. /\ runtime' = [runtime EXCEPT !.due = FALSE] /\ UNCHANGED <<sdk, heard>> /\ threads["main"].at = "idle"
        /\ \/ threads' = threads
           \/ Goto("main", "components")
           \/ WillRefresh("main", "components")
    BY <1>1 DEF Initialize, At
  <2>2. /\ runtime' \in [due: BOOLEAN, product: BOOLEAN, revived: BOOLEAN]
        /\ runtime'.product = runtime.product /\ runtime'.revived = runtime.revived
    BY <1>0, <2>1 DEF KeysTypes
  <2>3. KeysAreDue' <=> KeysAreDue
    BY <2>1, <2>2 DEF KeysAreDue, RuntimeConnected
  <2>4. CASE threads' = threads
    <3>1. KeysTypes'
      BY <1>0, <2>1, <2>2, <2>4 DEF KeysTypes
    <3>2. KeysPromised'
      BY <1>0, <2>1, <2>3, <2>4 DEF KeysPromised, Keys
    <3>3. DisconnectedIsGone'
      BY <1>0, <2>2, <2>4 DEF DisconnectedIsGone
    <3> QED
      BY <3>1, <3>2, <3>3 DEF KeysInv
  <2>5. CASE Goto("main", "components")
    <3>1. ThreadIs("main", "components", threads["main"].event)
      BY <1>0, <2>5, ThreadGoes
    <3>2. \A u \in Threads, k \in Keys : PromisedBy(threads[u], k) => PromisedBy(threads'[u], k)
      BY <2>1, <3>1 DEF PromisedBy, ThreadIs
    <3>3. KeysPromised'
      BY <1>0, <2>1, <2>3, <3>2, NothingLost
    <3>4. DisconnectedIsGone'
      BY <1>0, <2>2, <3>1, StaysGone
    <3> QED
      BY <1>0, <2>1, <2>2, <3>1, <3>3, <3>4 DEF KeysInv, KeysTypes, ThreadIs
  <2>6. CASE WillRefresh("main", "components")
    <3>1. ThreadIs("main", "refresh", threads["main"].event)
      BY <1>0, <2>6, ThreadWillRefresh
    <3>2. KeysPromised'
      BY <1>0, <3>1, AllPromised DEF ThreadIs, PromisedBy
    <3>3. DisconnectedIsGone'
      BY <1>0, <2>2, <3>1, StaysGone
    <3> QED
      BY <1>0, <2>1, <2>2, <3>1, <3>2, <3>3 DEF KeysInv, KeysTypes, ThreadIs
  <2> QED
    BY <2>1, <2>4, <2>5, <2>6
<1>2. CASE RuntimeReady
  <2>1. UpdateReads("main", "ready") /\ UNCHANGED <<sdk, runtime, heard>>
    BY <1>2 DEF RuntimeReady
  <2>2. ThreadIs("main", "write", "ready")
    BY <1>0, <2>1, ThreadReads
  <2>3. KeysPromised'
    BY <1>0, <2>2, AllPromised DEF ThreadIs, PromisedBy
  <2>4. DisconnectedIsGone'
    BY <1>0, <2>1, <2>2, StaysGone
  <2> QED
    BY <1>0, <2>1, <2>2, <2>3, <2>4 DEF KeysInv, KeysTypes, ThreadIs
<1>3. CASE LookAtProduct
  <2>1. UNCHANGED <<sdk, runtime, heard>> /\ OnceReady
    BY <1>3 DEF LookAtProduct
  <2>2. CASE sdk.connected
    <3>1. ThreadIs("main", "refresh", threads["main"].event)
      BY <1>0, <2>1, <2>2, ThreadWillRefresh DEF OnceReady
    <3>2. KeysPromised'
      BY <1>0, <3>1, AllPromised DEF ThreadIs, PromisedBy
    <3>3. DisconnectedIsGone'
      BY <1>0, <2>1, <3>1, StaysGone
    <3> QED
      BY <1>0, <2>1, <3>1, <3>2, <3>3 DEF KeysInv, KeysTypes, ThreadIs
  <2>3. CASE ~sdk.connected
    <3>1. ThreadIs("main", "idle", "none")
      BY <1>0, <2>1, <2>3, ThreadFinishes DEF OnceReady
    <3>2. KeysPromised'
      BY <2>1, <2>3 DEF KeysPromised, KeysAreDue, RuntimeConnected
    <3>3. DisconnectedIsGone'
      BY <1>0, <2>1, <3>1, StaysGone
    <3> QED
      BY <1>0, <2>1, <3>1, <3>2, <3>3 DEF KeysInv, KeysTypes, ThreadIs
  <2> QED
    BY <2>2, <2>3
<1> QED
  BY <1>1, <1>2, <1>3

\* The thread of the MSDK handles the product's callback when the runtime is ready.
LEMMA ProductHandledStep ==
  ASSUME KeysInv, ProductHandled
  PROVE  KeysInv'
<1> DEFINE event == threads["msdk"].event
<1>0. KeysTypes /\ KeysPromised /\ DisconnectedIsGone /\ "msdk" \in Threads /\ threads["msdk"].at = "ready?"
  BY DEF KeysInv, Threads, ProductHandled, At
<1>1. UNCHANGED <<sdk, runtime>>
  BY DEF ProductHandled
<1>2. CASE ~sdk.ready
  <2>1. Finish("msdk") /\ heard' = heard
    BY <1>2 DEF ProductHandled
  <2>2. ThreadIs("msdk", "idle", "none")
    BY <1>0, <2>1, ThreadFinishes
  <2>3. KeysPromised'
    BY <1>1, <1>2 DEF KeysPromised, KeysAreDue
  <2>4. DisconnectedIsGone'
    BY <1>0, <1>1, <2>2, StaysGone
  <2> QED
    BY <1>0, <1>1, <2>1, <2>2, <2>3, <2>4 DEF KeysInv, KeysTypes, ThreadIs
<1>3. CASE sdk.ready /\ event = "connected"
  <2>1. WillRefresh("msdk", "idle") /\ heard' = heard
    BY <1>3 DEF ProductHandled
  <2>2. ThreadIs("msdk", "refresh", event)
    BY <1>0, <2>1, ThreadWillRefresh
  <2>3. KeysPromised'
    BY <1>0, <2>2, AllPromised DEF ThreadIs, PromisedBy
  <2>4. DisconnectedIsGone'
    BY <1>0, <1>1, <2>2, StaysGone
  <2> QED
    BY <1>0, <1>1, <2>1, <2>2, <2>3, <2>4 DEF KeysInv, KeysTypes, ThreadIs
<1>4. CASE sdk.ready /\ event # "connected"
  <2> DEFINE r == [threads["msdk"] EXCEPT !.at = "observe", !.todo = <<>>, !.after = "idle"]
  <2>1. threads' = [threads EXCEPT !["msdk"] = r] /\ heard' = {}
    BY <1>4 DEF ProductHandled
  <2>2. threads["msdk"] \in KeyThreads /\ <<>> \in Seq(Keys)
    BY <1>0 DEF KeysTypes
  <2>3. r \in KeyThreads /\ r.at = "observe" /\ r.event = event
    BY <2>2 DEF KeyThreads, Stops
  <2> HIDE DEF r
  <2>4. ThreadIs("msdk", "observe", event)
    BY <1>0, <2>1, <2>3, ThreadMoves DEF ThreadIs
  <2>5. DisconnectedIsGone'
    BY <1>0, <1>1, <2>4, StaysGone
  <2>6. KeysPromised'
    BY <1>0, <1>1, <1>4 DEF KeysPromised, KeysAreDue, DisconnectedIsGone
  <2> QED
    BY <1>0, <1>1, <2>1, <2>4, <2>5, <2>6 DEF KeysInv, KeysTypes, ThreadIs
<1> QED
  BY <1>2, <1>3, <1>4

\* A thread that fails will take back that the runtime is ready.
LEMMA FailsStep ==
  ASSUME KeysInv, NEW t \in Threads, HandlerFails(t)
  PROVE  KeysInv'
<1>0. KeysTypes /\ KeysPromised /\ DisconnectedIsGone /\ "failed" \in KeyEvents
  BY DEF KeysInv, KeyEvents
<1>1. UpdateReads(t, "failed") /\ UNCHANGED <<sdk, runtime, heard>>
  BY DEF HandlerFails
<1>2. ThreadIs(t, "write", "failed")
  BY <1>0, <1>1, ThreadReads
<1>3. KeysPromised'
  BY <1>0, <1>2, AllPromised DEF ThreadIs, PromisedBy
<1>4. DisconnectedIsGone'
  BY <1>0, <1>1, <1>2, StaysGone
<1> QED
  BY <1>0, <1>1, <1>2, <1>3, <1>4 DEF KeysInv, KeysTypes, ThreadIs

\* A refresh forgets all listeners and has every key before it.
LEMMA RefreshedStep ==
  ASSUME KeysInv, NEW t \in Threads, Refreshed(t)
  PROVE  KeysInv'
<1> DEFINE r == [threads[t] EXCEPT !.at = "observe", !.todo = Inventory]
<1>0. KeysTypes /\ KeysPromised /\ DisconnectedIsGone
  BY DEF KeysInv
<1>1. threads[t] \in KeyThreads /\ Inventory \in Seq(Keys)
  BY <1>0, InventoryFacts DEF KeysTypes
<1>2. r \in KeyThreads /\ r.at = "observe" /\ r.todo = Inventory /\ r.event = threads[t].event
  BY <1>1 DEF KeyThreads, Stops
<1>3. /\ threads' = [threads EXCEPT ![t] = r] /\ heard' = {} /\ sdk' = sdk
      /\ runtime' = [runtime EXCEPT !.revived = FALSE]
  BY DEF Refreshed
<1> HIDE DEF r
<1>4. ThreadIs(t, "observe", threads[t].event) /\ threads'[t] = r
  BY <1>0, <1>2, <1>3, ThreadMoves DEF ThreadIs
<1>5. \A k \in Keys : PromisedBy(threads'[t], k)
  BY <1>2, <1>4, InventoryFacts DEF PromisedBy
<1>6. runtime' \in [due: BOOLEAN, product: BOOLEAN, revived: BOOLEAN] /\ runtime'.product = runtime.product
  BY <1>0, <1>3 DEF KeysTypes
<1>7. DisconnectedIsGone'
  BY <1>0, <1>4, <1>6, StaysGone
<1>8. KeysPromised'
  BY <1>5, AllPromised
<1> QED
  BY <1>0, <1>3, <1>4, <1>6, <1>7, <1>8 DEF KeysInv, KeysTypes, ThreadIs

\* What a thread reads about the product is true of the next key it observes.
LEMMA LookedStep ==
  ASSUME KeysInv, NEW t \in Threads, Looked(t)
  PROVE  KeysInv'
<1> DEFINE c == RuntimeConnected
           r == [threads[t] EXCEPT !.at = "upsert", !.connected = c]
<1>0. KeysTypes /\ KeysPromised /\ DisconnectedIsGone
  BY DEF KeysInv
<1>1. /\ threads' = [threads EXCEPT ![t] = r] /\ UNCHANGED <<heard, sdk, runtime>>
      /\ threads[t].at = "observe" /\ threads[t].todo # <<>>
  BY DEF Looked, At
<1>2. c \in BOOLEAN /\ (c <=> RuntimeConnected)
  BY <1>0 DEF RuntimeConnected, KeysTypes
<1>3. threads[t] \in KeyThreads
  BY <1>0 DEF KeysTypes
<1> HIDE DEF c
<1>4. r \in KeyThreads /\ r.at = "upsert" /\ r.connected = c /\ r.todo = threads[t].todo /\ r.event = threads[t].event
  BY <1>2, <1>3 DEF KeyThreads, Stops
<1> HIDE DEF r
<1>5. /\ threads' \in [Threads -> KeyThreads] /\ threads'[t] = r
      /\ \A u \in Threads : threads'[u] = IF u = t THEN r ELSE threads[u]
      /\ \A u \in Threads : threads'[u].at = "upsert" => threads'[u].todo # <<>>
  BY <1>0, <1>1, <1>4, ThreadMoves
<1>6. ASSUME RuntimeConnected, NEW k \in Keys, PromisedBy(threads[t], k)
      PROVE  PromisedBy(r, k)
  <2>1. In(k, threads[t].todo)
    BY <1>1, <1>6 DEF PromisedBy
  <2>2. threads[t].todo \in Seq(Keys)
    BY <1>3 DEF KeyThreads
  <2>3. k = Head(threads[t].todo) \/ In(k, Tail(threads[t].todo))
    BY <1>1, <2>1, <2>2, InTail
  <2> QED
    BY <1>2, <1>4, <1>6, <2>3 DEF PromisedBy
<1>7. KeysPromised'
  <2>1. SUFFICES ASSUME KeysAreDue, NEW k \in Keys
                 PROVE  k \in heard \/ \E u \in Threads : PromisedBy(threads'[u], k)
    BY <1>1 DEF KeysPromised, KeysAreDue, RuntimeConnected, Keys
  <2>2. k \in heard \/ \E u \in Threads : PromisedBy(threads[u], k)
    BY <1>0, <2>1 DEF KeysPromised
  <2> QED
    BY <1>5, <1>6, <2>1, <2>2 DEF KeysAreDue
<1>8. KeysTypes'
  BY <1>0, <1>1, <1>5 DEF KeysTypes
<1>9. DisconnectedIsGone'
  BY <1>0, <1>1, <1>4, <1>5, StaysGone DEF ThreadIs
<1> QED
  BY <1>7, <1>8, <1>9 DEF KeysInv

\* The key that was observed is listened to, the others are still before the thread.
LEMMA ObservedStep ==
  ASSUME KeysInv, NEW t \in Threads, Observed(t)
  PROVE  KeysInv'
<1> DEFINE r == [threads[t] EXCEPT !.at = "observe", !.todo = Tail(@)]
           h == Head(threads[t].todo)
<1>0. KeysTypes /\ KeysPromised /\ DisconnectedIsGone
  BY DEF KeysInv
<1>1. /\ threads' = [threads EXCEPT ![t] = r] /\ UNCHANGED <<sdk, runtime>>
      /\ heard' = IF threads[t].connected THEN heard \cup {h} ELSE heard
      /\ threads[t].at = "upsert"
  BY DEF Observed, At
<1>2. threads[t] \in KeyThreads /\ threads[t].todo # <<>> /\ threads[t].todo \in Seq(Keys)
  BY <1>0, <1>1 DEF KeysTypes, KeyThreads
<1>3. h \in Keys /\ Tail(threads[t].todo) \in Seq(Keys)
  BY <1>2, TailFacts
<1>4. r \in KeyThreads /\ r.at = "observe" /\ r.todo = Tail(threads[t].todo) /\ r.event = threads[t].event
  BY <1>2, <1>3 DEF KeyThreads, Stops
<1> HIDE DEF r
<1>5. /\ threads' \in [Threads -> KeyThreads] /\ threads'[t] = r
      /\ \A u \in Threads : threads'[u] = IF u = t THEN r ELSE threads[u]
      /\ \A u \in Threads : threads'[u].at = "upsert" => threads'[u].todo # <<>>
  BY <1>0, <1>1, <1>4, ThreadMoves
<1>6. \A k \in Keys : PromisedBy(threads[t], k) => k \in heard' \/ PromisedBy(r, k)
  BY <1>1, <1>4 DEF PromisedBy
<1>7. KeysPromised'
  <2>1. \A u \in Threads, k \in Keys :
          PromisedBy(threads[u], k) => k \in heard' \/ \E v \in Threads : PromisedBy(threads'[v], k)
    BY <1>5, <1>6
  <2>2. heard \subseteq heard' /\ (KeysAreDue' => KeysAreDue)
    BY <1>1 DEF KeysAreDue, RuntimeConnected
  <2> QED
    BY <1>0, <2>1, <2>2, NothingLost
<1>8. KeysTypes'
  BY <1>0, <1>1, <1>3, <1>5 DEF KeysTypes
<1>9. DisconnectedIsGone'
  BY <1>0, <1>1, <1>4, <1>5, StaysGone DEF ThreadIs
<1> QED
  BY <1>7, <1>8, <1>9 DEF KeysInv

\* A thread that has no key before it has promised nothing.
LEMMA RefreshEndsStep ==
  ASSUME KeysInv, NEW t \in Threads, RefreshEnds(t)
  PROVE  KeysInv'
<1> DEFINE r == [Idle EXCEPT !.at = threads[t].after]
<1>0. KeysTypes /\ KeysPromised /\ DisconnectedIsGone
  BY DEF KeysInv
<1>1. /\ threads' = [threads EXCEPT ![t] = r] /\ UNCHANGED <<heard, sdk, runtime>>
      /\ threads[t].at = "observe" /\ threads[t].todo = <<>>
  BY DEF RefreshEnds, At
<1>2. threads[t] \in KeyThreads
  BY <1>0 DEF KeysTypes
<1>3. Idle \in KeyThreads /\ Idle.event = "none"
  BY IdleFacts
<1>4. r \in KeyThreads /\ r.at \notin {"upsert", "ready?"} /\ r.event = "none"
  BY <1>2, <1>3 DEF KeyThreads, Stops
<1> HIDE DEF r
<1>5. /\ threads' \in [Threads -> KeyThreads]
      /\ \A u \in Threads : threads'[u] = IF u = t THEN r ELSE threads[u]
      /\ \A u \in Threads : threads'[u].at = "upsert" => threads'[u].todo # <<>>
  BY <1>0, <1>1, <1>4, ThreadMoves
<1>6. \A k \in Keys : ~PromisedBy(threads[t], k)
  BY <1>1 DEF PromisedBy, In
<1>7. KeysPromised'
  <2>1. \A u \in Threads, k \in Keys :
          PromisedBy(threads[u], k) => k \in heard' \/ \E v \in Threads : PromisedBy(threads'[v], k)
    BY <1>5, <1>6
  <2>2. heard \subseteq heard' /\ (KeysAreDue' => KeysAreDue)
    BY <1>1 DEF KeysAreDue, RuntimeConnected
  <2> QED
    BY <1>0, <2>1, <2>2, NothingLost
<1>8. KeysTypes'
  BY <1>0, <1>1, <1>5 DEF KeysTypes
<1>9. DisconnectedIsGone'
  BY <1>0, <1>1, <1>4, <1>5 DEF DisconnectedIsGone
<1> QED
  BY <1>7, <1>8, <1>9 DEF KeysInv

\* When both threads are done every key of a connected product is listened to, for any
\* inventory and any order of registration, connection, failures, refreshes, answers and
\* of the reads and writes of the two threads' updates.
THEOREM KeysAreHeard == Spec => []ConnectedIsHeard
<1>1. Init => KeysInv
  <2>1. Init => /\ sdk = FreshSdk /\ runtime = [due |-> FALSE, product |-> FALSE, revived |-> FALSE]
                /\ heard = {} /\ threads = [t \in Threads |-> Idle]
    BY DEF Init, RcInit, KeysInit
  <2>2. Init => KeysTypes
    <3>1. SUFFICES ASSUME Init PROVE KeysTypes
      OBVIOUS
    <3>2. sdk \in Snapshots
      <4>1. FreshSdk \in Snapshots
        BY DEF FreshSdk, Snapshots
      <4> QED
        BY <2>1, <3>1, <4>1
    <3>3. threads \in [Threads -> KeyThreads] /\ \A t \in Threads : threads[t].at = "idle"
      BY <2>1, <3>1, IdleFacts
    <3>4. runtime \in [due: BOOLEAN, product: BOOLEAN, revived: BOOLEAN]
      <4>1. runtime = [due |-> FALSE, product |-> FALSE, revived |-> FALSE]
        BY <2>1, <3>1
      <4> QED
        BY <4>1
    <3> QED
      BY <2>1, <3>1, <3>2, <3>3, <3>4 DEF KeysTypes
  <2>3. Init => KeysPromised
    BY <2>1 DEF KeysPromised, KeysAreDue, FreshSdk
  <2>4. Init => DisconnectedIsGone
    BY <2>1, IdleFacts DEF DisconnectedIsGone
  <2> QED
    BY <2>2, <2>3, <2>4 DEF KeysInv
<1>2. KeysInv /\ [Next]_vars => KeysInv'
  <2>1. [Next]_vars => KeysStep \/ UNCHANGED keysVars
    BY DEF Next, RcStep, rcVars, vars
  <2>2. KeysInv /\ UNCHANGED <<sdk, runtime, heard, threads>> => KeysInv'
    BY DEF KeysInv, KeysTypes, KeysPromised, DisconnectedIsGone, KeysAreDue, RuntimeConnected
  <2>3. ASSUME NEW k \in Keys, Probed(k) \/ ValueHeard(k) PROVE UNCHANGED <<sdk, runtime, heard, threads>>
    BY <2>3 DEF Probed, ValueHeard
  <2>4. ASSUME KeysInv, NEW t \in Threads, ThreadStep(t) PROVE KeysInv'
    BY <2>4, WriteStep, FailsStep, RefreshedStep, LookedStep, ObservedStep, RefreshEndsStep DEF ThreadStep
  <2>5. KeysInv /\ KeysStep => KeysInv'
    BY <2>2, <2>3, <2>4, CallbackStep, MainStep, ProductHandledStep DEF KeysStep
  <2> QED
    BY <2>1, <2>2, <2>5 DEF keysVars
<1>3. KeysInv => ConnectedIsHeard
  BY DEF KeysInv, KeysTypes, KeysPromised, KeysAreDue, PromisedBy, ConnectedIsHeard, At
<1> QED
  BY <1>1, <1>2, <1>3, PTL DEF Spec

-------------------------------------------------------------------------------
(* The layers on the map *)

PageStates ==
  [open: BOOLEAN, mount: Nat, run: Nat, topology: SUBSET Aircraft, positions: SUBSET Aircraft,
   viewer: Viewers \cup {NoViewer}, enabled: [Kinds -> BOOLEAN]]

LayersTypes ==
  /\ page \in PageStates
  /\ cesium \in Viewers \cup {NoViewer}
  /\ producers = [s \in Slots |-> producers[s]]

\* The viewer shows what the bridge has added, and no other viewer shows anything.
Shows(i, viewer) == [v \in Viewers |-> IF v = viewer THEN UNION {i[k] : k \in Kinds} ELSE {}]

\* The bridge has added what the last render saw, to the viewer it saw.
BridgeFollows == ids = Synced(drawn) /\ entities = Shows(ids, drawn.viewer)

\* The producers' own features are those of what the last render saw.
ProducersFollow ==
  producers["live"] = LiveFeatures(drawn) /\ producers["platform"] = PlatformFeatures(drawn)

\* The controller has the map's viewer once a render has seen that the runtime is ready.
ViewerFollows ==
  IF drawn.fh2 = "ready" THEN fh2 = "ready" /\ page.viewer = cesium ELSE page.viewer = NoViewer

ClosedIsEmpty == ~page.open => producers = NoFeatures /\ drawn = Nothing

LayersInv == LayersTypes /\ BridgeFollows /\ ProducersFollow /\ ViewerFollows /\ ClosedIsEmpty

\* What the bridge adds depends on the viewer, the switches and the features alone.
LEMMA SyncedSame ==
  ASSUME NEW r, NEW q, r.viewer = q.viewer, r.enabled = q.enabled, r.snapshot = q.snapshot
  PROVE  Synced(r) = Synced(q)
BY DEF Synced

\* The bridge's effects leave on the map what the render saw and nothing else.
LEMMA DrawFacts ==
  ASSUME BridgeFollows, NEW r, Draw(r)
  PROVE  ids' = Synced(r) /\ entities' = Shows(Synced(r), r.viewer)
<1> DEFINE replaced == r.viewer # drawn.viewer
           after == IF replaced THEN Destroyed(entities, drawn.viewer) ELSE entities
           old == IF replaced THEN {} ELSE UNION {ids[k] : k \in Kinds}
           changed == replaced \/ r.enabled # drawn.enabled \/ r.snapshot # drawn.snapshot
           new == Synced(r)
<1>1. IF ~changed THEN UNCHANGED <<entities, ids>>
      ELSE /\ ids' = new
           /\ entities' = [v \in Viewers |->
                IF v = r.viewer THEN (after[v] \ old) \cup UNION {new[k] : k \in Kinds} ELSE after[v]]
  BY DEF Draw
<1>2. CASE ~changed
  <2>1. Synced(r) = Synced(drawn)
    BY <1>2, SyncedSame
  <2> QED
    BY <1>1, <1>2, <2>1 DEF BridgeFollows
<1>3. CASE changed
  <2>1. \A v \in Viewers : v # r.viewer => after[v] = {}
    BY DEF BridgeFollows, Shows, Destroyed, Drop
  <2>2. \A v \in Viewers : v = r.viewer => after[v] \ old = {}
    BY DEF BridgeFollows, Shows, Destroyed, Drop
  <2> HIDE DEF after, old, changed, new
  <2>3. entities' = [v \in Viewers |-> IF v = r.viewer THEN UNION {new[k] : k \in Kinds} ELSE {}]
    <3>1. \A v \in Viewers : v = r.viewer =>
            (after[v] \ old) \cup UNION {new[k] : k \in Kinds} = UNION {new[k] : k \in Kinds}
      BY <2>2
    <3> QED
      BY <1>1, <1>3, <2>1, <3>1
  <2> QED
    BY <1>1, <1>3, <2>3 DEF Shows, new
<1> QED
  BY <1>2, <1>3

\* A page that shows nothing has nothing on the map.
LEMMA NothingFacts ==
  /\ Nothing.viewer = NoViewer /\ Nothing.fh2 = "none"
  /\ Synced(Nothing) = NoIds /\ Shows(NoIds, NoViewer) = [v \in Viewers |-> {}]
  /\ LiveFeatures(Nothing) = {} /\ PlatformFeatures(Nothing) = {}
  /\ NoFeatures = [s \in Slots |-> NoFeatures[s]]
  /\ NoFeatures["live"] = {} /\ NoFeatures["platform"] = {}
<1>1. Nothing.viewer = NoViewer /\ Nothing.fh2 = "none" /\ Nothing.positions = {} /\ Nothing.topology = {}
  BY DEF Nothing
<1>2. Synced(Nothing) = NoIds
  BY <1>1 DEF Synced, NoIds
<1>3. Shows(NoIds, NoViewer) = [v \in Viewers |-> {}]
  BY OverlayAssumption DEF OverlayAssumption, Shows
<1>4. LiveFeatures(Nothing) = {} /\ PlatformFeatures(Nothing) = {}
  BY <1>1 DEF LiveFeatures, PlatformFeatures
<1>5. "live" \in Slots /\ "platform" \in Slots
  BY DEF Slots, KindOf
<1> QED
  BY <1>1, <1>2, <1>3, <1>4, <1>5 DEF NoFeatures

\* A render makes everything follow what it sees.
LEMMA CommitStep ==
  ASSUME LayersInv, Commit, UNCHANGED fh2
  PROVE  LayersInv'
<1> DEFINE r == Rendered
           grown == r.topology # drawn.topology
           v == SeenViewer(r)
           n == IF grown THEN page.run + 1 ELSE page.run
           here == IF grown /\ r.topology = {} THEN {} ELSE page.positions
           moved == r.positions # drawn.positions \/ r.fixes # drawn.fixes
           placed == r.positions # drawn.positions \/ r.topology # drawn.topology
<1>0. LayersTypes /\ BridgeFollows /\ ProducersFollow /\ ViewerFollows /\ ClosedIsEmpty
  BY DEF LayersInv
<1>1. /\ page.open /\ drawn' = r /\ Draw(r) /\ UNCHANGED <<cesium, located, offers>>
      /\ page' = [page EXCEPT !.viewer = v, !.run = n, !.positions = here]
      /\ producers' = [producers EXCEPT
           !["live"] = IF moved THEN LiveFeatures(r) ELSE @,
           !["platform"] = IF placed THEN PlatformFeatures(r) ELSE @]
  BY DEF Commit, Located
<1>2. r.fh2 = fh2 /\ r.viewer = page.viewer
  BY DEF Rendered
<1>3. /\ page \in PageStates /\ page.run \in Nat /\ page.positions \in SUBSET Aircraft
      /\ page.viewer \in Viewers \cup {NoViewer} /\ cesium \in Viewers \cup {NoViewer}
  BY <1>0 DEF LayersTypes, PageStates
<1>4. v \in Viewers \cup {NoViewer} /\ n \in Nat /\ here \in SUBSET Aircraft
  BY <1>3 DEF SeenViewer
<1>5. IF r.fh2 = "ready" THEN fh2 = "ready" /\ v = cesium ELSE v = NoViewer
  BY <1>0, <1>2 DEF SeenViewer, ViewerFollows
<1> HIDE DEF r, v, n, here
<1>6. page' \in PageStates /\ page'.viewer = v /\ page'.open = page.open
  BY <1>1, <1>3, <1>4 DEF PageStates
<1>7. BridgeFollows'
  BY <1>0, <1>1, DrawFacts DEF BridgeFollows
<1>8. "live" \in Slots /\ "platform" \in Slots
  BY DEF Slots, KindOf
<1>9. ~moved => LiveFeatures(r) = LiveFeatures(drawn)
  BY DEF LiveFeatures
<1>10. ~placed => PlatformFeatures(r) = PlatformFeatures(drawn)
  BY DEF PlatformFeatures
<1> HIDE DEF moved, placed
<1>11. /\ producers' = [s \in Slots |-> producers'[s]]
       /\ producers'["live"] = IF moved THEN LiveFeatures(r) ELSE producers["live"]
       /\ producers'["platform"] = IF placed THEN PlatformFeatures(r) ELSE producers["platform"]
  BY <1>0, <1>1, <1>8 DEF LayersTypes
<1>12. ProducersFollow'
  <2>1. producers'["live"] = LiveFeatures(r) /\ producers'["platform"] = PlatformFeatures(r)
    BY <1>0, <1>9, <1>10, <1>11 DEF ProducersFollow
  <2> QED
    BY <1>1, <2>1 DEF ProducersFollow, LiveFeatures, PlatformFeatures
<1>13. ViewerFollows'
  BY <1>1, <1>2, <1>5, <1>6 DEF ViewerFollows
<1> QED
  BY <1>1, <1>3, <1>6, <1>7, <1>11, <1>12, <1>13 DEF LayersInv, LayersTypes, ClosedIsEmpty

\* A page that is opened shows nothing yet.
LEMMA MountLayersStep ==
  ASSUME LayersInv, MountLayers, UNCHANGED fh2
  PROVE  LayersInv'
<1> DEFINE v == IF fh2 = "ready" THEN cesium ELSE NoViewer
           n == page.mount + 1
           f == Features
<1>0. /\ LayersTypes /\ BridgeFollows /\ ~page.open /\ producers = NoFeatures /\ drawn = Nothing
  BY DEF LayersInv, ClosedIsEmpty, MountLayers
<1>1. /\ page' = [Closed EXCEPT !.open = TRUE, !.mount = n, !.run = page.run, !.viewer = v]
      /\ drawn' = [Nothing EXCEPT !.fh2 = fh2, !.snapshot = f]
      /\ UNCHANGED <<cesium, located, offers, producers, entities, ids>>
  BY DEF MountLayers
<1>2. /\ page \in PageStates /\ page.run \in Nat /\ n \in Nat
      /\ cesium \in Viewers \cup {NoViewer} /\ v \in Viewers \cup {NoViewer}
  BY <1>0 DEF LayersTypes, PageStates
<1>3. Closed \in PageStates
  BY DEF Closed, PageStates
<1> HIDE DEF v, n, f
<1>4. page' \in PageStates /\ page'.open /\ page'.viewer = v
  BY <1>1, <1>2, <1>3 DEF PageStates
<1>5. /\ drawn'.fh2 = fh2 /\ drawn'.viewer = NoViewer /\ drawn'.positions = {} /\ drawn'.topology = {}
  BY <1>1 DEF Nothing
<1>6. Synced(drawn') = NoIds /\ LiveFeatures(drawn') = {} /\ PlatformFeatures(drawn') = {}
  BY <1>5 DEF Synced, NoIds, LiveFeatures, PlatformFeatures
<1>7. ids = NoIds /\ entities = Shows(NoIds, NoViewer)
  BY <1>0, NothingFacts DEF BridgeFollows
<1>8. BridgeFollows'
  BY <1>1, <1>5, <1>6, <1>7 DEF BridgeFollows, Synced, Shows
<1>9. ProducersFollow'
  BY <1>0, <1>1, <1>6, NothingFacts DEF ProducersFollow, LiveFeatures, PlatformFeatures
<1>10. ViewerFollows'
  BY <1>1, <1>4, <1>5 DEF ViewerFollows, v
<1> QED
  BY <1>0, <1>1, <1>2, <1>4, <1>8, <1>9, <1>10 DEF LayersInv, LayersTypes, ClosedIsEmpty

\* A page that is left cleans everything up.
LEMMA UnmountLayersStep ==
  ASSUME LayersInv, UnmountLayers, UNCHANGED fh2
  PROVE  LayersInv'
<1> DEFINE n == page.run + 1
<1>0. LayersTypes /\ BridgeFollows
  BY DEF LayersInv
<1>1. /\ page' = [Closed EXCEPT !.mount = page.mount, !.run = n]
      /\ drawn' = Nothing /\ producers' = NoFeatures /\ UNCHANGED cesium
      /\ entities' = Destroyed(entities, drawn.viewer) /\ ids' = NoIds
  BY DEF UnmountLayers
<1>2. page \in PageStates /\ page.mount \in Nat /\ n \in Nat /\ cesium \in Viewers \cup {NoViewer}
  BY <1>0 DEF LayersTypes, PageStates
<1>3. Closed \in PageStates /\ ~Closed.open /\ Closed.viewer = NoViewer
  BY DEF Closed, PageStates
<1> HIDE DEF n
<1>4. page' \in PageStates /\ ~page'.open /\ page'.viewer = NoViewer
  BY <1>1, <1>2, <1>3 DEF PageStates
<1>5. entities' = [v \in Viewers |-> {}]
  <2>1. \A v \in Viewers : v = drawn.viewer => entities[v] \ UNION {ids[k] : k \in Kinds} = {}
    BY <1>0 DEF BridgeFollows, Shows
  <2>2. \A v \in Viewers : v # drawn.viewer => entities[v] = {}
    BY <1>0 DEF BridgeFollows, Shows
  <2> QED
    BY <1>1, <2>1, <2>2 DEF Destroyed, Drop
<1>6. BridgeFollows'
  BY <1>1, <1>5, NothingFacts DEF BridgeFollows, Synced, Shows
<1>7. ProducersFollow'
  BY <1>1, NothingFacts DEF ProducersFollow, LiveFeatures, PlatformFeatures
<1>8. ViewerFollows'
  BY <1>1, <1>4, NothingFacts DEF ViewerFollows
<1>9. LayersTypes'
  BY <1>1, <1>2, <1>4, NothingFacts DEF LayersTypes
<1> QED
  BY <1>1, <1>6, <1>7, <1>8, <1>9 DEF LayersInv, ClosedIsEmpty

\* Steps that touch neither the last render nor what it has drawn.
LEMMA PageStep ==
  ASSUME LayersInv, UNCHANGED <<drawn, producers, entities, ids>>, ViewerFollows',
         page' \in PageStates, cesium' \in Viewers \cup {NoViewer},
         page'.open <=> page.open
  PROVE  LayersInv'
<1>1. LayersTypes /\ BridgeFollows /\ ProducersFollow /\ ClosedIsEmpty
  BY DEF LayersInv
<1>2. BridgeFollows'
  BY <1>1 DEF BridgeFollows, Synced, Shows
<1>3. ProducersFollow'
  BY <1>1 DEF ProducersFollow, LiveFeatures, PlatformFeatures
<1> QED
  BY <1>1, <1>2, <1>3 DEF LayersInv, LayersTypes, ClosedIsEmpty

\* An answer fills the slots of its feed, or the positions, of the effect that asked.
LEMMA AnsweredStep ==
  ASSUME LayersInv, NEW q \in requests, RequestAnswered(q), UNCHANGED fh2
  PROVE  LayersInv'
<1>0. LayersTypes /\ BridgeFollows /\ ProducersFollow /\ ViewerFollows /\ ClosedIsEmpty
  BY DEF LayersInv
<1>1. UNCHANGED <<cesium, drawn, entities, ids>>
  BY DEF RequestAnswered
<1>2. page \in PageStates /\ cesium \in Viewers \cup {NoViewer}
  BY <1>0 DEF LayersTypes
<1>3. ASSUME NEW found \in SUBSET Aircraft, PositionsAnswered(q, found) PROVE LayersInv'
  <2>1. producers' = producers /\ (page' = page \/ page' = [page EXCEPT !.positions = found])
    BY <1>3 DEF PositionsAnswered
  <2>2. page' \in PageStates /\ page'.open = page.open /\ page'.viewer = page.viewer
    BY <1>2, <2>1 DEF PageStates
  <2>3. ViewerFollows'
    BY <1>0, <1>1, <2>2 DEF ViewerFollows
  <2> QED
    BY <1>1, <1>2, <2>1, <2>2, <2>3, PageStep
<1>4. CASE UNCHANGED <<page, producers>>
  BY <1>0, <1>1, <1>2, <1>4, PageStep DEF ViewerFollows
<1>5. CASE FeedAnswered(q)
  <2>1. CASE ~IsCurrent(q)
    BY <1>4, <1>5, <2>1 DEF FeedAnswered
  <2>2. CASE IsCurrent(q)
    <3>1. /\ producers' = [s \in Slots |-> IF s \in SlotsOf[q.feed] THEN Offered(s, q.answer) ELSE producers[s]]
          /\ page' = page /\ q.feed \in Feeds /\ page.open
      BY <1>5, <2>2 DEF FeedAnswered, IsCurrent
    <3>2. SlotsOf[q.feed] \in {{"captures", "bands"}, {"routes", "vehicles"}}
      BY <3>1 DEF SlotsOf, Feeds
    <3>3. "live" \in Slots /\ "platform" \in Slots /\ "live" \notin SlotsOf[q.feed] /\ "platform" \notin SlotsOf[q.feed]
      BY <3>2 DEF Slots, KindOf
    <3>4. /\ producers' = [s \in Slots |-> producers'[s]]
          /\ producers'["live"] = producers["live"] /\ producers'["platform"] = producers["platform"]
      BY <3>1, <3>3
    <3>5. ProducersFollow'
      BY <1>0, <1>1, <3>4 DEF ProducersFollow, LiveFeatures, PlatformFeatures
    <3>6. BridgeFollows' /\ ViewerFollows'
      BY <1>0, <1>1, <3>1 DEF BridgeFollows, Synced, Shows, ViewerFollows
    <3> QED
      BY <1>1, <1>2, <3>1, <3>4, <3>5, <3>6 DEF LayersInv, LayersTypes, ClosedIsEmpty
  <2> QED
    BY <2>1, <2>2
<1> QED
  BY <1>3, <1>4, <1>5 DEF RequestAnswered, FeedFailed

\* FlightHub 2 replaces the viewer, the operator acts, the surroundings change.
LEMMA AroundStep ==
  ASSUME LayersInv, UNCHANGED fh2,
         \/ \E feed \in Feeds \cup {"positions"} : Poll(feed)
         \/ \E v \in Viewers \cup {NoViewer} : ViewerChanges(v)
         \/ \E crafts \in SUBSET Aircraft : TopologyShown(crafts)
         \/ \E k \in Kinds : Toggle(k)
         \/ \E d \in Aircraft : Locates(d)
         \/ \E feed \in Feeds : Offers(feed)
  PROVE  LayersInv'
<1>0. LayersTypes /\ ViewerFollows
  BY DEF LayersInv
<1>1. page \in PageStates /\ cesium \in Viewers \cup {NoViewer}
  BY <1>0 DEF LayersTypes
<1>2. ASSUME NEW feed \in Feeds \cup {"positions"}, Poll(feed) PROVE LayersInv'
  <2>1. UNCHANGED <<drawn, producers, entities, ids, page, cesium>>
    BY <1>2 DEF Poll
  <2> QED
    BY <1>0, <1>1, <2>1, PageStep DEF ViewerFollows
<1>3. ASSUME NEW v \in Viewers \cup {NoViewer}, ViewerChanges(v) PROVE LayersInv'
  <2>1. /\ UNCHANGED <<drawn, producers, entities, ids>> /\ cesium' = v
        /\ page' = IF page.open /\ drawn.fh2 = "ready" THEN [page EXCEPT !.viewer = v] ELSE page
    BY <1>3 DEF ViewerChanges
  <2>2. /\ page' \in PageStates /\ page'.open = page.open
        /\ drawn.fh2 = "ready" /\ page.open => page'.viewer = v
        /\ drawn.fh2 # "ready" => page'.viewer = page.viewer
    BY <1>1, <2>1 DEF PageStates
  <2>3. drawn.fh2 = "ready" => page.open
    BY NothingFacts DEF LayersInv, ClosedIsEmpty
  <2>4. ViewerFollows'
    BY <1>0, <2>1, <2>2, <2>3 DEF ViewerFollows
  <2> QED
    BY <2>1, <2>2, <2>4, PageStep
<1>4. ASSUME NEW crafts \in SUBSET Aircraft, TopologyShown(crafts) PROVE LayersInv'
  <2>1. UNCHANGED <<drawn, producers, entities, ids, cesium>> /\ page' = [page EXCEPT !.topology = crafts]
    BY <1>4 DEF TopologyShown
  <2>2. page' \in PageStates /\ page'.open = page.open /\ page'.viewer = page.viewer
    BY <1>1, <2>1 DEF PageStates
  <2> QED
    BY <1>0, <1>1, <2>1, <2>2, PageStep DEF ViewerFollows
<1>5. ASSUME NEW k \in Kinds, Toggle(k) PROVE LayersInv'
  <2> DEFINE on == [page.enabled EXCEPT ![k] = ~@]
  <2>1. UNCHANGED <<drawn, producers, entities, ids, cesium>> /\ page' = [page EXCEPT !.enabled = on]
    BY <1>5 DEF Toggle
  <2>2. on \in [Kinds -> BOOLEAN]
    BY <1>1 DEF PageStates
  <2> HIDE DEF on
  <2>3. page' \in PageStates /\ page'.open = page.open /\ page'.viewer = page.viewer
    BY <1>1, <2>1, <2>2 DEF PageStates
  <2> QED
    BY <1>0, <1>1, <2>1, <2>3, PageStep DEF ViewerFollows
<1>6. ASSUME NEW d \in Aircraft, Locates(d) PROVE LayersInv'
  <2>1. UNCHANGED <<drawn, producers, entities, ids, page, cesium>>
    BY <1>6 DEF Locates
  <2> QED
    BY <1>0, <1>1, <2>1, PageStep DEF ViewerFollows
<1>7. ASSUME NEW feed \in Feeds, Offers(feed) PROVE LayersInv'
  <2>1. UNCHANGED <<drawn, producers, entities, ids, page, cesium>>
    BY <1>7 DEF Offers
  <2> QED
    BY <1>0, <1>1, <2>1, PageStep DEF ViewerFollows
<1> QED
  BY <1>2, <1>3, <1>4, <1>5, <1>6, <1>7

\* What the bridge has added for a settled page is what the page wants shown.
LEMMA WantedIsShown ==
  ASSUME LayersInv, page.open, Settled, page.viewer # NoViewer
  PROVE  UNION {ids[k] : k \in Kinds} = Wanted
<1> DEFINE of(s) == CASE s = "live" -> LiveFeatures(Rendered)
                      [] s = "platform" -> PlatformFeatures(Rendered)
                      [] OTHER -> producers[s]
<1>1. drawn = Rendered /\ ids = Synced(drawn) /\ ProducersFollow
  BY DEF LayersInv, BridgeFollows, Settled
<1>2. drawn.viewer = page.viewer /\ drawn.enabled = page.enabled /\ drawn.snapshot = Features
  BY <1>1 DEF Rendered
<1>3. \A s \in Slots : of(s) = producers[s]
  BY <1>1 DEF ProducersFollow
<1>4. \A k \in Kinds : ids[k] = IF page.enabled[k] THEN {<<k, f>> : f \in Features[k]} ELSE {}
  BY <1>1, <1>2 DEF Synced
<1>5. \A k \in Kinds : Features[k] = UNION {producers[s] : s \in {t \in Slots : KindOf[t] = k}}
  BY DEF Features
<1>6. \A s \in Slots : KindOf[s] \in Kinds
  BY DEF Slots, KindOf, Kinds
<1>7. Wanted = UNION {{<<KindOf[s], f>> : f \in producers[s]} : s \in {t \in Slots : page.enabled[KindOf[t]]}}
  BY <1>3 DEF Wanted
<1> HIDE DEF of
<1>8. ASSUME NEW e \in UNION {ids[k] : k \in Kinds} PROVE e \in Wanted
  <2>1. PICK k \in Kinds : e \in ids[k]
    BY <1>8
  <2>2. page.enabled[k] /\ e \in {<<k, f>> : f \in Features[k]}
    BY <1>4, <2>1
  <2>3. PICK f \in Features[k] : e = <<k, f>>
    BY <2>2
  <2>4. PICK s \in Slots : KindOf[s] = k /\ f \in producers[s]
    BY <1>5, <2>3
  <2> QED
    BY <1>7, <2>2, <2>3, <2>4
<1>9. ASSUME NEW e \in Wanted PROVE e \in UNION {ids[k] : k \in Kinds}
  <2>1. PICK s \in Slots : page.enabled[KindOf[s]] /\ e \in {<<KindOf[s], f>> : f \in producers[s]}
    BY <1>7, <1>9
  <2>2. PICK f \in producers[s] : e = <<KindOf[s], f>>
    BY <2>1
  <2>3. f \in Features[KindOf[s]]
    BY <1>5, <1>6, <2>2
  <2>4. e \in ids[KindOf[s]]
    <3> DEFINE k == KindOf[s]
    <3>1. k \in Kinds /\ page.enabled[k] /\ f \in Features[k] /\ e = <<k, f>>
      BY <1>6, <2>1, <2>2, <2>3
    <3> HIDE DEF k
    <3>2. e \in ids[k]
      BY <1>4, <3>1
    <3> QED
      BY <3>2 DEF k
  <2> QED
    BY <1>6, <2>4
<1> QED
  BY <1>8, <1>9

\* When nothing is left to render the map shows what the page wants, and nothing when
\* the page is closed.
LEMMA LayersInvImplies ==
  ASSUME LayersInv
  PROVE  LayersFollow
<1>1. entities = Shows(ids, drawn.viewer) /\ ViewerFollows /\ page.viewer \in Viewers \cup {NoViewer}
  BY DEF LayersInv, BridgeFollows, LayersTypes, PageStates
<1>2. ASSUME page.open, Settled, NEW v \in Viewers
      PROVE  entities[v] = IF fh2 = "ready" /\ v = cesium THEN Wanted ELSE {}
  <2>1. drawn.viewer = page.viewer /\ drawn.fh2 = fh2
    BY <1>2 DEF Settled, Rendered
  <2>2. NoViewer # v
    BY OverlayAssumption DEF OverlayAssumption
  <2>3. page.viewer = v <=> fh2 = "ready" /\ v = cesium
    BY <1>1, <2>1, <2>2 DEF ViewerFollows
  <2>4. page.viewer = v => UNION {ids[k] : k \in Kinds} = Wanted
    BY <1>2, <2>2, WantedIsShown
  <2> QED
    BY <1>1, <2>1, <2>3, <2>4 DEF Shows
<1>3. ASSUME ~page.open, NEW v \in Viewers PROVE producers = NoFeatures /\ entities[v] = {}
  <2>1. producers = NoFeatures /\ drawn.viewer = NoViewer
    BY <1>3, NothingFacts DEF LayersInv, ClosedIsEmpty
  <2> QED
    BY <1>1, <2>1, OverlayAssumption DEF Shows, OverlayAssumption
<1>4. ~page.open => producers = NoFeatures
  BY DEF LayersInv, ClosedIsEmpty
<1> QED
  BY <1>2, <1>3, <1>4 DEF LayersFollow

\* When nothing is left to render, the current viewer shows exactly the enabled layers of
\* what the page knows and no other viewer shows anything; a page that was left keeps
\* nothing: for any aircraft, viewers and feeds.
THEOREM LayersSettle == Spec => []LayersFollow
<1>1. Init => LayersInv
  <2>1. Init => /\ cesium = NoViewer /\ page = Closed /\ drawn = Nothing /\ producers = NoFeatures
                /\ entities = [v \in Viewers |-> {}] /\ ids = NoIds
    BY DEF Init, LayersInit
  <2>2. Closed \in PageStates /\ ~Closed.open /\ Closed.viewer = NoViewer
    BY DEF Closed, PageStates
  <2> QED
    BY <2>1, <2>2, NothingFacts
       DEF LayersInv, LayersTypes, BridgeFollows, ProducersFollow, ViewerFollows, ClosedIsEmpty
<1>2. LayersInv /\ [Next]_vars => LayersInv'
  <2>1. [Next]_vars => \/ LayersStep /\ UNCHANGED fh2
                       \/ UNCHANGED layerVars /\ (UNCHANGED fh2 \/ RuntimeLoads \/ ~page.open)
    <3>1. [Next]_vars =>
            \/ LayersStep /\ UNCHANGED shellVars
            \/ UNCHANGED layerVars /\ (UNCHANGED shellVars \/ ShellStep \/ InPilot \/ WorkspaceStep)
      BY DEF Next, WebStep, webVars, vars
    <3>2. WorkspaceStep => UNCHANGED shellVars
      BY DEF WorkspaceStep, OpenDesk, CloseDesk, RenderDesk, PollTopology, Polled, PollFails, Pick,
             ShowView, TypeRoute, FlightPathBack
    <3>3. ShellStep => UNCHANGED fh2 \/ RuntimeLoads
      BY DEF ShellStep, BridgeChanges, ReadBridge, TopologyChanges
    <3>4. UNCHANGED shellVars => UNCHANGED fh2
      BY DEF shellVars
    <3> QED
      BY <3>1, <3>2, <3>3, <3>4 DEF InPilot
  <2>2. ASSUME LayersInv, UNCHANGED layerVars, UNCHANGED fh2 \/ RuntimeLoads \/ ~page.open
        PROVE  LayersInv'
    <3>1. UNCHANGED <<cesium, page, drawn, producers, entities, ids>>
      BY <2>2 DEF layerVars
    <3>2. ViewerFollows'
      <4>1. CASE UNCHANGED fh2
        BY <2>2, <3>1, <4>1 DEF LayersInv, ViewerFollows
      <4>2. CASE RuntimeLoads
        BY <2>2, <3>1, <4>2 DEF LayersInv, ViewerFollows, RuntimeLoads
      <4>3. CASE ~page.open
        BY <2>2, <3>1, <4>3, NothingFacts DEF LayersInv, ViewerFollows, ClosedIsEmpty
      <4> QED
        BY <2>2, <4>1, <4>2, <4>3
    <3> QED
      BY <2>2, <3>1, <3>2, PageStep DEF LayersInv, LayersTypes
  <2>3. ASSUME LayersInv, LayersStep, UNCHANGED fh2 PROVE LayersInv'
    <3>1. CASE OpenDashboard \/ CloseDashboard
      BY <2>2, <2>3, <3>1 DEF OpenDashboard, CloseDashboard
    <3> QED
      BY <2>3, <3>1, MountLayersStep, UnmountLayersStep, CommitStep, AnsweredStep, AroundStep
         DEF LayersStep
  <2> QED
    BY <2>1, <2>2, <2>3
<1> QED
  BY <1>1, <1>2, LayersInvImplies, PTL DEF Spec

-------------------------------------------------------------------------------
(* The live RTK state *)

RtkStatuses == [at: Nat, fix: Fixes]

\* A sequence, of whatever elements.
IsSequence(q) == q \in Seq({q[i] : i \in 1 .. Len(q)})

\* The message is a status of the aircraft.
About(m, d) == m.type = "status" /\ m.of = d

\* A message that follows a snapshot.
IsChange(m) == m.type = "transition" \/ (m.type = "status" /\ m.status \in RtkStatuses)

\* What comes behind the first b messages turns what is known in base into latest: the
\* last status of an aircraft is its latest one, and one without a status has kept its.
Explains(w, b, base, latestOf) ==
  /\ \A i \in b + 1 .. Len(w) : IsChange(w[i])
  /\ \A d : d \in DOMAIN latestOf <=> d \in DOMAIN base \/ \E i \in b + 1 .. Len(w) : About(w[i], d)
  /\ \A d \in DOMAIN latestOf :
       \/ \E i \in b + 1 .. Len(w) :
            /\ About(w[i], d) /\ w[i].status = latestOf[d]
            /\ \A j \in i + 1 .. Len(w) : ~About(w[j], d)
       \/ /\ \A i \in b + 1 .. Len(w) : ~About(w[i], d)
          /\ base[d].at = latestOf[d].at /\ base[d].fix = latestOf[d].fix

\* The history of each aircraft ends at the instant of its status.
HistoryEnds(history, devices) ==
  /\ DOMAIN history = DOMAIN devices
  /\ \A d \in DOMAIN history :
       /\ history[d] \in Seq(RtkStatuses) /\ history[d] # <<>>
       /\ history[d][Len(history[d])].at = devices[d].at

\* What a snapshot says of each aircraft.
IsListed(list) == \A d \in DOMAIN list : list[d].at \in Nat /\ list[d].fix \in Fixes

\* The console is behind by what is on the wire: the "open" and the snapshot, the
\* snapshot, or changes alone.
Behind(b) ==
  /\ b <= Len(wire)
  /\ IF b = 2 THEN wire[1].type = "open" ELSE view.connected = TRUE
  /\ b > 0 => wire[b].type = "snapshot" /\ IsListed(wire[b].list)
  /\ b = 0 => HistoryEnds(view.history, view.devices)
  /\ Explains(wire, b, IF b = 0 THEN view.devices ELSE wire[b].list, service.latest)

RtkTypes ==
  /\ clock \in Nat
  /\ DOMAIN service = DOMAIN Down /\ DOMAIN view = DOMAIN NoView
  /\ service.subscribed \in BOOLEAN
  /\ service.latest = [d \in DOMAIN service.latest |-> service.latest[d]]
  /\ \A d \in DOMAIN service.latest : service.latest[d] \in RtkStatuses
  /\ IsSequence(wire)
  /\ \A i \in 1 .. Len(wire) : wire[i].type \in {"open", "snapshot", "status", "transition"}

RtkInv ==
  /\ RtkTypes
  /\ stream = "open" /\ service.subscribed => \E b \in 0 .. 2 : Behind(b)

\* Appending to any sequence.
LEMMA SequenceAppend ==
  ASSUME NEW q, IsSequence(q), NEW e
  PROVE  /\ IsSequence(Append(q, e)) /\ Len(q) \in Nat /\ Len(Append(q, e)) = Len(q) + 1
         /\ \A i \in 1 .. Len(q) : Append(q, e)[i] = q[i]
         /\ Append(q, e)[Len(q) + 1] = e
<1> DEFINE S == {q[i] : i \in 1 .. Len(q)} \cup {e}
           p == Append(q, e)
<1>1. q \in Seq(S)
  <2>1. /\ q \in Seq({q[i] : i \in 1 .. Len(q)})
    BY DEF IsSequence
  <2>2. /\ Len(q) \in Nat /\ q = [i \in 1 .. Len(q) |-> q[i]] /\ \A i \in 1 .. Len(q) : q[i] \in S
    BY <2>1
  <2> HIDE DEF S
  <2> QED
    BY <2>2
<1>2. e \in S
  OBVIOUS
<1> HIDE DEF S
<1>3. /\ p \in Seq(S) /\ Len(q) \in Nat /\ Len(p) = Len(q) + 1
      /\ \A i \in 1 .. Len(q) : p[i] = q[i]
      /\ p[Len(q) + 1] = e
  BY <1>1, <1>2, AppendFacts
<1> HIDE DEF p
<1>4. IsSequence(p)
  <2>1. p = [i \in 1 .. Len(p) |-> p[i]] /\ Len(p) \in Nat
    BY <1>3
  <2> DEFINE T == {p[i] : i \in 1 .. Len(p)}
  <2>2. \A i \in 1 .. Len(p) : p[i] \in T
    OBVIOUS
  <2> HIDE DEF T
  <2>3. p \in Seq(T)
    BY <2>1, <2>2
  <2> QED
    BY <2>3 DEF IsSequence, T
<1> QED
  BY <1>3, <1>4 DEF p

\* Taking the head of any sequence.
LEMMA SequenceTail ==
  ASSUME NEW q, IsSequence(q), q # <<>>
  PROVE  /\ Head(q) = q[1] /\ Len(q) \in Nat \ {0}
         /\ IsSequence(Tail(q)) /\ Len(Tail(q)) = Len(q) - 1
         /\ \A i \in 1 .. Len(Tail(q)) : Tail(q)[i] = q[i + 1]
<1> DEFINE S == {q[i] : i \in 1 .. Len(q)}
           p == Tail(q)
<1>1. q \in Seq(S)
  BY DEF IsSequence
<1> HIDE DEF S
<1>2. /\ Head(q) = q[1] /\ Len(q) \in Nat \ {0}
      /\ p \in Seq(S) /\ Len(p) = Len(q) - 1
      /\ \A i \in 1 .. Len(p) : p[i] = q[i + 1]
  BY <1>1, TailFacts
<1> HIDE DEF p
<1>3. IsSequence(p)
  <2>1. p = [i \in 1 .. Len(p) |-> p[i]] /\ Len(p) \in Nat
    BY <1>2
  <2> DEFINE T == {p[i] : i \in 1 .. Len(p)}
  <2>2. \A i \in 1 .. Len(p) : p[i] \in T
    OBVIOUS
  <2> HIDE DEF T
  <2>3. p \in Seq(T)
    BY <2>1, <2>2
  <2> QED
    BY <2>3 DEF IsSequence, T
<1> QED
  BY <1>2, <1>3 DEF p

\* Map.set: only the aircraft's own entry changes.
LEMMA WithFacts ==
  ASSUME NEW f, NEW d, NEW e
  PROVE  /\ DOMAIN With(f, d, e) = DOMAIN f \cup {d}
         /\ With(f, d, e) = [x \in DOMAIN With(f, d, e) |-> With(f, d, e)[x]]
         /\ With(f, d, e)[d] = e
         /\ \A x \in DOMAIN f : x # d => With(f, d, e)[x] = f[x]
BY DEF With

\* A new status at the end becomes the latest one of its aircraft.
LEMMA ExplainsStatus ==
  ASSUME NEW w, IsSequence(w), NEW b \in 0 .. 2, b <= Len(w), NEW base, NEW known,
         Explains(w, b, base, known),
         NEW m, m.type = "status", m.status \in RtkStatuses
  PROVE  Explains(Append(w, m), b, base, With(known, m.of, m.status))
<1> DEFINE v == Append(w, m)
           n == Len(w)
           k == With(known, m.of, m.status)
<1>1. /\ n \in Nat /\ Len(v) = n + 1 /\ v[n + 1] = m
      /\ \A i \in 1 .. n : v[i] = w[i]
  BY SequenceAppend
<1>2. /\ DOMAIN k = DOMAIN known \cup {m.of} /\ k[m.of] = m.status
      /\ \A d \in DOMAIN known : d # m.of => k[d] = known[d]
  BY DEF With
<1>3. /\ \A i \in b + 1 .. n : IsChange(w[i])
      /\ \A d : d \in DOMAIN known <=> d \in DOMAIN base \/ \E i \in b + 1 .. n : About(w[i], d)
  BY DEF Explains
<1> HIDE DEF v, n, k
<1>4. /\ n + 1 \in b + 1 .. Len(v) /\ \A i \in b + 1 .. n : i \in b + 1 .. Len(v) /\ v[i] = w[i]
      /\ \A i \in b + 1 .. Len(v) : i = n + 1 \/ i \in b + 1 .. n
  BY <1>1 DEF n
<1>5. \A i \in b + 1 .. Len(v) : IsChange(v[i])
  BY <1>1, <1>3, <1>4 DEF IsChange
<1>6. \A d : d \in DOMAIN k <=> d \in DOMAIN base \/ \E i \in b + 1 .. Len(v) : About(v[i], d)
  <2>1. \A d : (\E i \in b + 1 .. Len(v) : About(v[i], d))
                  <=> d = m.of \/ \E i \in b + 1 .. n : About(w[i], d)
    BY <1>1, <1>4 DEF About
  <2> QED
    BY <1>2, <1>3, <2>1
<1>7. ASSUME NEW d \in DOMAIN k
      PROVE  \/ \E i \in b + 1 .. Len(v) :
                  /\ About(v[i], d) /\ v[i].status = k[d]
                  /\ \A j \in i + 1 .. Len(v) : ~About(v[j], d)
             \/ /\ \A i \in b + 1 .. Len(v) : ~About(v[i], d)
                /\ base[d].at = k[d].at /\ base[d].fix = k[d].fix
  <2>1. CASE d = m.of
    <3>1. About(v[n + 1], d) /\ v[n + 1].status = k[d]
      BY <1>1, <1>2, <2>1 DEF About
    <3>2. \A j \in n + 1 + 1 .. Len(v) : FALSE
      BY <1>1
    <3> QED
      BY <1>4, <3>1, <3>2
  <2>2. CASE d # m.of
    <3>1. d \in DOMAIN known /\ k[d] = known[d]
      BY <1>2, <2>2
    <3>2. ~About(v[n + 1], d)
      BY <1>1, <2>2 DEF About
    <3>3. CASE \E i \in b + 1 .. n :
                 /\ About(w[i], d) /\ w[i].status = known[d]
                 /\ \A j \in i + 1 .. n : ~About(w[j], d)
      <4>1. PICK i \in b + 1 .. n :
                 /\ About(w[i], d) /\ w[i].status = known[d]
                 /\ \A j \in i + 1 .. n : ~About(w[j], d)
        BY <3>3
      <4>2. i \in b + 1 .. Len(v) /\ About(v[i], d) /\ v[i].status = k[d]
        BY <1>4, <3>1, <4>1
      <4>3. ASSUME NEW j \in i + 1 .. Len(v) PROVE ~About(v[j], d)
        <5>1. j \in b + 1 .. Len(v)
          BY <1>1, <4>1
        <5>2. CASE j = n + 1
          BY <3>2, <5>2
        <5>3. CASE j \in b + 1 .. n
          <6>1. j \in i + 1 .. n
            BY <1>1, <4>1, <5>3
          <6> QED
            BY <1>4, <4>1, <5>3, <6>1
        <5> QED
          BY <1>4, <5>1, <5>2, <5>3
      <4> QED
        BY <4>2, <4>3
    <3>4. CASE /\ \A i \in b + 1 .. n : ~About(w[i], d)
               /\ base[d].at = known[d].at /\ base[d].fix = known[d].fix
      <4>1. \A i \in b + 1 .. Len(v) : ~About(v[i], d)
        BY <1>4, <3>2, <3>4
      <4> QED
        BY <3>1, <3>4, <4>1
    <3> QED
      BY <3>1, <3>3, <3>4 DEF Explains, n
  <2> QED
    BY <2>1, <2>2
<1> QED
  BY <1>5, <1>6, <1>7 DEF Explains, v, k

\* A transition at the end changes no status.
LEMMA ExplainsTransition ==
  ASSUME NEW w, IsSequence(w), NEW b \in 0 .. 2, b <= Len(w), NEW base, NEW known,
         Explains(w, b, base, known), NEW m, m.type = "transition"
  PROVE  Explains(Append(w, m), b, base, known)
<1> DEFINE v == Append(w, m)
           n == Len(w)
<1>1. /\ n \in Nat /\ Len(v) = n + 1 /\ v[n + 1] = m
      /\ \A i \in 1 .. n : v[i] = w[i]
  BY SequenceAppend
<1>2. /\ \A i \in b + 1 .. n : IsChange(w[i])
      /\ \A d : d \in DOMAIN known <=> d \in DOMAIN base \/ \E i \in b + 1 .. n : About(w[i], d)
      /\ \A d \in DOMAIN known :
           \/ \E i \in b + 1 .. n :
                /\ About(w[i], d) /\ w[i].status = known[d]
                /\ \A j \in i + 1 .. n : ~About(w[j], d)
           \/ /\ \A i \in b + 1 .. n : ~About(w[i], d)
              /\ base[d].at = known[d].at /\ base[d].fix = known[d].fix
  BY DEF Explains
<1> HIDE DEF v, n
<1>3. /\ n + 1 \in b + 1 .. Len(v) /\ \A i \in b + 1 .. n : i \in b + 1 .. Len(v) /\ v[i] = w[i]
      /\ \A i \in b + 1 .. Len(v) : i = n + 1 \/ i \in b + 1 .. n
  BY <1>1 DEF n
<1>4. \A d : ~About(v[n + 1], d)
  BY <1>1 DEF About
<1>5. \A i \in b + 1 .. Len(v) : IsChange(v[i])
  BY <1>1, <1>2, <1>3 DEF IsChange
<1>6. \A d : d \in DOMAIN known <=> d \in DOMAIN base \/ \E i \in b + 1 .. Len(v) : About(v[i], d)
  <2>1. \A d : (\E i \in b + 1 .. Len(v) : About(v[i], d)) <=> \E i \in b + 1 .. n : About(w[i], d)
    BY <1>3, <1>4
  <2> QED
    BY <1>2, <2>1
<1>7. ASSUME NEW d \in DOMAIN known
      PROVE  \/ \E i \in b + 1 .. Len(v) :
                  /\ About(v[i], d) /\ v[i].status = known[d]
                  /\ \A j \in i + 1 .. Len(v) : ~About(v[j], d)
             \/ /\ \A i \in b + 1 .. Len(v) : ~About(v[i], d)
                /\ base[d].at = known[d].at /\ base[d].fix = known[d].fix
  <2>1. CASE \E i \in b + 1 .. n :
               /\ About(w[i], d) /\ w[i].status = known[d]
               /\ \A j \in i + 1 .. n : ~About(w[j], d)
    <3>1. PICK i \in b + 1 .. n :
               /\ About(w[i], d) /\ w[i].status = known[d]
               /\ \A j \in i + 1 .. n : ~About(w[j], d)
      BY <2>1
    <3>2. i \in b + 1 .. Len(v) /\ About(v[i], d) /\ v[i].status = known[d]
      BY <1>3, <3>1
    <3>3. ASSUME NEW j \in i + 1 .. Len(v) PROVE ~About(v[j], d)
      <4>1. j \in b + 1 .. Len(v)
        BY <1>1, <3>1
      <4>2. CASE j \in b + 1 .. n
        <5>1. j \in i + 1 .. n
          BY <1>1, <3>1, <4>2
        <5> QED
          BY <1>3, <3>1, <4>2, <5>1
      <4> QED
        BY <1>3, <1>4, <4>1, <4>2
    <3> QED
      BY <3>2, <3>3
  <2>2. CASE /\ \A i \in b + 1 .. n : ~About(w[i], d)
             /\ base[d].at = known[d].at /\ base[d].fix = known[d].fix
    <3>1. \A i \in b + 1 .. Len(v) : ~About(v[i], d)
      BY <1>3, <1>4, <2>2
    <3> QED
      BY <2>2, <3>1
  <2> QED
    BY <1>2, <2>1, <2>2
<1> QED
  BY <1>5, <1>6, <1>7 DEF Explains, v

\* Once the first of the messages behind which the base stands is heard, it stands behind
\* one less.
LEMMA ExplainsSkip ==
  ASSUME NEW w, IsSequence(w), w # <<>>, NEW b \in 1 .. 2, b <= Len(w), NEW base, NEW known,
         Explains(w, b, base, known)
  PROVE  Explains(Tail(w), b - 1, base, known)
<1> DEFINE v == Tail(w)
           n == Len(w)
<1>1. /\ n \in Nat \ {0} /\ Len(v) = n - 1
      /\ \A i \in 1 .. n - 1 : v[i] = w[i + 1]
  BY SequenceTail
<1>2. /\ \A i \in b + 1 .. n : IsChange(w[i])
      /\ \A d : d \in DOMAIN known <=> d \in DOMAIN base \/ \E i \in b + 1 .. n : About(w[i], d)
      /\ \A d \in DOMAIN known :
           \/ \E i \in b + 1 .. n :
                /\ About(w[i], d) /\ w[i].status = known[d]
                /\ \A j \in i + 1 .. n : ~About(w[j], d)
           \/ /\ \A i \in b + 1 .. n : ~About(w[i], d)
              /\ base[d].at = known[d].at /\ base[d].fix = known[d].fix
  BY DEF Explains
<1> HIDE DEF v, n
<1>3. /\ b - 1 \in 0 .. 1
      /\ \A i \in b .. n - 1 : i + 1 \in b + 1 .. n /\ v[i] = w[i + 1]
      /\ \A i \in b + 1 .. n : i - 1 \in b .. n - 1 /\ v[i - 1] = w[i]
  BY <1>1
<1>4. b - 1 + 1 = b /\ b - 1 + 1 .. Len(v) = b .. n - 1
  BY <1>1
<1>5. \A i \in b .. n - 1 : IsChange(v[i])
  BY <1>2, <1>3
<1>6. \A d : d \in DOMAIN known <=> d \in DOMAIN base \/ \E i \in b .. n - 1 : About(v[i], d)
  <2>1. \A d : (\E i \in b .. n - 1 : About(v[i], d)) <=> \E i \in b + 1 .. n : About(w[i], d)
    BY <1>3
  <2> QED
    BY <1>2, <2>1
<1>7. ASSUME NEW d \in DOMAIN known
      PROVE  \/ \E i \in b .. n - 1 :
                  /\ About(v[i], d) /\ v[i].status = known[d]
                  /\ \A j \in i + 1 .. n - 1 : ~About(v[j], d)
             \/ /\ \A i \in b .. n - 1 : ~About(v[i], d)
                /\ base[d].at = known[d].at /\ base[d].fix = known[d].fix
  <2>1. CASE \E i \in b + 1 .. n :
               /\ About(w[i], d) /\ w[i].status = known[d]
               /\ \A j \in i + 1 .. n : ~About(w[j], d)
    <3>1. PICK i \in b + 1 .. n :
               /\ About(w[i], d) /\ w[i].status = known[d]
               /\ \A j \in i + 1 .. n : ~About(w[j], d)
      BY <2>1
    <3>2. i - 1 \in b .. n - 1 /\ About(v[i - 1], d) /\ v[i - 1].status = known[d]
      BY <1>3, <3>1
    <3>3. ASSUME NEW j \in i - 1 + 1 .. n - 1 PROVE ~About(v[j], d)
      <4>1. j + 1 \in i + 1 .. n /\ v[j] = w[j + 1]
        BY <1>1, <1>3, <3>1
      <4> QED
        BY <3>1, <4>1
    <3> QED
      BY <3>2, <3>3
  <2>2. CASE /\ \A i \in b + 1 .. n : ~About(w[i], d)
             /\ base[d].at = known[d].at /\ base[d].fix = known[d].fix
    <3>1. \A i \in b .. n - 1 : ~About(v[i], d)
      BY <1>3, <2>2
    <3> QED
      BY <2>2, <3>1
  <2> QED
    BY <1>2, <2>1, <2>2
<1> QED
  BY <1>1, <1>4, <1>5, <1>6, <1>7 DEF Explains, v

\* A change that is heard is in the base from then on, if the base takes it over.
LEMMA ExplainsHeard ==
  ASSUME NEW w, IsSequence(w), w # <<>>, NEW base, NEW known, NEW next,
         Explains(w, 0, base, known),
         \A d : d \in DOMAIN next <=> d \in DOMAIN base \/ About(w[1], d),
         \A d \in DOMAIN base : ~About(w[1], d) => next[d] = base[d],
         \A d : About(w[1], d) => next[d].at = w[1].status.at /\ next[d].fix = w[1].status.fix
  PROVE  IsChange(w[1]) /\ Explains(Tail(w), 0, next, known)
<1> DEFINE v == Tail(w)
           n == Len(w)
<1>1. /\ n \in Nat \ {0} /\ Len(v) = n - 1
      /\ \A i \in 1 .. n - 1 : v[i] = w[i + 1]
  BY SequenceTail
<1>2. /\ \A i \in 1 .. n : IsChange(w[i])
      /\ \A d : d \in DOMAIN known <=> d \in DOMAIN base \/ \E i \in 1 .. n : About(w[i], d)
      /\ \A d \in DOMAIN known :
           \/ \E i \in 1 .. n :
                /\ About(w[i], d) /\ w[i].status = known[d]
                /\ \A j \in i + 1 .. n : ~About(w[j], d)
           \/ /\ \A i \in 1 .. n : ~About(w[i], d)
              /\ base[d].at = known[d].at /\ base[d].fix = known[d].fix
  BY DEF Explains
<1> HIDE DEF v, n
<1>3. /\ 1 \in 1 .. n
      /\ \A i \in 1 .. n - 1 : i + 1 \in 1 .. n /\ v[i] = w[i + 1]
      /\ \A i \in 1 .. n : i = 1 \/ (i - 1 \in 1 .. n - 1 /\ v[i - 1] = w[i])
  BY <1>1
<1>4. \A i \in 1 .. n - 1 : IsChange(v[i])
  BY <1>2, <1>3
<1>5. \A d : d \in DOMAIN known <=> d \in DOMAIN next \/ \E i \in 1 .. n - 1 : About(v[i], d)
  <2>1. \A d : (\E i \in 1 .. n : About(w[i], d)) <=> About(w[1], d) \/ \E i \in 1 .. n - 1 : About(v[i], d)
    BY <1>3
  <2> QED
    BY <1>2, <2>1
<1>6. ASSUME NEW d \in DOMAIN known
      PROVE  \/ \E i \in 1 .. n - 1 :
                  /\ About(v[i], d) /\ v[i].status = known[d]
                  /\ \A j \in i + 1 .. n - 1 : ~About(v[j], d)
             \/ /\ \A i \in 1 .. n - 1 : ~About(v[i], d)
                /\ next[d].at = known[d].at /\ next[d].fix = known[d].fix
  <2>1. ASSUME NEW i \in 1 .. n, About(w[i], d), w[i].status = known[d],
               \A j \in i + 1 .. n : ~About(w[j], d)
        PROVE  \/ \E k \in 1 .. n - 1 :
                    /\ About(v[k], d) /\ v[k].status = known[d]
                    /\ \A j \in k + 1 .. n - 1 : ~About(v[j], d)
               \/ /\ \A k \in 1 .. n - 1 : ~About(v[k], d)
                  /\ next[d].at = known[d].at /\ next[d].fix = known[d].fix
    <3>1. CASE i = 1
      <4>1. \A k \in 1 .. n - 1 : ~About(v[k], d)
        <5>1. ASSUME NEW k \in 1 .. n - 1 PROVE ~About(v[k], d)
          <6>1. k + 1 \in i + 1 .. n /\ v[k] = w[k + 1]
            BY <1>1, <1>3, <3>1
          <6> QED
            BY <2>1, <6>1
        <5> QED
          BY <5>1
      <4> QED
        BY <2>1, <3>1, <4>1
    <3>2. CASE i # 1
      <4>1. i - 1 \in 1 .. n - 1 /\ About(v[i - 1], d) /\ v[i - 1].status = known[d]
        BY <1>3, <2>1, <3>2
      <4>2. ASSUME NEW j \in i - 1 + 1 .. n - 1 PROVE ~About(v[j], d)
        <5>1. j + 1 \in i + 1 .. n /\ v[j] = w[j + 1]
          BY <1>1, <1>3, <2>1
        <5> QED
          BY <2>1, <5>1
      <4> QED
        BY <4>1, <4>2
    <3> QED
      BY <3>1, <3>2
  <2>2. CASE /\ \A i \in 1 .. n : ~About(w[i], d)
             /\ base[d].at = known[d].at /\ base[d].fix = known[d].fix
    <3>1. (\A i \in 1 .. n - 1 : ~About(v[i], d)) /\ ~About(w[1], d)
      BY <1>3, <2>2
    <3>2. d \in DOMAIN base
      BY <1>2, <2>2
    <3> QED
      BY <2>2, <3>1, <3>2
  <2> QED
    BY <1>2, <2>1, <2>2
<1>7. IsChange(w[1])
  BY <1>2, <1>3
<1>8. 0 + 1 .. Len(v) = 1 .. n - 1
  BY <1>1
<1>9. Explains(v, 0, next, known)
  BY <1>1, <1>4, <1>5, <1>6, <1>8 DEF Explains
<1> QED
  BY <1>7, <1>9 DEF v

\* What is kept of a sequence ends where the sequence ends.
LEMMA NewestFacts ==
  ASSUME NEW S, NEW s \in Seq(S), s # <<>>, NEW n \in Nat \ {0}
  PROVE  /\ Newest(s, n) \in Seq(S) /\ Newest(s, n) # <<>>
         /\ Newest(s, n)[Len(Newest(s, n))] = s[Len(s)]
<1>1. Len(s) \in Nat \ {0}
  BY EmptyFacts
<1>2. CASE Len(s) <= n
  BY <1>1, <1>2 DEF Newest
<1>3. CASE Len(s) > n
  <2> DEFINE q == SubSeq(s, Len(s) - n + 1, Len(s))
  <2>1. /\ q \in Seq(S) /\ Len(q) = n
        /\ \A i \in 1 .. n : q[i] = s[Len(s) - n + i]
    BY <1>1, <1>3
  <2> HIDE DEF q
  <2>2. q[n] = s[Len(s)] /\ q # <<>>
    BY <1>1, <2>1
  <2> QED
    BY <1>3, <2>1, <2>2 DEF Newest, q
<1> QED
  BY <1>1, <1>2, <1>3

\* A status that is heard ends the history of its aircraft.
LEMMA RecordedFacts ==
  ASSUME NEW history, NEW devices, HistoryEnds(history, devices), NEW m, m.status \in RtkStatuses
  PROVE  HistoryEnds(Recorded(history, m), Updated(devices, m))
<1> DEFINE before == IF m.of \in DOMAIN history THEN history[m.of] ELSE <<>>
           same == before # <<>> /\ before[Len(before)].at = m.status.at
           all == IF same THEN before ELSE Append(before, m.status)
           now == Newest(all, MaxHistory)
           h == Recorded(history, m)
           v == Updated(devices, m)
<1>1. before \in Seq(RtkStatuses)
  <2>1. <<>> \in Seq(RtkStatuses)
    OBVIOUS
  <2> QED
    BY <2>1 DEF HistoryEnds
<1>2. all \in Seq(RtkStatuses) /\ all # <<>> /\ all[Len(all)].at = m.status.at
  <2> HIDE DEF before
  <2>1. CASE same
    BY <1>1, <2>1
  <2>2. CASE ~same
    <3>1. all = Append(before, m.status)
      BY <2>2
    <3> QED
      BY <1>1, <3>1, AppendFacts
  <2> QED
    BY <2>1, <2>2
<1> HIDE DEF all, same, before
<1>3. MaxHistory \in Nat \ {0}
  BY RtkAssumption DEF RtkAssumption
<1>4. now \in Seq(RtkStatuses) /\ now # <<>> /\ now[Len(now)].at = m.status.at
  BY <1>2, <1>3, NewestFacts
<1>5. h = With(history, m.of, now)
  BY DEF Recorded, all, same, before
<1> HIDE DEF now
<1>6. /\ DOMAIN h = DOMAIN history \cup {m.of} /\ h[m.of] = now
      /\ \A d \in DOMAIN history : d # m.of => h[d] = history[d]
  BY <1>5 DEF With
<1>7. /\ DOMAIN v = DOMAIN devices \cup {m.of} /\ v[m.of].at = m.status.at
      /\ \A d \in DOMAIN devices : d # m.of => v[d] = devices[d]
  BY DEF Updated, With
<1> HIDE DEF h, v
<1>8. HistoryEnds(h, v)
  BY <1>4, <1>6, <1>7 DEF HistoryEnds
<1> QED
  BY <1>8 DEF h, v

\* The second sequence follows the first.
LEMMA ConcatFacts ==
  ASSUME NEW S, NEW q \in Seq(S), NEW t \in Seq(S)
  PROVE  /\ q \o t \in Seq(S) /\ Len(q) \in Nat /\ Len(t) \in Nat
         /\ Len(q \o t) = Len(q) + Len(t)
         /\ \A i \in 1 .. Len(q) : (q \o t)[i] = q[i]
         /\ \A i \in 1 .. Len(t) : (q \o t)[Len(q) + i] = t[i]
OBVIOUS

\* What the service writes for an observation is one message or two.
LEMMA WrittenFacts ==
  ASSUME NEW q, IsSequence(q), NEW a, NEW c
  PROVE  /\ q \o (<<a>> \o <<>>) = Append(q, a)
         /\ q \o (<<a>> \o <<c>>) = Append(Append(q, a), c)
<1> DEFINE S == {q[i] : i \in 1 .. Len(q)} \cup {a, c}
<1>1. q \in Seq(S)
  <2>1. /\ q \in Seq({q[i] : i \in 1 .. Len(q)})
    BY DEF IsSequence
  <2>2. /\ Len(q) \in Nat /\ q = [i \in 1 .. Len(q) |-> q[i]] /\ \A i \in 1 .. Len(q) : q[i] \in S
    BY <2>1
  <2> HIDE DEF S
  <2> QED
    BY <2>2
<1>2. a \in S /\ c \in S
  OBVIOUS
<1> HIDE DEF S
<1> DEFINE t == <<a>> \o <<c>>
<1>3. /\ <<a>> \o <<>> = <<a>>
      /\ t \in Seq(S) /\ Len(t) = 2 /\ t[1] = a /\ t[2] = c
  <2>1. <<a>> \in Seq(S) /\ <<c>> \in Seq(S) /\ <<>> \in Seq(S)
    BY <1>2
  <2>2. <<a>> \o <<>> = <<a>>
    BY <2>1
  <2>3. t \in Seq(S) /\ Len(t) = 2
    BY <2>1
  <2>4. t[1] = a /\ t[2] = c
    BY <2>1
  <2> QED
    BY <2>2, <2>3, <2>4
<1>4. q \o <<a>> = Append(q, a)
  BY <1>1, <1>2
<1> HIDE DEF t
<1>5. q \o t = Append(Append(q, a), c)
  <2> DEFINE x == q \o t
             y == Append(Append(q, a), c)
             n == Len(q)
  <2>0. t \in Seq(S) /\ Len(t) = 2 /\ t[1] = a /\ t[2] = c
    BY <1>3
  <2>1. n \in Nat /\ x \in Seq(S) /\ Len(x) = n + 2
    <3>1. x \in Seq(S) /\ n \in Nat /\ Len(x) = n + Len(t)
      BY <1>1, <2>0, ConcatFacts
    <3> QED
      BY <2>0, <3>1
  <2>2. x[n + 1] = a /\ x[n + 2] = c /\ \A i \in 1 .. n : x[i] = q[i]
    <3>1. 1 \in 1 .. Len(t) /\ 2 \in 1 .. Len(t)
      BY <2>0
    <3>2. (\A i \in 1 .. n : x[i] = q[i]) /\ \A i \in 1 .. Len(t) : x[n + i] = t[i]
      BY <1>1, <2>0, ConcatFacts
    <3> QED
      BY <2>0, <3>1, <3>2
  <2>3. y \in Seq(S) /\ Len(y) = n + 2
    BY <1>1, <1>2, AppendFacts
  <2>4. y[n + 1] = a /\ y[n + 2] = c /\ \A i \in 1 .. n : y[i] = q[i]
    BY <1>1, <1>2, AppendFacts
  <2> HIDE DEF x, y, n
  <2>5. \A i \in 1 .. n + 2 : x[i] = y[i]
    <3>1. \A i \in 1 .. n + 2 : i \in 1 .. n \/ i = n + 1 \/ i = n + 2
      BY <2>1
    <3> QED
      BY <2>2, <2>4, <3>1
  <2>6. x = y
    BY <2>1, <2>3, <2>5
  <2> QED
    BY <2>6 DEF x, y
<1> QED
  BY <1>3, <1>4, <1>5 DEF t

\* The service learns the status of an aircraft and writes it to the stream.
LEMMA ObservationStep ==
  ASSUME RtkInv, NEW d \in Aircraft, NEW fix \in Fixes, RtkObserved(d, fix)
  PROVE  RtkInv'
<1> DEFINE status == [at |-> clock', fix |-> fix]
           transition == [of |-> d, at |-> clock', to |-> fix]
           m == [type |-> "status", of |-> d, mission |-> flies[d], status |-> status]
           t == [type |-> "transition", alert |-> transition]
           fx == IF fix = "unknown" THEN service.fixed ELSE With(service.fixed, d, fix)
           tr == IF FixChanges(d, fix) THEN Newest(Append(service.transitions, transition), MaxTransitions)
                 ELSE service.transitions
           known == With(service.latest, d, status)
           written == <<m>> \o IF FixChanges(d, fix) THEN <<t>> ELSE <<>>
<1>1. /\ clock' \in {clock, clock + 1}
      /\ service' = [service EXCEPT !.latest = known, !.fixed = fx, !.transitions = tr]
      /\ wire' = IF service.subscribed THEN wire \o written ELSE wire
      /\ UNCHANGED <<stream, view>>
  BY DEF RtkObserved, Write
<1>2. RtkTypes
  BY DEF RtkInv
<1>3. clock' \in Nat
  BY <1>1, <1>2 DEF RtkTypes
<1>4. status \in RtkStatuses
  BY <1>3 DEF RtkStatuses
<1>5. m.type = "status" /\ m.of = d /\ m.status = status /\ t.type = "transition"
  OBVIOUS
<1>6. IsSequence(wire)
  BY <1>2 DEF RtkTypes
<1>7. wire \o written \in {Append(wire, m), Append(Append(wire, m), t)}
  <2> HIDE DEF m, t
  <2>1. /\ wire \o (<<m>> \o <<>>) = Append(wire, m)
        /\ wire \o (<<m>> \o <<t>>) = Append(Append(wire, m), t)
    BY <1>6, WrittenFacts
  <2> QED
    BY <2>1
<1> HIDE DEF status, transition, m, t, fx, tr, known, written
<1>8. /\ IsSequence(Append(wire, m)) /\ Len(wire) \in Nat
      /\ Len(Append(wire, m)) = Len(wire) + 1
      /\ \A i \in 1 .. Len(wire) : Append(wire, m)[i] = wire[i]
      /\ Append(wire, m)[Len(wire) + 1] = m
  BY <1>6, SequenceAppend
<1>9. /\ IsSequence(Append(Append(wire, m), t))
      /\ Len(Append(Append(wire, m), t)) = Len(wire) + 1 + 1
      /\ \A i \in 1 .. Len(wire) + 1 : Append(Append(wire, m), t)[i] = Append(wire, m)[i]
      /\ Append(Append(wire, m), t)[Len(wire) + 1 + 1] = t
  <2> DEFINE p == Append(wire, m)
  <2>1. IsSequence(p) /\ Len(p) = Len(wire) + 1
    BY <1>8
  <2> HIDE DEF p
  <2>2. /\ IsSequence(Append(p, t)) /\ Len(Append(p, t)) = Len(p) + 1
        /\ \A i \in 1 .. Len(p) : Append(p, t)[i] = p[i]
        /\ Append(p, t)[Len(p) + 1] = t
    BY <2>1, SequenceAppend
  <2> QED
    BY <2>1, <2>2 DEF p
<1>10. /\ wire' \in {wire, Append(wire, m), Append(Append(wire, m), t)}
       /\ service.subscribed => wire' \in {Append(wire, m), Append(Append(wire, m), t)}
  BY <1>1, <1>7
<1>11. /\ IsSequence(wire') /\ Len(wire) <= Len(wire')
       /\ \A i \in 1 .. Len(wire) : wire'[i] = wire[i]
       /\ \A i \in 1 .. Len(wire') : wire'[i].type \in {"open", "snapshot", "status", "transition"}
  <2>1. \A i \in 1 .. Len(wire) : wire[i].type \in {"open", "snapshot", "status", "transition"}
    BY <1>2 DEF RtkTypes
  <2>2. CASE wire' = wire
    BY <1>6, <1>8, <2>1, <2>2
  <2>3. CASE wire' = Append(wire, m)
    BY <1>5, <1>8, <2>1, <2>3
  <2>4. CASE wire' = Append(Append(wire, m), t)
    BY <1>5, <1>8, <1>9, <2>1, <2>4
  <2> QED
    BY <1>10, <2>2, <2>3, <2>4
<1>12. /\ DOMAIN service' = DOMAIN Down /\ service'.latest = known
       /\ service'.subscribed = service.subscribed
  BY <1>1, <1>2 DEF RtkTypes, Down
<1>13. /\ known = [x \in DOMAIN known |-> known[x]]
       /\ \A x \in DOMAIN known : known[x] \in RtkStatuses
  BY <1>2, <1>4 DEF RtkTypes, With, known
<1>14. RtkTypes'
  BY <1>1, <1>2, <1>3, <1>11, <1>12, <1>13 DEF RtkTypes
<1>15. ASSUME stream = "open", service.subscribed, NEW b \in 0 .. 2, Behind(b) PROVE Behind(b)'
  <2> DEFINE base == IF b = 0 THEN view.devices ELSE wire[b].list
  <2>1. /\ b <= Len(wire) /\ Explains(wire, b, base, service.latest)
    BY <1>15 DEF Behind
  <2>2. Explains(Append(wire, m), b, base, known)
    <3> HIDE DEF base
    <3>1. Explains(Append(wire, m), b, base, With(service.latest, m.of, m.status))
      BY <1>4, <1>5, <1>6, <2>1, ExplainsStatus
    <3> QED
      BY <1>5, <3>1 DEF known
  <2>3. Explains(Append(Append(wire, m), t), b, base, known)
    <3> DEFINE p == Append(wire, m)
    <3>1. IsSequence(p) /\ b <= Len(p) /\ Explains(p, b, base, known)
      BY <1>8, <2>1, <2>2
    <3> HIDE DEF p, base
    <3>2. Explains(Append(p, t), b, base, known)
      BY <1>5, <3>1, ExplainsTransition
    <3> QED
      BY <3>2 DEF p
  <2>4. Explains(wire', b, base, known)
    BY <1>10, <1>15, <2>2, <2>3
  <2>5. b > 0 => b \in 1 .. Len(wire) /\ wire'[b] = wire[b]
    BY <1>8, <1>11, <2>1
  <2>6. b = 2 => wire'[1] = wire[1]
    BY <1>8, <1>11, <2>1
  <2>7. (IF b = 0 THEN view'.devices ELSE wire'[b].list) = base
    BY <1>1, <2>5
  <2>8. Explains(wire', b, IF b = 0 THEN view'.devices ELSE wire'[b].list, service'.latest)
    BY <1>12, <2>4, <2>7
  <2>9. /\ b <= Len(wire')
        /\ IF b = 2 THEN wire'[1].type = "open" ELSE view'.connected = TRUE
        /\ b > 0 => wire'[b].type = "snapshot" /\ IsListed(wire'[b].list)
        /\ b = 0 => HistoryEnds(view'.history, view'.devices)
    BY <1>1, <1>8, <1>11, <1>15, <2>1, <2>5, <2>6 DEF Behind
  <2> QED
    BY <2>8, <2>9 DEF Behind, Explains, HistoryEnds, IsListed
<1> QED
  BY <1>1, <1>12, <1>14, <1>15 DEF RtkInv

\* A snapshot lists what the service knows.
LEMMA SnapshotStep ==
  ASSUME RtkInv, StreamOpens
  PROVE  RtkInv'
<1> DEFINE list == RtkList
           a == [type |-> "open"]
           s == [type |-> "snapshot", list |-> list]
<1>1. /\ service' = [service EXCEPT !.subscribed = TRUE] /\ wire' = <<a, s>>
      /\ UNCHANGED <<clock, view>>
  BY DEF StreamOpens
<1>2. RtkTypes
  BY DEF RtkInv
<1>3. a.type = "open" /\ s.type = "snapshot" /\ s.list = list
  OBVIOUS
<1>4. /\ DOMAIN list = DOMAIN service.latest
      /\ \A d \in DOMAIN list : list[d].at = service.latest[d].at /\ list[d].fix = service.latest[d].fix
  BY DEF RtkList
<1> HIDE DEF list, a, s
<1>5. IsListed(list)
  BY <1>2, <1>4 DEF RtkTypes, RtkStatuses, IsListed
<1>6. /\ Len(wire') = 2 /\ wire'[1] = a /\ wire'[2] = s
  BY <1>1
<1>7. IsSequence(wire')
  <2> DEFINE T == {wire'[i] : i \in 1 .. Len(wire')}
  <2>1. a \in T /\ s \in T
    BY <1>6
  <2> HIDE DEF T
  <2>2. <<a, s>> \in Seq(T)
    BY <2>1
  <2> QED
    BY <1>1, <2>2 DEF IsSequence, T
<1>8. /\ DOMAIN service' = DOMAIN Down /\ service'.latest = service.latest /\ service'.subscribed = TRUE
  BY <1>1, <1>2 DEF RtkTypes, Down
<1>9. RtkTypes'
  <2>1. \A i \in 1 .. Len(wire') : wire'[i].type \in {"open", "snapshot", "status", "transition"}
    BY <1>3, <1>6
  <2> QED
    BY <1>1, <1>2, <1>7, <1>8, <2>1 DEF RtkTypes
<1>10. Behind(2)'
  <2>1. Explains(wire', 2, list, service'.latest)
    <3>1. \A i \in 2 + 1 .. Len(wire') : FALSE
      BY <1>6
    <3> QED
      BY <1>4, <1>8, <3>1 DEF Explains
  <2> QED
    BY <1>3, <1>6, <1>5, <2>1 DEF Behind, Explains, IsListed
<1> QED
  BY <1>9, <1>10 DEF RtkInv

\* What a message does to the console's state.
LEMMA HeardFacts ==
  ASSUME DOMAIN view = DOMAIN NoView, NEW m, view' = Heard(m),
         m.type \in {"open", "snapshot", "status", "transition"}
  PROVE  /\ DOMAIN view' = DOMAIN NoView
         /\ m.type = "open" => view'.connected = TRUE
         /\ m.type # "open" => view'.connected = view.connected
         /\ m.type = "snapshot" => view'.devices = m.list
              /\ view'.history = [d \in DOMAIN m.list |-> <<[at |-> m.list[d].at, fix |-> m.list[d].fix]>>]
         /\ m.type = "status" => /\ view'.devices = Updated(view.devices, m)
                                 /\ view'.history = Recorded(view.history, m)
         /\ m.type = "transition" => view'.devices = view.devices /\ view'.history = view.history
<1>1. CASE m.type = "open"
  <2>1. view' = [view EXCEPT !.connected = TRUE]
    BY <1>1 DEF Heard
  <2> QED
    BY <1>1, <2>1 DEF NoView
<1>2. CASE m.type = "snapshot"
  <2> DEFINE h == [d \in DOMAIN m.list |-> <<[at |-> m.list[d].at, fix |-> m.list[d].fix]>>]
  <2>1. view' = [view EXCEPT !.devices = m.list, !.history = h]
    BY <1>2 DEF Heard, Replaced
  <2> HIDE DEF h
  <2>2. /\ DOMAIN view' = DOMAIN NoView /\ view'.devices = m.list /\ view'.history = h
        /\ view'.connected = view.connected
    BY <2>1 DEF NoView
  <2> QED
    BY <1>2, <2>2 DEF h
<1>3. CASE m.type = "status"
  <2> DEFINE v == Updated(view.devices, m)
             h == Recorded(view.history, m)
  <2>1. view' = [view EXCEPT !.devices = v, !.history = h]
    BY <1>3 DEF Heard
  <2> HIDE DEF v, h
  <2>2. /\ DOMAIN view' = DOMAIN NoView /\ view'.devices = v /\ view'.history = h
        /\ view'.connected = view.connected
    BY <2>1 DEF NoView
  <2> QED
    BY <1>3, <2>2 DEF v, h
<1>4. CASE m.type = "transition"
  <2> DEFINE a == Oldest(<<m.alert>> \o view.alerts, MaxShown)
  <2>1. view' = [view EXCEPT !.alerts = a]
    BY <1>4 DEF Heard
  <2> HIDE DEF a
  <2> QED
    BY <1>4, <2>1 DEF NoView
<1> QED
  BY <1>1, <1>2, <1>3, <1>4

\* The console takes over the oldest message on the wire.
LEMMA HearStep ==
  ASSUME RtkInv, Hear
  PROVE  RtkInv'
<1> DEFINE m == wire[1]
<1>1. RtkTypes
  BY DEF RtkInv
<1>2. /\ wire # <<>> /\ IsSequence(wire)
      /\ view' = Heard(m) /\ wire' = Tail(wire)
      /\ UNCHANGED <<clock, service, stream>>
  BY <1>1, SequenceTail DEF Hear, RtkTypes
<1>3. /\ Len(wire) \in Nat \ {0} /\ IsSequence(wire') /\ Len(wire') = Len(wire) - 1
      /\ \A i \in 1 .. Len(wire') : wire'[i] = wire[i + 1]
  BY <1>2, SequenceTail
<1>4. m.type \in {"open", "snapshot", "status", "transition"}
  BY <1>1, <1>3 DEF RtkTypes
<1>5. \A i \in 1 .. Len(wire') : wire'[i].type \in {"open", "snapshot", "status", "transition"}
  <2>1. ASSUME NEW i \in 1 .. Len(wire') PROVE i + 1 \in 1 .. Len(wire) /\ wire'[i] = wire[i + 1]
    BY <1>3
  <2> QED
    BY <1>1, <2>1 DEF RtkTypes
<1> HIDE DEF m
<1>6. DOMAIN view' = DOMAIN NoView
  BY <1>1, <1>2, <1>4, HeardFacts DEF RtkTypes
<1>7. RtkTypes'
  BY <1>1, <1>2, <1>3, <1>5, <1>6 DEF RtkTypes
<1>8. ASSUME Behind(2) PROVE Behind(1)'
  <2>1. 2 <= Len(wire) /\ m.type = "open" /\ wire[2].type = "snapshot" /\ IsListed(wire[2].list)
        /\ Explains(wire, 2, wire[2].list, service.latest)
    BY <1>8 DEF Behind, m
  <2>2. wire'[1] = wire[2] /\ 1 <= Len(wire')
    BY <1>3, <2>1
  <2>3. Explains(wire', 1, wire'[1].list, service'.latest)
    <3> DEFINE base == wire[2].list
    <3>1. Explains(wire, 2, base, service.latest)
      BY <2>1
    <3> HIDE DEF base
    <3>2. Explains(Tail(wire), 2 - 1, base, service.latest)
      BY <1>2, <2>1, <3>1, ExplainsSkip
    <3>3. 2 - 1 = 1
      OBVIOUS
    <3> QED
      BY <1>2, <2>2, <3>2, <3>3 DEF base
  <2>4. view'.connected = TRUE
    BY <1>1, <1>2, <1>4, <2>1, HeardFacts DEF RtkTypes
  <2> QED
    BY <2>1, <2>2, <2>3, <2>4 DEF Behind, Explains, IsListed
<1>9. ASSUME view'.connected = TRUE, HistoryEnds(view'.history, view'.devices),
              Explains(wire', 0, view'.devices, service'.latest)
       PROVE  Behind(0)'
  BY <1>3, <1>9 DEF Behind, Explains, HistoryEnds
<1>10. ASSUME Behind(1) PROVE Behind(0)'
  <2>1. m.type = "snapshot" /\ view.connected = TRUE /\ IsListed(m.list)
        /\ Explains(wire, 1, m.list, service.latest)
    BY <1>10 DEF Behind, m
  <2>2. /\ view'.connected = TRUE /\ view'.devices = m.list
        /\ view'.history = [d \in DOMAIN m.list |-> <<[at |-> m.list[d].at, fix |-> m.list[d].fix]>>]
    BY <1>1, <1>2, <1>4, <2>1, HeardFacts DEF RtkTypes
  <2>3. Explains(wire', 0, view'.devices, service'.latest)
    <3>1. Explains(Tail(wire), 1 - 1, m.list, service.latest)
      BY <1>2, <1>3, <2>1, ExplainsSkip
    <3>2. 1 - 1 = 0
      OBVIOUS
    <3> QED
      BY <1>2, <2>2, <3>1, <3>2
  <2>4. HistoryEnds(view'.history, view'.devices)
    <3> DEFINE one(d) == [at |-> m.list[d].at, fix |-> m.list[d].fix]
    <3>1. \A d \in DOMAIN m.list : one(d) \in RtkStatuses
      BY <2>1 DEF IsListed, RtkStatuses
    <3>2. /\ DOMAIN view'.history = DOMAIN m.list
          /\ \A d \in DOMAIN m.list : view'.history[d] = <<one(d)>>
      BY <2>2
    <3>3. \A d \in DOMAIN m.list : one(d).at = m.list[d].at
      OBVIOUS
    <3> HIDE DEF one
    <3>4. ASSUME NEW d \in DOMAIN m.list
          PROVE  /\ view'.history[d] \in Seq(RtkStatuses) /\ view'.history[d] # <<>>
                 /\ view'.history[d][Len(view'.history[d])].at = m.list[d].at
      <4> DEFINE e == one(d)
      <4>1. e \in RtkStatuses /\ e.at = m.list[d].at /\ view'.history[d] = <<e>>
        BY <3>1, <3>2, <3>3
      <4> HIDE DEF e
      <4>2. <<e>> \in Seq(RtkStatuses) /\ Len(<<e>>) = 1 /\ <<e>>[1] = e /\ <<e>> # <<>>
        BY <4>1
      <4> QED
        BY <4>1, <4>2
    <3> QED
      BY <2>2, <3>2, <3>4 DEF HistoryEnds
  <2> QED
    BY <1>9, <2>2, <2>3, <2>4
<1>11. ASSUME Behind(0) PROVE Behind(0)'
  <2>1. /\ view.connected = TRUE /\ HistoryEnds(view.history, view.devices)
        /\ Explains(wire, 0, view.devices, service.latest)
    BY <1>11 DEF Behind
  <2>2. IsChange(m)
    <3>1. 1 \in 0 + 1 .. Len(wire)
      BY <1>3
    <3> QED
      BY <2>1, <3>1 DEF Explains, m
  <2>3. CASE m.type = "transition"
    <3>1. view'.connected = TRUE /\ view'.devices = view.devices /\ view'.history = view.history
      BY <1>1, <1>2, <1>4, <2>1, <2>3, HeardFacts DEF RtkTypes
    <3>2. \A d : ~About(wire[1], d)
      BY <2>3 DEF About, m
    <3>3. Explains(Tail(wire), 0, view.devices, service.latest)
      BY <1>2, <2>1, <3>2, ExplainsHeard
    <3> QED
      BY <1>2, <1>9, <2>1, <3>1, <3>3
  <2>4. CASE m.type = "status" /\ m.status \in RtkStatuses
    <3> DEFINE v == Updated(view.devices, m)
    <3>1. view'.connected = TRUE /\ view'.devices = v /\ view'.history = Recorded(view.history, m)
      BY <1>1, <1>2, <1>4, <2>1, <2>4, HeardFacts DEF RtkTypes
    <3>2. /\ DOMAIN v = DOMAIN view.devices \cup {m.of}
          /\ v[m.of].at = m.status.at /\ v[m.of].fix = m.status.fix
          /\ \A d \in DOMAIN view.devices : d # m.of => v[d] = view.devices[d]
      BY DEF Updated, With
    <3> HIDE DEF v
    <3>3. \A d : About(wire[1], d) <=> d = m.of
      BY <2>4 DEF About, m
    <3>4. Explains(Tail(wire), 0, v, service.latest)
      <4>1. \A d : d \in DOMAIN v <=> d \in DOMAIN view.devices \/ About(wire[1], d)
        BY <3>2, <3>3
      <4>2. \A d \in DOMAIN view.devices : ~About(wire[1], d) => v[d] = view.devices[d]
        BY <3>2, <3>3
      <4>3. \A d : About(wire[1], d) => v[d].at = wire[1].status.at /\ v[d].fix = wire[1].status.fix
        BY <3>2, <3>3 DEF m
      <4> QED
        BY <1>2, <2>1, <4>1, <4>2, <4>3, ExplainsHeard
    <3>5. HistoryEnds(Recorded(view.history, m), v)
      BY <2>1, <2>4, RecordedFacts DEF v
    <3> QED
      BY <1>2, <1>9, <3>1, <3>4, <3>5
  <2> QED
    BY <2>2, <2>3, <2>4 DEF IsChange
<1>12. ASSUME stream = "open", service.subscribed PROVE \E b \in 0 .. 2 : Behind(b)'
  <2>1. PICK b \in 0 .. 2 : Behind(b)
    BY <1>12 DEF RtkInv
  <2>2. CASE b = 2
    BY <1>8, <2>1, <2>2
  <2>3. CASE b = 1
    BY <1>10, <2>1, <2>3
  <2>4. CASE b = 0
    BY <1>11, <2>1, <2>4
  <2> QED
    BY <2>2, <2>3, <2>4
<1> QED
  BY <1>2, <1>7, <1>12 DEF RtkInv

\* A service that has just started knows nothing.
LEMMA DownFacts ==
  /\ DOMAIN Down.latest = {} /\ Down.latest = [d \in DOMAIN Down.latest |-> Down.latest[d]]
  /\ Down.subscribed = FALSE
  /\ \A q : q = <<>> => IsSequence(q) /\ Len(q) = 0
<1>1. Down.latest = <<>> /\ Down.subscribed = FALSE
  BY DEF Down
<1>2. \A S : <<>> \in Seq(S) /\ Len(<<>>) = 0
  OBVIOUS
<1>3. DOMAIN <<>> = {}
  OBVIOUS
<1>4. <<>> = [d \in DOMAIN <<>> |-> <<>>[d]]
  OBVIOUS
<1> QED
  BY <1>1, <1>2, <1>3, <1>4 DEF IsSequence

\* Steps after which the stream is not open and subscribed, or in which nothing of it
\* changes.
LEMMA StreamStep ==
  ASSUME RtkInv,
         \/ \E d \in Aircraft, m \in RtkMissions \cup {NoMission} : Flies(d, m)
         \/ ServiceStops \/ ServiceStarts \/ StreamCut \/ StreamRefused
         \/ MountRtk \/ UnmountRtk
  PROVE  RtkInv'
<1>0. RtkTypes
  BY DEF RtkInv
<1>1. ASSUME clock' = clock, UNCHANGED wire \/ wire' = <<>>,
             DOMAIN view' = DOMAIN NoView, DOMAIN service' = DOMAIN Down,
             service'.subscribed \in BOOLEAN,
             service'.latest = service.latest \/ service'.latest = Down.latest,
             ~(stream' = "open" /\ service'.subscribed)
      PROVE  RtkInv'
  <2>1. /\ IsSequence(wire')
        /\ \A i \in 1 .. Len(wire') : wire'[i].type \in {"open", "snapshot", "status", "transition"}
    BY <1>0, <1>1, DownFacts DEF RtkTypes
  <2>2. /\ service'.latest = [d \in DOMAIN service'.latest |-> service'.latest[d]]
        /\ \A d \in DOMAIN service'.latest : service'.latest[d] \in RtkStatuses
    BY <1>0, <1>1, DownFacts DEF RtkTypes
  <2>3. RtkTypes'
    BY <1>0, <1>1, <2>1, <2>2 DEF RtkTypes
  <2> QED
    BY <1>1, <2>3 DEF RtkInv
<1>2. ASSUME NEW d \in Aircraft, NEW m \in RtkMissions \cup {NoMission}, Flies(d, m) PROVE RtkInv'
  <2>1. UNCHANGED <<clock, service, stream, wire, view>>
    BY <1>2 DEF Flies
  <2> QED
    BY <2>1 DEF RtkInv, RtkTypes, Behind, Explains, HistoryEnds, IsListed, IsSequence
<1>3. CASE ServiceStops
  <2>1. service' = Down /\ UNCHANGED <<clock, wire, view>>
    BY <1>3 DEF ServiceStops
  <2> QED
    BY <1>0, <1>1, <2>1, DownFacts DEF RtkTypes
<1>4. CASE ServiceStarts
  <2>1. service' = [Down EXCEPT !.up = TRUE] /\ UNCHANGED <<clock, wire, view>>
    BY <1>4 DEF ServiceStarts
  <2>2. /\ DOMAIN service' = DOMAIN Down /\ service'.latest = Down.latest
        /\ service'.subscribed = FALSE
    BY <2>1 DEF Down
  <2> QED
    BY <1>0, <1>1, <2>1, <2>2 DEF RtkTypes
<1>5. CASE StreamCut
  <2>1. /\ stream' = "connecting" /\ wire' = <<>> /\ clock' = clock
        /\ view' = [view EXCEPT !.connected = FALSE]
        /\ service' = [service EXCEPT !.subscribed = FALSE]
    BY <1>5 DEF StreamCut
  <2>2. /\ DOMAIN service' = DOMAIN Down /\ DOMAIN view' = DOMAIN NoView
        /\ service'.latest = service.latest /\ service'.subscribed = FALSE
    BY <1>0, <2>1 DEF RtkTypes, Down
  <2> QED
    BY <1>1, <2>1, <2>2
<1>6. CASE StreamRefused
  <2>1. /\ stream' = "failed" /\ view' = [view EXCEPT !.connected = FALSE]
        /\ UNCHANGED <<clock, service, wire>>
    BY <1>6 DEF StreamRefused
  <2>2. DOMAIN view' = DOMAIN NoView
    BY <1>0, <2>1 DEF RtkTypes
  <2> QED
    BY <1>0, <1>1, <2>1, <2>2 DEF RtkTypes
<1>7. CASE MountRtk
  <2>1. stream' = "connecting" /\ UNCHANGED <<clock, service, wire, view>>
    BY <1>7 DEF MountRtk
  <2> QED
    BY <1>0, <1>1, <2>1 DEF RtkTypes
<1>8. CASE UnmountRtk
  <2>1. /\ stream' = "none" /\ wire' = <<>> /\ view' = NoView /\ clock' = clock
        /\ service' = [service EXCEPT !.subscribed = FALSE]
    BY <1>8 DEF UnmountRtk
  <2>2. /\ DOMAIN service' = DOMAIN Down
        /\ service'.latest = service.latest /\ service'.subscribed = FALSE
    BY <1>0, <2>1 DEF RtkTypes, Down
  <2> QED
    BY <1>1, <2>1, <2>2
<1> QED
  BY <1>2, <1>3, <1>4, <1>5, <1>6, <1>7, <1>8

\* With nothing on its way the console shows what the service knows.
LEMMA RtkInvImplies ==
  ASSUME RtkInv
  PROVE  ConsoleIsCurrent
<1>1. SUFFICES ASSUME stream = "open", service.subscribed, wire = <<>>
               PROVE  /\ view.connected
                      /\ StatusesOf(view.devices) = service.latest
                      /\ DOMAIN view.history = DOMAIN view.devices
                      /\ \A d \in DOMAIN view.history :
                           view.history[d][Len(view.history[d])].at = view.devices[d].at
  BY DEF ConsoleIsCurrent
<1>2. Len(wire) = 0 /\ RtkTypes
  BY <1>1, DownFacts DEF RtkInv
<1>3. PICK b \in 0 .. 2 : Behind(b)
  BY <1>1 DEF RtkInv
<1>4. b = 0
  BY <1>2, <1>3 DEF Behind
<1>5. /\ view.connected = TRUE /\ HistoryEnds(view.history, view.devices)
      /\ Explains(wire, 0, view.devices, service.latest)
  BY <1>3, <1>4 DEF Behind
<1>6. \A i \in 0 + 1 .. Len(wire) : FALSE
  BY <1>2
<1>7. /\ \A d : d \in DOMAIN service.latest <=> d \in DOMAIN view.devices
      /\ \A d \in DOMAIN service.latest :
           view.devices[d].at = service.latest[d].at /\ view.devices[d].fix = service.latest[d].fix
  BY <1>5, <1>6 DEF Explains
<1>8. StatusesOf(view.devices) = service.latest
  <2>1. DOMAIN service.latest = DOMAIN view.devices
    BY <1>7
  <2>2. ASSUME NEW d \in DOMAIN service.latest
        PROVE  service.latest[d] = [at |-> view.devices[d].at, fix |-> view.devices[d].fix]
    <3>1. service.latest[d] \in RtkStatuses
      BY <1>2 DEF RtkTypes
    <3>2. service.latest[d] = [at |-> service.latest[d].at, fix |-> service.latest[d].fix]
      BY <3>1 DEF RtkStatuses
    <3> QED
      BY <1>7, <3>2
  <2>3. service.latest = [d \in DOMAIN service.latest |-> service.latest[d]]
    BY <1>2 DEF RtkTypes
  <2> QED
    BY <2>1, <2>2, <2>3 DEF StatusesOf
<1> QED
  BY <1>5, <1>8 DEF HistoryEnds

\* While the stream lasts and nothing is on its way, the console shows exactly what the
\* backend knows, for any aircraft, missions, histories and interruptions.
THEOREM ConsoleCatchesUp == Spec => []ConsoleIsCurrent
<1>1. Init => RtkInv
  <2>1. SUFFICES ASSUME Init PROVE RtkInv
    OBVIOUS
  <2>2. /\ clock = 0 /\ stream = "none" /\ wire = <<>> /\ view = NoView
        /\ service = [Down EXCEPT !.up = TRUE]
    BY <2>1 DEF Init, RtkInit
  <2>3. /\ DOMAIN service = DOMAIN Down /\ service.latest = Down.latest
        /\ service.subscribed = FALSE
    BY <2>2 DEF Down
  <2>4. IsSequence(wire) /\ Len(wire) = 0
    BY <2>2, DownFacts
  <2>5. DOMAIN view = DOMAIN NoView /\ clock \in Nat /\ service.subscribed \in BOOLEAN
    BY <2>2, <2>3
  <2>6. /\ DOMAIN service.latest = {}
        /\ service.latest = [d \in DOMAIN service.latest |-> service.latest[d]]
    <3>1. DOMAIN Down.latest = {} /\ Down.latest = [d \in DOMAIN Down.latest |-> Down.latest[d]]
      BY DownFacts
    <3> QED
      BY <3>1, <2>3
  <2>7. \A i \in 1 .. Len(wire) : wire[i].type \in {"open", "snapshot", "status", "transition"}
    BY <2>4
  <2>8. RtkTypes
    BY <2>3, <2>4, <2>5, <2>6, <2>7 DEF RtkTypes
  <2>9. stream # "open"
    BY <2>2
  <2> QED
    BY <2>8, <2>9 DEF RtkInv
<1>2. RtkInv /\ [Next]_vars => RtkInv'
  <2>1. [Next]_vars => RtkStep \/ MountRtk \/ UnmountRtk \/ UNCHANGED rtkVars
    BY DEF Next, WebStep, LayersStep, MountLayers, UnmountLayers, OpenDashboard, CloseDashboard,
           WorkspaceStep, webVars, vars
  <2>2. RtkInv /\ UNCHANGED rtkVars => RtkInv'
    BY DEF rtkVars, RtkInv, RtkTypes, Behind, Explains, HistoryEnds, IsListed, IsSequence
  <2>3. RtkInv /\ RtkStep => RtkInv'
    BY ObservationStep, SnapshotStep, HearStep, StreamStep DEF RtkStep
  <2> QED
    BY <2>1, <2>2, <2>3, StreamStep
<1> QED
  BY <1>1, <1>2, RtkInvImplies, PTL DEF Spec

-------------------------------------------------------------------------------
(* The map of the RC app *)

Maps == [by: Nat, open: BOOLEAN, ready: BOOLEAN, marker: [Drawn -> Positions],
         path: Seq(Places), last: Positions, line: Seq(Places)]

\* The flight path that is drawn is the one that is kept, which ends at the last point
\* and repeats none; a map without a style has none.
PathKept(m) ==
  /\ m.line = IF Len(m.path) < 2 THEN <<>> ELSE m.path
  /\ m.path # <<>> => m.last = m.path[Len(m.path)]
  /\ \A i \in 1 .. Len(m.path) - 1 : m.path[i] # m.path[i + 1]
  /\ ~m.ready => m.path = <<>>

\* The flight path ends at the aircraft's marker.
PathLeads(m) == m.path # <<>> => m.last = m.marker["aircraft"]

\* The runnable will draw the position of the source on the map that is shown now.
Draws(r, k) == r.to = "map" /\ r.by = map.by /\ r.what = k

\* The marker shows the source; an aircraft without a position keeps its marker.
Marks(m, k, p) == m.marker[k] = p \/ (k = "aircraft" /\ p = Nowhere)

\* What was posted to a map is a position for an instance that was opened.
PostedOk ==
  /\ IsSequence(posted)
  /\ \A i \in 1 .. Len(posted) : posted[i].to = "map" =>
       posted[i].by \in Nat /\ posted[i].by <= map.by /\ posted[i].what \in Drawn /\ posted[i].at \in Positions

\* The last of the runnables for a source carries its position; where none is left, a
\* loaded map marks it.
SourceFollowed(k) ==
  /\ \A i \in 1 .. Len(posted) :
       Draws(posted[i], k) /\ (\A j \in i + 1 .. Len(posted) : ~Draws(posted[j], k)) => posted[i].at = source[k]
  /\ map.ready /\ (\A i \in 1 .. Len(posted) : ~Draws(posted[i], k)) => Marks(map, k, source[k])

MapTypes == map \in Maps /\ source \in [Drawn -> Positions]

MapInv ==
  /\ MapTypes /\ PostedOk
  /\ PathKept(map) /\ PathLeads(map)
  /\ map.open => \A k \in Drawn : SourceFollowed(k)

\* A point that is added is the last one; a point that has not moved is not added.
LEMMA PathGrows ==
  ASSUME NEW m \in Maps, PathKept(m), m.ready, NEW p \in Places
  PROVE  /\ AppendFlightPath(m, p) \in Maps /\ PathKept(AppendFlightPath(m, p))
         /\ AppendFlightPath(m, p).last = p
         /\ AppendFlightPath(m, p).marker = m.marker /\ AppendFlightPath(m, p).by = m.by
         /\ AppendFlightPath(m, p).open = m.open /\ AppendFlightPath(m, p).ready = m.ready
<1>1. CASE m.last = p
  BY <1>1 DEF AppendFlightPath
<1>2. CASE m.last # p
  <2> DEFINE longer == Append(m.path, p)
             path == IF Len(longer) > MaxPath THEN Tail(longer) ELSE longer
             line == IF Len(path) < 2 THEN <<>> ELSE path
             n == [m EXCEPT !.last = p, !.path = path]
             r == [n EXCEPT !.line = line]
  <2>1. m.path \in Seq(Places) /\ Len(m.path) \in Nat /\ (m.path # <<>> <=> Len(m.path) # 0)
    BY EmptyFacts DEF Maps
  <2>2. /\ longer \in Seq(Places) /\ longer # <<>> /\ Len(longer) = Len(m.path) + 1
        /\ \A i \in 1 .. Len(m.path) : longer[i] = m.path[i]
        /\ longer[Len(m.path) + 1] = p
    BY <2>1, AppendFacts
  <2>3. MaxPath \in Nat \ {0}
    BY ScreensAssumption DEF ScreensAssumption
  <2>4. \A i \in 1 .. Len(longer) - 1 : longer[i] # longer[i + 1]
    <3>1. SUFFICES ASSUME NEW i \in 1 .. Len(m.path) PROVE longer[i] # longer[i + 1]
      BY <2>1, <2>2
    <3>2. CASE i = Len(m.path)
      <4>1. m.path[i] = m.last
        BY <2>1, <3>2 DEF PathKept
      <4> QED
        BY <1>2, <2>2, <3>2, <4>1
    <3>3. CASE i # Len(m.path)
      <4>1. i \in 1 .. Len(m.path) - 1 /\ i + 1 \in 1 .. Len(m.path)
        BY <2>1, <3>3
      <4> QED
        BY <2>2, <4>1 DEF PathKept
    <3> QED
      BY <3>2, <3>3
  <2>5. /\ Tail(longer) \in Seq(Places) /\ Len(Tail(longer)) = Len(longer) - 1
        /\ \A i \in 1 .. Len(Tail(longer)) : Tail(longer)[i] = longer[i + 1]
    BY <2>2, TailFacts
  <2> HIDE DEF longer
  <2>6. /\ path \in Seq(Places) /\ Len(path) \in Nat \ {0} /\ path[Len(path)] = p
        /\ \A i \in 1 .. Len(path) - 1 : path[i] # path[i + 1]
    BY <2>1, <2>2, <2>3, <2>4, <2>5
  <2> HIDE DEF path
  <2>7. <<>> \in Seq(Places)
    OBVIOUS
  <2>8. line \in Seq(Places)
    BY <2>6, <2>7
  <2> HIDE DEF line
  <2>9. p \in Positions
    BY DEF Positions
  <2>10. /\ n \in Maps /\ n.last = p /\ n.path = path /\ n.ready = m.ready
         /\ n.marker = m.marker /\ n.by = m.by /\ n.open = m.open
    BY <2>6, <2>9 DEF Maps
  <2>11. /\ r \in Maps /\ r.last = p /\ r.path = path /\ r.line = line /\ r.ready = m.ready
         /\ r.marker = m.marker /\ r.by = m.by /\ r.open = m.open
    <3> HIDE DEF n
    <3> QED
      BY <2>8, <2>10 DEF Maps
  <2>12. AppendFlightPath(m, p) = r
    BY <1>2, <2>10 DEF AppendFlightPath, Redraw, path, longer, line
  <2>13. PathKept(r)
    <3> HIDE DEF n, r
    <3> QED
      BY <2>6, <2>11 DEF PathKept, line
  <2> QED
    BY <2>11, <2>12, <2>13
<1> QED
  BY <1>1, <1>2

\* Rendering a position of a source marks it and nothing else; the flight path follows
\* the aircraft's marker.
LEMMA RenderFacts ==
  ASSUME NEW m \in Maps, PathKept(m), PathLeads(m), NEW k \in Drawn, NEW p \in Positions
  PROVE  /\ Render(m, k, p) \in Maps /\ PathKept(Render(m, k, p)) /\ PathLeads(Render(m, k, p))
         /\ Render(m, k, p).by = m.by /\ Render(m, k, p).open = m.open /\ Render(m, k, p).ready = m.ready
         /\ \A j \in Drawn : j # k => Render(m, k, p).marker[j] = m.marker[j]
         /\ m.ready => Marks(Render(m, k, p), k, p)
<1>1. CASE ~m.ready \/ (k = "aircraft" /\ p = Nowhere)
  BY <1>1 DEF Render, Marks
<1>2. CASE ~(~m.ready \/ (k = "aircraft" /\ p = Nowhere))
  <2> DEFINE n == [m EXCEPT !.marker[k] = p]
  <2>1. /\ n \in Maps /\ n.by = m.by /\ n.open = m.open /\ n.ready = m.ready
        /\ n.path = m.path /\ n.last = m.last /\ n.line = m.line
        /\ n.marker = [m.marker EXCEPT ![k] = p]
    BY DEF Maps
  <2>2. n.marker[k] = p /\ \A j \in Drawn : j # k => n.marker[j] = m.marker[j]
    BY <2>1 DEF Maps
  <2>3. Render(m, k, p) = IF k = "aircraft" THEN AppendFlightPath(n, p) ELSE n
    BY <1>2 DEF Render
  <2> HIDE DEF n
  <2>4. PathKept(n)
    BY <2>1 DEF PathKept
  <2>5. CASE k = "aircraft"
    <3>1. p \in Places /\ n.ready
      BY <1>2, <2>1, <2>5 DEF Positions
    <3> DEFINE r == AppendFlightPath(n, p)
    <3>2. /\ r \in Maps /\ PathKept(r) /\ r.last = p /\ r.marker = n.marker
          /\ r.by = n.by /\ r.open = n.open /\ r.ready = n.ready
      BY <2>1, <2>4, <3>1, PathGrows
    <3>3. Render(m, k, p) = r
      BY <2>3, <2>5
    <3> HIDE DEF r
    <3>4. PathLeads(r) /\ Marks(r, k, p)
      BY <2>2, <2>5, <3>2 DEF PathLeads, Marks
    <3>5. \A j \in Drawn : j # k => r.marker[j] = m.marker[j]
      BY <2>2, <3>2
    <3> QED
      BY <2>1, <3>2, <3>3, <3>4, <3>5
  <2>6. CASE k # "aircraft"
    <3>1. Render(m, k, p) = n
      BY <2>3, <2>6
    <3>2. "aircraft" \in Drawn
      BY DEF Drawn
    <3>3. PathLeads(n)
      BY <2>1, <2>2, <2>6, <3>2 DEF PathLeads
    <3>4. Marks(n, k, p)
      BY <2>2 DEF Marks
    <3> QED
      BY <2>1, <2>2, <2>4, <3>1, <3>3, <3>4
  <2> QED
    BY <2>5, <2>6
<1> QED
  BY <1>1, <1>2

\* Posting one runnable appends it.
LEMMA PostOne ==
  ASSUME NEW q, IsSequence(q), NEW a
  PROVE  q \o <<a>> = Append(q, a)
<1>1. (<<a>> \o <<>>) = <<a>>
  <2>1. <<a>> \in Seq({a}) /\ <<>> \in Seq({a})
    OBVIOUS
  <2> QED
    BY <2>1
<1>2. q \o (<<a>> \o <<>>) = Append(q, a)
  BY WrittenFacts
<1> QED
  BY <1>1, <1>2

\* A source moves: the map that is shown is told, behind what it was told before.
LEMMA MovedStep ==
  ASSUME MapInv, NEW k \in Drawn, NEW p \in Positions, Moved(k, p)
  PROVE  MapInv'
<1>0. /\ MapTypes /\ PostedOk /\ PathKept(map) /\ PathLeads(map)
      /\ map.open => \A j \in Drawn : SourceFollowed(j)
  BY DEF MapInv
<1>1. map' = map /\ source' = [source EXCEPT ![k] = p]
  BY DEF Moved
<1>2. MapTypes' /\ PathKept(map)' /\ PathLeads(map)'
  BY <1>0, <1>1 DEF MapTypes, PathKept, PathLeads
<1>3. CASE ~map.open
  <2>1. posted' = posted
    BY <1>3 DEF Moved, TellMap
  <2>2. PostedOk'
    BY <1>0, <1>1, <2>1 DEF PostedOk, IsSequence
  <2> QED
    BY <1>1, <1>2, <1>3, <2>2 DEF MapInv
<1>4. CASE map.open
  <2> DEFINE r == [to |-> "map", by |-> map.by, what |-> k, at |-> p]
             q == posted'
             n == Len(posted)
  <2>1. posted' = posted \o <<r>>
    BY <1>4 DEF Moved, TellMap, Post
  <2>2. r.to = "map" /\ r.by = map.by /\ r.what = k /\ r.at = p /\ map.by \in Nat
    BY <1>0 DEF MapTypes, Maps
  <2> HIDE DEF r
  <2>3. IsSequence(posted)
    BY <1>0 DEF PostedOk
  <2>4. q = Append(posted, r)
    BY <2>1, <2>3, PostOne
  <2>5. /\ IsSequence(q) /\ n \in Nat /\ Len(q) = n + 1
        /\ \A i \in 1 .. n : q[i] = posted[i]
        /\ q[n + 1] = r
    BY <2>3, <2>4, SequenceAppend
  <2>6. \A i \in 1 .. n + 1 : i \in 1 .. n \/ i = n + 1
    BY <2>5
  <2>7. PostedOk'
    BY <1>0, <1>1, <2>2, <2>5, <2>6 DEF PostedOk
  <2>8. ASSUME NEW j \in Drawn PROVE SourceFollowed(j)'
    <3>1. /\ source'[k] = p /\ (j # k => source'[j] = source[j])
      BY <1>0, <1>1 DEF MapTypes
    <3>2. SourceFollowed(j)
      BY <1>0, <1>4
    <3>3. ASSUME NEW i \in 1 .. n + 1, Draws(q[i], j), \A x \in i + 1 .. n + 1 : ~Draws(q[x], j)
          PROVE  q[i].at = source'[j]
      <4>1. CASE j = k
        <5>1. Draws(q[n + 1], j)
          BY <2>2, <2>5, <4>1 DEF Draws
        <5>2. i = n + 1
          BY <2>5, <3>3, <5>1
        <5> QED
          BY <2>2, <2>5, <3>1, <4>1, <5>2
      <4>2. CASE j # k
        <5>1. ~Draws(q[n + 1], j)
          BY <2>2, <2>5, <4>2 DEF Draws
        <5>2. i \in 1 .. n
          BY <2>6, <3>3, <5>1
        <5>3. \A x \in i + 1 .. n : ~Draws(posted[x], j)
          BY <2>5, <3>3, <5>2
        <5>4. Draws(posted[i], j)
          BY <2>5, <3>3, <5>2
        <5>5. posted[i].at = source[j]
          BY <3>2, <5>2, <5>3, <5>4 DEF SourceFollowed
        <5> QED
          BY <2>5, <3>1, <4>2, <5>2, <5>5
      <4> QED
        BY <4>1, <4>2
    <3>4. ASSUME map.ready, \A x \in 1 .. n + 1 : ~Draws(q[x], j)
          PROVE  Marks(map, j, source'[j])
      <4>1. j # k
        BY <2>2, <2>5, <3>4 DEF Draws
      <4>2. \A x \in 1 .. n : ~Draws(posted[x], j)
        BY <2>5, <3>4
      <4> QED
        BY <3>1, <3>2, <3>4, <4>1, <4>2 DEF SourceFollowed
    <3> QED
      BY <1>1, <2>5, <3>3, <3>4 DEF SourceFollowed, Draws, Marks
  <2> QED
    BY <1>2, <2>7, <2>8 DEF MapInv
<1> QED
  BY <1>3, <1>4

\* What is posted to the video is nothing to the map.
LEMMA OtherPosted ==
  ASSUME MapInv, UNCHANGED mapVars,
         NEW r, r.to = "video", Post(<<r>>) \/ UNCHANGED posted
  PROVE  MapInv'
<1>0. /\ MapTypes /\ PostedOk /\ PathKept(map) /\ PathLeads(map)
      /\ map.open => \A j \in Drawn : SourceFollowed(j)
  BY DEF MapInv
<1>1. map' = map /\ source' = source
  BY DEF mapVars
<1>2. CASE UNCHANGED posted
  BY <1>1, <1>2 DEF MapInv, MapTypes, PostedOk, PathKept, PathLeads, SourceFollowed, Draws, Marks, IsSequence
<1>3. CASE Post(<<r>>)
  <2> DEFINE q == posted'
             n == Len(posted)
  <2>1. IsSequence(posted) /\ posted' = posted \o <<r>>
    BY <1>0, <1>3 DEF PostedOk, Post
  <2>2. q = Append(posted, r)
    BY <2>1, PostOne
  <2>3. /\ IsSequence(q) /\ n \in Nat /\ Len(q) = n + 1
        /\ \A i \in 1 .. n : q[i] = posted[i]
        /\ q[n + 1] = r
    <3> DEFINE b == posted
    <3>1. IsSequence(b)
      BY <2>1
    <3> HIDE DEF b
    <3>2. /\ IsSequence(Append(b, r)) /\ Len(b) \in Nat /\ Len(Append(b, r)) = Len(b) + 1
          /\ \A i \in 1 .. Len(b) : Append(b, r)[i] = b[i]
          /\ Append(b, r)[Len(b) + 1] = r
      BY <3>1, SequenceAppend
    <3> QED
      BY <2>2, <3>2 DEF b
  <2>4. \A i \in 1 .. n + 1 : i \in 1 .. n \/ i = n + 1
    BY <2>3
  <2>5. PostedOk'
    BY <1>0, <1>1, <2>3, <2>4 DEF PostedOk
  <2>6. ASSUME NEW j \in Drawn, SourceFollowed(j) PROVE SourceFollowed(j)'
    <3>1. ~Draws(q[n + 1], j)
      BY <2>3 DEF Draws
    <3>2. ASSUME NEW i \in 1 .. n + 1, Draws(q[i], j), \A x \in i + 1 .. n + 1 : ~Draws(q[x], j)
          PROVE  q[i].at = source[j]
      <4>1. i \in 1 .. n
        BY <2>4, <3>1, <3>2
      <4>2. Draws(posted[i], j) /\ \A x \in i + 1 .. n : ~Draws(posted[x], j)
        BY <2>3, <3>2, <4>1
      <4> QED
        BY <2>3, <2>6, <4>1, <4>2 DEF SourceFollowed
    <3>3. ASSUME map.ready, \A x \in 1 .. n + 1 : ~Draws(q[x], j) PROVE Marks(map, j, source[j])
      <4>1. \A x \in 1 .. n : ~Draws(posted[x], j)
        BY <2>3, <3>3
      <4> QED
        BY <2>6, <3>3, <4>1 DEF SourceFollowed
    <3> QED
      BY <1>1, <2>3, <3>2, <3>3 DEF SourceFollowed, Draws, Marks
  <2>7. map'.open => \A j \in Drawn : SourceFollowed(j)'
    BY <1>0, <1>1, <2>6
  <2>8. MapTypes' /\ PathKept(map)' /\ PathLeads(map)'
    BY <1>0, <1>1 DEF MapTypes, PathKept, PathLeads
  <2> QED
    BY <2>5, <2>7, <2>8 DEF MapInv
<1> QED
  BY <1>2, <1>3

\* The runnable that was posted first runs: a position of the map that is shown is
\* drawn; the other runnables move up.
LEMMA RunStep ==
  ASSUME MapInv, UiRuns
  PROVE  MapInv'
<1>0. /\ MapTypes /\ PostedOk /\ PathKept(map) /\ PathLeads(map)
      /\ map.open => \A j \in Drawn : SourceFollowed(j)
  BY DEF MapInv
<1> DEFINE r == posted[1]
           q == posted'
           n == Len(posted)
<1>1. IsSequence(posted) /\ posted # <<>> /\ posted' = Tail(posted)
  BY <1>0 DEF PostedOk, UiRuns
<1>2. /\ Head(posted) = r /\ n \in Nat \ {0}
      /\ IsSequence(q) /\ Len(q) = n - 1
      /\ \A i \in 1 .. n - 1 : q[i] = posted[i + 1]
  <2> DEFINE b == posted
  <2>1. IsSequence(b) /\ b # <<>>
    BY <1>1
  <2> HIDE DEF b
  <2>2. /\ Head(b) = b[1] /\ Len(b) \in Nat \ {0}
        /\ IsSequence(Tail(b)) /\ Len(Tail(b)) = Len(b) - 1
        /\ \A i \in 1 .. Len(Tail(b)) : Tail(b)[i] = b[i + 1]
    BY <2>1, SequenceTail
  <2> QED
    BY <1>1, <2>2 DEF b
<1>3. \A i \in 1 .. n - 1 : i + 1 \in 1 .. n
  BY <1>2
<1>4. \A i \in 1 .. n : i = 1 \/ (i - 1 \in 1 .. n - 1 /\ i = (i - 1) + 1)
  BY <1>2
<1>5. 1 \in 1 .. n
  BY <1>2
<1>6. source' = source
  BY <1>2 DEF UiRuns, MapRuns, VideoRuns, mapVars
<1>7. CASE r.to = "map" /\ r.by = map.by
  <2> DEFINE k == r.what
             p == r.at
             m == Render(map, k, p)
  <2>1. k \in Drawn /\ p \in Positions
    BY <1>0, <1>5, <1>7 DEF PostedOk
  <2>2. map' = m
    BY <1>2, <1>7 DEF UiRuns, MapRuns
  <2>3. map \in Maps
    BY <1>0 DEF MapTypes
  <2>4. /\ m \in Maps /\ PathKept(m) /\ PathLeads(m)
        /\ m.by = map.by /\ m.open = map.open /\ m.ready = map.ready
        /\ \A j \in Drawn : j # k => m.marker[j] = map.marker[j]
        /\ map.ready => Marks(m, k, p)
    BY <1>0, <2>1, <2>3, RenderFacts
  <2> HIDE DEF m
  <2>5. MapTypes'
    BY <1>0, <1>6, <2>2, <2>4 DEF MapTypes
  <2>6. PathKept(map)' /\ PathLeads(map)'
    BY <2>2, <2>4 DEF PathKept, PathLeads
  <2>7. PostedOk'
    BY <1>0, <1>2, <1>3, <2>2, <2>4 DEF PostedOk
  <2>8. ASSUME NEW j \in Drawn, SourceFollowed(j) PROVE SourceFollowed(j)'
    <3>1. ASSUME NEW i \in 1 .. n - 1, Draws(q[i], j), \A x \in i + 1 .. n - 1 : ~Draws(q[x], j)
          PROVE  q[i].at = source[j]
      <4>1. i + 1 \in 1 .. n /\ q[i] = posted[i + 1]
        BY <1>2, <1>3
      <4>2. \A x \in (i + 1) + 1 .. n : ~Draws(posted[x], j)
        <5>1. SUFFICES ASSUME NEW x \in (i + 1) + 1 .. n PROVE ~Draws(posted[x], j)
          OBVIOUS
        <5>2. x - 1 \in i + 1 .. n - 1 /\ x - 1 \in 1 .. n - 1 /\ (x - 1) + 1 = x
          BY <1>2
        <5>3. q[x - 1] = posted[x]
          BY <1>2, <5>2
        <5> QED
          BY <3>1, <5>2, <5>3
      <4>3. Draws(posted[i + 1], j)
        BY <3>1, <4>1
      <4> QED
        BY <2>8, <4>1, <4>2, <4>3 DEF SourceFollowed
    <3>2. ASSUME map.ready, \A x \in 1 .. n - 1 : ~Draws(q[x], j) PROVE Marks(m, j, source[j])
      <4>1. \A x \in 2 .. n : ~Draws(posted[x], j)
        <5>1. SUFFICES ASSUME NEW x \in 2 .. n PROVE ~Draws(posted[x], j)
          OBVIOUS
        <5>2. x - 1 \in 1 .. n - 1 /\ (x - 1) + 1 = x
          BY <1>2
        <5>3. q[x - 1] = posted[x]
          BY <1>2, <5>2
        <5> QED
          BY <3>2, <5>2, <5>3
      <4>2. CASE j = k
        <5>1. Draws(posted[1], j)
          BY <1>7, <4>2 DEF Draws
        <5>2. \A x \in 1 + 1 .. n : ~Draws(posted[x], j)
          BY <4>1
        <5>3. p = source[j]
          BY <1>5, <2>8, <5>1, <5>2 DEF SourceFollowed
        <5> QED
          BY <2>4, <3>2, <4>2, <5>3
      <4>3. CASE j # k
        <5>1. ~Draws(posted[1], j)
          BY <4>3 DEF Draws
        <5>2. \A x \in 1 .. n : x = 1 \/ x \in 2 .. n
          BY <1>2
        <5>3. \A x \in 1 .. n : ~Draws(posted[x], j)
          BY <4>1, <5>1, <5>2
        <5>4. Marks(map, j, source[j])
          BY <2>8, <3>2, <5>3 DEF SourceFollowed
        <5> QED
          BY <2>4, <4>3, <5>4 DEF Marks
      <4> QED
        BY <4>2, <4>3
    <3>3. /\ \A i \in 1 .. Len(q) :
              q[i].to = "map" /\ q[i].by = m.by /\ q[i].what = j
              /\ (\A x \in i + 1 .. Len(q) : ~(q[x].to = "map" /\ q[x].by = m.by /\ q[x].what = j))
              => q[i].at = source[j]
          /\ m.ready /\ (\A i \in 1 .. Len(q) : ~(q[i].to = "map" /\ q[i].by = m.by /\ q[i].what = j))
             => Marks(m, j, source[j])
      BY <1>2, <2>4, <3>1, <3>2 DEF Draws
    <3> QED
      BY <1>6, <2>2, <3>3 DEF SourceFollowed, Draws, Marks
  <2>9. map'.open => \A j \in Drawn : SourceFollowed(j)'
    BY <1>0, <2>2, <2>4, <2>8
  <2> QED
    BY <2>5, <2>6, <2>7, <2>9 DEF MapInv
<1>8. CASE ~(r.to = "map" /\ r.by = map.by)
  <2>1. map' = map
    BY <1>2, <1>8 DEF UiRuns, MapRuns, VideoRuns, mapVars
  <2>2. MapTypes' /\ PathKept(map)' /\ PathLeads(map)'
    BY <1>0, <1>6, <2>1 DEF MapTypes, PathKept, PathLeads
  <2>3. PostedOk'
    BY <1>0, <1>2, <1>3, <2>1 DEF PostedOk
  <2>4. ASSUME NEW j \in Drawn, SourceFollowed(j) PROVE SourceFollowed(j)'
    <3>1. ~Draws(posted[1], j)
      BY <1>8 DEF Draws
    <3>2. ASSUME NEW i \in 1 .. n - 1, Draws(q[i], j), \A x \in i + 1 .. n - 1 : ~Draws(q[x], j)
          PROVE  q[i].at = source[j]
      <4>1. i + 1 \in 1 .. n /\ q[i] = posted[i + 1]
        BY <1>2, <1>3
      <4>2. \A x \in (i + 1) + 1 .. n : ~Draws(posted[x], j)
        <5>1. SUFFICES ASSUME NEW x \in (i + 1) + 1 .. n PROVE ~Draws(posted[x], j)
          OBVIOUS
        <5>2. x - 1 \in i + 1 .. n - 1 /\ x - 1 \in 1 .. n - 1 /\ (x - 1) + 1 = x
          BY <1>2
        <5>3. q[x - 1] = posted[x]
          BY <1>2, <5>2
        <5> QED
          BY <3>2, <5>2, <5>3
      <4>3. Draws(posted[i + 1], j)
        BY <3>2, <4>1
      <4> QED
        BY <2>4, <4>1, <4>2, <4>3 DEF SourceFollowed
    <3>3. ASSUME map.ready, \A x \in 1 .. n - 1 : ~Draws(q[x], j) PROVE Marks(map, j, source[j])
      <4>1. ASSUME NEW x \in 1 .. n PROVE ~Draws(posted[x], j)
        <5>1. CASE x = 1
          BY <3>1, <5>1
        <5>2. CASE x # 1
          <6>1. x - 1 \in 1 .. n - 1 /\ (x - 1) + 1 = x
            BY <1>2, <5>2
          <6>2. q[x - 1] = posted[x]
            BY <1>2, <6>1
          <6> QED
            BY <3>3, <6>1, <6>2
        <5> QED
          BY <5>1, <5>2
      <4> QED
        BY <2>4, <3>3, <4>1 DEF SourceFollowed
    <3> QED
      BY <1>2, <1>6, <2>1, <3>2, <3>3 DEF SourceFollowed, Draws, Marks
  <2>5. map'.open => \A j \in Drawn : SourceFollowed(j)'
    BY <1>0, <2>1, <2>4
  <2> QED
    BY <2>2, <2>3, <2>5 DEF MapInv
<1> QED
  BY <1>7, <1>8

\* The style is loaded: the map marks what the sources have.
LEMMA StyleStep ==
  ASSUME MapInv, StyleLoaded
  PROVE  MapInv'
<1>0. /\ MapTypes /\ PostedOk /\ PathKept(map) /\ PathLeads(map)
      /\ map.open => \A j \in Drawn : SourceFollowed(j)
  BY DEF MapInv
<1> DEFINE a == [map EXCEPT !.ready = TRUE]
           b == Render(a, "aircraft", source["aircraft"])
           c == Render(b, "rc", source["rc"])
           d == Render(c, "rtk", source["rtk"])
<1>1. map' = d /\ source' = source /\ posted' = posted /\ map.open /\ ~map.ready
  BY DEF StyleLoaded, Styled, RenderAll, uiVars
<1>2. /\ "aircraft" \in Drawn /\ "rc" \in Drawn /\ "rtk" \in Drawn
      /\ source["aircraft"] \in Positions /\ source["rc"] \in Positions /\ source["rtk"] \in Positions
  BY <1>0 DEF MapTypes, Drawn
<1>3. /\ a \in Maps /\ a.by = map.by /\ a.open = map.open /\ a.ready = TRUE
      /\ a.path = map.path /\ a.line = map.line /\ a.last = map.last /\ a.marker = map.marker
  BY <1>0 DEF MapTypes, Maps
<1> HIDE DEF a
<1>4. PathKept(a) /\ PathLeads(a)
  BY <1>0, <1>3 DEF PathKept, PathLeads
<1>5. /\ b \in Maps /\ PathKept(b) /\ PathLeads(b)
      /\ b.by = a.by /\ b.open = a.open /\ b.ready = a.ready
      /\ Marks(b, "aircraft", source["aircraft"])
  BY <1>2, <1>3, <1>4, RenderFacts
<1> HIDE DEF b
<1>6. /\ c \in Maps /\ PathKept(c) /\ PathLeads(c)
      /\ c.by = b.by /\ c.open = b.open /\ c.ready = b.ready
      /\ Marks(c, "rc", source["rc"])
      /\ \A j \in Drawn : j # "rc" => c.marker[j] = b.marker[j]
  <2> DEFINE p == source["rc"]
  <2>1. b \in Maps /\ PathKept(b) /\ PathLeads(b) /\ "rc" \in Drawn /\ p \in Positions /\ b.ready
    BY <1>2, <1>3, <1>5
  <2> HIDE DEF p
  <2>2. c = Render(b, "rc", p)
    BY DEF p
  <2> HIDE DEF c
  <2>3. /\ c \in Maps /\ PathKept(c) /\ PathLeads(c)
        /\ c.by = b.by /\ c.open = b.open /\ c.ready = b.ready
        /\ \A j \in Drawn : j # "rc" => c.marker[j] = b.marker[j]
    BY <2>1, <2>2, RenderFacts
  <2>4. Marks(c, "rc", p)
    BY <2>1, <2>2, RenderFacts
  <2> QED
    BY <2>3, <2>4 DEF p
<1> HIDE DEF c
<1>7. /\ d \in Maps /\ PathKept(d) /\ PathLeads(d)
      /\ d.by = c.by /\ d.open = c.open /\ d.ready = c.ready
      /\ Marks(d, "rtk", source["rtk"])
      /\ \A j \in Drawn : j # "rtk" => d.marker[j] = c.marker[j]
  <2> DEFINE p == source["rtk"]
  <2>1. c \in Maps /\ PathKept(c) /\ PathLeads(c) /\ "rtk" \in Drawn /\ p \in Positions /\ c.ready
    BY <1>2, <1>3, <1>5, <1>6
  <2> HIDE DEF p
  <2>2. d = Render(c, "rtk", p)
    BY DEF p
  <2> HIDE DEF d
  <2>3. /\ d \in Maps /\ PathKept(d) /\ PathLeads(d)
        /\ d.by = c.by /\ d.open = c.open /\ d.ready = c.ready
        /\ \A j \in Drawn : j # "rtk" => d.marker[j] = c.marker[j]
    BY <2>1, <2>2, RenderFacts
  <2>4. Marks(d, "rtk", p)
    BY <2>1, <2>2, RenderFacts
  <2> QED
    BY <2>3, <2>4 DEF p
<1> HIDE DEF d
<1>8. \A j \in Drawn : Marks(d, j, source[j])
  <2>1. \A j \in Drawn : j = "aircraft" \/ j = "rc" \/ j = "rtk"
    BY DEF Drawn
  <2>2. d.marker["aircraft"] = b.marker["aircraft"] /\ d.marker["rc"] = c.marker["rc"]
    BY <1>2, <1>6, <1>7
  <2> QED
    BY <1>5, <1>6, <1>7, <2>1, <2>2 DEF Marks
<1>9. MapTypes' /\ PathKept(map)' /\ PathLeads(map)'
  BY <1>0, <1>1, <1>7 DEF MapTypes, PathKept, PathLeads
<1>10. d.by = map.by /\ PostedOk'
  BY <1>0, <1>1, <1>3, <1>5, <1>6, <1>7 DEF PostedOk, IsSequence
<1>11. ASSUME NEW j \in Drawn PROVE SourceFollowed(j)'
  <2>1. SourceFollowed(j)
    BY <1>0, <1>1
  <2> QED
    BY <1>1, <1>8, <1>10, <2>1 DEF SourceFollowed, Draws, Marks
<1> QED
  BY <1>9, <1>10, <1>11 DEF MapInv

\* A map that is opened was told nothing yet, and one that is closed has nobody to tell;
\* a path that is cleared is not drawn.
LEMMA ScreenMapStep ==
  ASSUME MapInv, OpenMap \/ ClearPath \/ CloseMap
  PROVE  MapInv'
<1>0. /\ MapTypes /\ PostedOk /\ PathKept(map) /\ PathLeads(map)
      /\ map.open => \A j \in Drawn : SourceFollowed(j)
  BY DEF MapInv
<1>1. map \in Maps /\ source \in [Drawn -> Positions] /\ <<>> \in Seq(Places) /\ Len(<<>>) = 0
  <2>1. <<>> \in Seq(Places) /\ Len(<<>>) = 0
    OBVIOUS
  <2> QED
    BY <1>0, <2>1 DEF MapTypes
<1>2. Nowhere \in Positions /\ Blank \in [Drawn -> Positions]
  BY DEF Positions, Blank
<1>3. CASE OpenMap
  <2> DEFINE m == [by |-> map.by + 1, open |-> TRUE, ready |-> FALSE, marker |-> Blank,
                   path |-> <<>>, last |-> Nowhere, line |-> <<>>]
  <2>1. map' = m /\ source' = source /\ posted' = posted
    BY <1>3 DEF OpenMap
  <2>2. map.by \in Nat /\ map.by + 1 \in Nat
    BY <1>1 DEF Maps
  <2>3. /\ m \in Maps /\ m.by = map.by + 1 /\ m.ready = FALSE
        /\ m.path = <<>> /\ m.line = <<>>
    BY <1>1, <1>2, <2>2 DEF Maps
  <2> HIDE DEF m
  <2>4. PathKept(m) /\ PathLeads(m)
    BY <1>1, <2>3 DEF PathKept, PathLeads
  <2>5. MapTypes' /\ PathKept(map)' /\ PathLeads(map)'
    BY <1>1, <2>1, <2>3, <2>4 DEF MapTypes, PathKept, PathLeads
  <2>6. PostedOk'
    BY <1>0, <2>1, <2>2, <2>3 DEF PostedOk, IsSequence
  <2>7. \A i \in 1 .. Len(posted) : ~(posted[i].to = "map" /\ posted[i].by = m.by)
    BY <1>0, <2>2, <2>3 DEF PostedOk
  <2>8. \A j \in Drawn : SourceFollowed(j)'
    BY <2>1, <2>3, <2>7 DEF SourceFollowed, Draws
  <2> QED
    BY <2>5, <2>6, <2>8 DEF MapInv
<1>4. CASE ClearPath
  <2> DEFINE a == [map EXCEPT !.path = <<>>, !.last = Nowhere]
             m == Redraw(a)
  <2>1. map' = m /\ source' = source /\ posted' = posted /\ map.open
    BY <1>4 DEF ClearPath
  <2>2. /\ a \in Maps /\ a.path = <<>> /\ a.line = map.line /\ a.by = map.by /\ a.ready = map.ready
        /\ a.open = map.open /\ a.marker = map.marker
    BY <1>1, <1>2 DEF Maps
  <2> HIDE DEF a
  <2>3. /\ m \in Maps /\ m.path = <<>> /\ m.by = map.by /\ m.ready = map.ready
        /\ m.open = map.open /\ m.marker = map.marker
        /\ m.line = <<>>
    <3>1. CASE ~map.ready
      <4>1. map.path = <<>> /\ map.line = <<>>
        BY <1>0, <1>1, <3>1 DEF PathKept
      <4> QED
        BY <2>2, <3>1, <4>1 DEF Redraw
    <3>2. CASE map.ready
      <4>1. m = [a EXCEPT !.line = <<>>]
        BY <1>1, <2>2, <3>2 DEF Redraw
      <4> QED
        BY <1>1, <2>2, <4>1 DEF Maps
    <3> QED
      BY <3>1, <3>2
  <2> HIDE DEF m
  <2>4. PathKept(m) /\ PathLeads(m)
    BY <1>1, <2>3 DEF PathKept, PathLeads
  <2>5. MapTypes' /\ PathKept(map)' /\ PathLeads(map)'
    BY <1>1, <2>1, <2>3, <2>4 DEF MapTypes, PathKept, PathLeads
  <2>6. PostedOk'
    BY <1>0, <2>1, <2>3 DEF PostedOk, IsSequence
  <2>7. \A j \in Drawn : SourceFollowed(j)'
    BY <1>0, <2>1, <2>3 DEF SourceFollowed, Draws, Marks
  <2> QED
    BY <2>5, <2>6, <2>7 DEF MapInv
<1>5. CASE CloseMap
  <2>1. map' = [map EXCEPT !.open = FALSE] /\ source' = source /\ posted' = posted
    BY <1>5 DEF CloseMap, uiVars
  <2>2. /\ map' \in Maps /\ map'.by = map.by /\ map'.open = FALSE /\ map'.ready = map.ready
        /\ map'.path = map.path /\ map'.line = map.line /\ map'.last = map.last /\ map'.marker = map.marker
    BY <1>1, <2>1 DEF Maps
  <2>3. MapTypes' /\ PathKept(map)' /\ PathLeads(map)' /\ PostedOk'
    BY <1>0, <1>1, <2>1, <2>2 DEF MapTypes, PathKept, PathLeads, PostedOk, IsSequence
  <2> QED
    BY <2>2, <2>3 DEF MapInv
<1> QED
  BY <1>3, <1>4, <1>5

\* Whatever leaves the map, its sources and the queue alone keeps the invariant.
LEMMA MapStays ==
  ASSUME MapInv, UNCHANGED <<mapVars, posted>>
  PROVE  MapInv'
<1>1. map' = map /\ source' = source /\ posted' = posted
  BY DEF mapVars
<1>2. MapTypes' /\ PostedOk' /\ PathKept(map)' /\ PathLeads(map)'
  BY <1>1 DEF MapInv, MapTypes, PostedOk, PathKept, PathLeads, IsSequence
<1>3. ASSUME map.open, NEW j \in Drawn PROVE SourceFollowed(j)'
  BY <1>1, <1>3 DEF MapInv, SourceFollowed, Draws, Marks
<1> QED
  BY <1>1, <1>2, <1>3 DEF MapInv

\* The other parts of the app post nothing to the UI thread.
LEMMA OthersPostNothing ==
  ASSUME MediaStep \/ GimbalStep \/ WaylineStep \/ KeysStep
  PROVE  UNCHANGED posted
<1>1. ASSUME MediaStep PROVE UNCHANGED posted
  BY <1>1 DEF MediaStep, OpenScreen, Refresh, Enabled, EnableFailed, Listed, CloseScreen, Download,
              Received, Finished, Failed, Dropped
<1>2. ASSUME GimbalStep PROVE UNCHANGED posted
  BY <1>2 DEF GimbalStep, StartGimbal, Nudge, CarriedOut, Answered, StopDue, StopGimbal, uiVars
<1>3. ASSUME WaylineStep PROVE UNCHANGED posted
  BY <1>3 DEF WaylineStep, Import, Upload, UploadProgress, Uploaded, ClearSelection, uiVars
<1>4. ASSUME KeysStep PROVE UNCHANGED posted
  BY <1>4 DEF KeysStep, Callback, Initialize, RuntimeReady, LookAtProduct, ProductHandled, ThreadStep,
              UpdateWrites, HandlerFails, Refreshed, Looked, Observed, RefreshEnds, Probed, ValueHeard, uiVars
<1> QED
  BY <1>1, <1>2, <1>3, <1>4

\* The screens keep the invariant of the map.
LEMMA ScreensKeep ==
  ASSUME MapInv, ScreensStep
  PROVE  MapInv'
<1>1. ASSUME UNCHANGED <<mapVars, posted>> PROVE MapInv'
  BY <1>1, MapStays
<1>2. ASSUME NEW c \in SUBSET Cameras, SensorsChange(c) PROVE MapInv'
  <2> DEFINE r == [to |-> "video", by |-> video.by, what |-> "sensors", cameras |-> c]
  <2>1. UNCHANGED mapVars /\ (Post(<<r>>) \/ UNCHANGED posted)
    BY <1>2 DEF SensorsChange, TellVideo
  <2>2. r.to = "video"
    OBVIOUS
  <2> HIDE DEF r
  <2> QED
    BY <2>1, <2>2, OtherPosted
<1>3. ASSUME NEW by \in settings, SourceSet(by) PROVE MapInv'
  <2> DEFINE r == [to |-> "video", by |-> by, what |-> "applied"]
  <2>1. UNCHANGED mapVars /\ (Post(<<r>>) \/ UNCHANGED posted)
    BY <1>3 DEF SourceSet
  <2>2. r.to = "video"
    OBVIOUS
  <2> HIDE DEF r
  <2> QED
    BY <2>1, <2>2, OtherPosted
<1>4. ASSUME NEW c \in Cameras, SelectCamera(c) PROVE MapInv'
  BY <1>1, <1>4 DEF SelectCamera
<1>5. ASSUME NEW s \in alive, SurfaceGone(s) PROVE MapInv'
  BY <1>1, <1>5 DEF SurfaceGone, uiVars
<1>6. CASE OpenVideo \/ Apply
  BY <1>1, <1>6 DEF OpenVideo, Apply
<1>7. CASE SurfaceCreated \/ SurfaceChanged \/ SurfaceDestroyed \/ Fit \/ CloseVideo
  BY <1>1, <1>7 DEF SurfaceCreated, SurfaceChanged, SurfaceDestroyed, Fit, CloseVideo, uiVars
<1> QED
  BY <1>2, <1>3, <1>4, <1>5, <1>6, <1>7, MovedStep, RunStep, StyleStep, ScreenMapStep DEF ScreensStep

\* A loaded map marks what the sources have once everything posted has run, for any
\* places and length of the flight path, however often it is opened.
THEOREM MapIsCurrent == Spec => []MapCatchesUp
<1>1. Init => MapInv
  <2>1. SUFFICES ASSUME Init PROVE MapInv
    OBVIOUS
  <2>2. /\ source = Blank /\ posted = <<>>
        /\ map = [by |-> 0, open |-> FALSE, ready |-> FALSE, marker |-> Blank,
                  path |-> <<>>, last |-> Nowhere, line |-> <<>>]
    BY <2>1 DEF Init, RcInit, ScreensInit, UiInit
  <2>3. <<>> \in Seq(Places) /\ Len(<<>>) = 0
    OBVIOUS
  <2>4. Nowhere \in Positions /\ Blank \in [Drawn -> Positions]
    BY DEF Positions, Blank
  <2>5. map \in Maps /\ map.open = FALSE /\ map.path = <<>> /\ map.line = <<>>
    BY <2>2, <2>3, <2>4 DEF Maps
  <2>6. MapTypes
    BY <2>2, <2>4, <2>5 DEF MapTypes
  <2>7. PostedOk
    BY <2>2, <2>3, DownFacts DEF PostedOk
  <2>8. PathKept(map) /\ PathLeads(map)
    BY <2>3, <2>5 DEF PathKept, PathLeads
  <2> QED
    BY <2>5, <2>6, <2>7, <2>8 DEF MapInv
<1>2. MapInv /\ [Next]_vars => MapInv'
  <2>1. [Next]_vars => ScreensStep \/ UNCHANGED <<mapVars, posted>>
    <3>1. SUFFICES ASSUME [Next]_vars PROVE ScreensStep \/ UNCHANGED <<mapVars, posted>>
      OBVIOUS
    <3>2. CASE RcStep
      <4>1. ScreensStep \/ ((MediaStep \/ GimbalStep \/ WaylineStep \/ KeysStep) /\ UNCHANGED screenVars)
        BY <3>2 DEF RcStep
      <4> QED
        BY <4>1, OthersPostNothing DEF screenVars
    <3>3. CASE UNCHANGED rcVars
      BY <3>3 DEF rcVars, screenVars
    <3>4. CASE UNCHANGED vars
      BY <3>4 DEF vars, rcVars, screenVars
    <3> QED
      BY <3>1, <3>2, <3>3, <3>4 DEF Next
  <2>2. MapInv /\ UNCHANGED <<mapVars, posted>> => MapInv'
    BY MapStays
  <2> QED
    BY <2>1, <2>2, ScreensKeep
<1>3. MapInv => MapCatchesUp
  <2>1. SUFFICES ASSUME MapInv PROVE MapCatchesUp
    OBVIOUS
  <2>2. /\ MapTypes /\ PathKept(map) /\ PathLeads(map)
        /\ map.open => \A j \in Drawn : SourceFollowed(j)
    BY <2>1 DEF MapInv
  <2>3. map.path # <<>> => Last(map.path) = map.marker["aircraft"] /\ map.last = Last(map.path)
    BY <2>2 DEF PathKept, PathLeads, Last
  <2>4. ASSUME map.open, map.ready, Unheard("map", map.by), NEW k \in Drawn
        PROVE  map.marker[k] = source[k] \/ (k = "aircraft" /\ source[k] = Nowhere)
    <3>1. \A i \in 1 .. Len(posted) : ~Draws(posted[i], k)
      BY <2>4 DEF Unheard, Draws
    <3> QED
      BY <2>2, <2>4, <3>1 DEF SourceFollowed, Marks
  <2> QED
    BY <2>2, <2>3, <2>4 DEF MapCatchesUp, PathKept
<1> QED
  BY <1>1, <1>2, <1>3, PTL DEF Spec

===============================================================================
