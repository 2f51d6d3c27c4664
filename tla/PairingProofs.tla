----------------------------- MODULE PairingProofs -----------------------------
(***************************************************************************)
(* Proofs about Pairing, for any aircraft, any number of tokens, any time  *)
(* to live and any budget of faults: an unpairing the backend has          *)
(* confirmed is final, a revoked token leaves nothing behind, and the RC   *)
(* reports "disconnected" only for a token the backend refuses.            *)
(*                                                                         *)
(* None of them is inductive.  A token is refused because it is in memory, *)
(* and it is in memory after a restart because it is in the table: the     *)
(* invariant says of every token ever refused which of the two holds when  *)
(* (Refused), and that a row is written before anything relies on it.  On  *)
(* the RC's side it relates the answer that has come back to the call it   *)
(* answers, by the identifier the call was sent with.                      *)
(***************************************************************************)
EXTENDS Pairing, TLAPS

TokensOrNone == 0 .. MaxTokens
UnpairCalls == [id: CallIds, token: Tokens, stored: BOOLEAN]

LinkTypeOK ==
  /\ now \in 0 .. MaxTime
  /\ exp \in [Tokens -> Nat]
  /\ owner \in [Tokens -> Aircraft \cup {NoSn}]
  /\ net \subseteq Calls
  /\ unpairs \subseteq UnpairCalls
  /\ waiting \in CallIds \cup {0}
  /\ reply \in Replies
  /\ left \in [{"tasks", "backend", "app", "links", "late", "time"} -> Nat]

ServerTypeOK ==
  /\ running \in BOOLEAN
  /\ agents \in [Aircraft -> TokensOrNone]
  /\ revoked \subseteq Tokens
  /\ table \subseteq Tokens
  /\ peer \in TokensOrNone
  /\ unpaired \subseteq Tokens

AgentTypeOK ==
  /\ status \in Statuses
  /\ agentToken \in TokensOrNone
  /\ stored \in TokensOrNone
  /\ secureStore \in TokensOrNone
  /\ task \in {"none", "pair", "unpair", "heartbeat"}
  /\ heartbeats \in BOOLEAN
  /\ resuming \in TokensOrNone
  /\ channel \in TokensOrNone
  /\ links \subseteq Links
  /\ serial \in Aircraft \cup {NoSn}
  /\ ready \in BOOLEAN

Serials == Aircraft \cup {NoSn}
Places == {"posted", "hydrate", "components", "start", "started", "idle", "connect", "connected",
           "disconnect", "disconnected", "aircraft", "fail"}
Positions == [at: Places, on: BOOLEAN, ready: BOOLEAN, serial: Serials]

\* The RC's threads: what each has read, and what it will write.
ThreadTypeOK ==
  /\ glance \in [Threads -> TokensOrNone]
  /\ threads \in [Threads -> Positions]

\* The type invariant
TypeOK == LinkTypeOK /\ ServerTypeOK /\ AgentTypeOK /\ ThreadTypeOK

-----------------------------------------------------------------------------
(* The inductive invariant *)

\* Whatever handles a token handles one that has been signed, and a token was
\* signed for an aircraft.
SignedServer ==
  /\ \A t \in Issued : owner[t] \in Aircraft
  /\ \A a \in Aircraft : agents[a] # 0 => agents[a] \in Issued /\ owner[agents[a]] = a
  /\ peer # 0 => peer \in Issued
  /\ revoked \subseteq Issued
  /\ table \subseteq Issued
  /\ unpaired \subseteq Issued
  /\ \A u \in unpairs : u.token \in Issued

SignedAgent ==
  \A t \in {agentToken, stored, secureStore, resuming, glance["main"], glance["msdk"]} :
    t # 0 => t \in Issued

\* A process that is down has no memory.
DownIsEmpty ==
  ~running => unpairs = {} /\ revoked = {} /\ peer = 0 /\ \A a \in Aircraft : agents[a] = 0

\* The token is dead for good: expired, or in the table and, while the backend is
\* up, in its memory.
Refused(t) == Expired(t) \/ (t \in table /\ (running => t \in revoked))

\* What has been revoked or confirmed is refused for good, and a handler that has
\* written its row finds it there.
RevocationsLast ==
  /\ \A t \in revoked \cup unpaired : Refused(t)
  /\ \A u \in unpairs : u.stored => u.token \in table

\* The call the RC waits for is of the kind its task says.  While it is an
\* unpairing the token it carries is the one the RC would present, unless the
\* stored pairing has expired meanwhile.
Carries(t) == task = "unpair" /\ (Presented # 0 => t = Presented)

CallsMatch ==
  /\ (waiting = 0) <=> (task = "none")
  /\ task = "unpair" => status # "disconnected"
  /\ \A c \in net : c.id = waiting => c.kind = task /\ (task = "unpair" => Carries(c.token))
  /\ \A u \in unpairs : u.id = waiting => Carries(u.token)

\* The answer to an unpairing means what it says.
AnswersHold ==
  task = "unpair" /\ reply \in Settled /\ Presented # 0 => Refused(Presented)

\* The backend's part of the invariant and the RC's.
ServerInv == SignedServer /\ DownIsEmpty /\ RevocationsLast /\ RevokedLeavesNothing
AgentInv  == SignedAgent /\ CallsMatch /\ AnswersHold

IInv == TypeOK /\ ServerInv /\ AgentInv

-----------------------------------------------------------------------------

\* Tokens are numbers, and none of them is 0.
LEMMA Numbers ==
  /\ Tokens \subseteq Nat /\ 0 \notin Tokens /\ TokensOrNone = Tokens \cup {0}
  /\ CallIds \subseteq Nat /\ 0 \notin CallIds
BY LinkAssumption DEF Tokens, TokensOrNone

\* The initial states satisfy the invariant.
LEMMA InitHolds == Init => IInv
<1> SUFFICES ASSUME Init PROVE IInv
  OBVIOUS
<1> USE LinkAssumption DEF Init, LinkInit, ServerInit, AgentInit, Tokens, TokensOrNone
<1>1. LinkTypeOK
  BY DEF LinkTypeOK, Replies
<1>2. ServerTypeOK
  BY DEF ServerTypeOK
<1>3. AgentTypeOK
  <2>1. status \in Statuses /\ task \in {"none", "pair", "unpair", "heartbeat"}
    BY DEF Statuses
  <2>2. 0 \in TokensOrNone
    OBVIOUS
  <2> QED  BY <2>1, <2>2 DEF AgentTypeOK
<1>4. ServerInv
  BY DEF ServerInv, SignedServer, DownIsEmpty, RevocationsLast, RevokedLeavesNothing, Issued
<1>5. AgentInv
  BY DEF AgentInv, SignedAgent, CallsMatch, AnswersHold, Threads
<1>6. ThreadTypeOK
  BY DEF ThreadTypeOK, Positions, Places, Serials, Free
<1> QED  BY <1>1, <1>2, <1>3, <1>4, <1>5, <1>6 DEF IInv, TypeOK

-----------------------------------------------------------------------------
(* What the steps of one side leave of the other *)

\* A step of the RC leaves the backend and the tokens alone.
LEMMA ServerUntouched ==
  ASSUME ServerInv, UNCHANGED <<now, exp, owner, unpairs, serverVars>>
  PROVE  ServerInv'
BY DEF ServerInv, SignedServer, DownIsEmpty, RevocationsLast, RevokedLeavesNothing, Refused, Issued,
       Expired, serverVars

\* A token that has been signed stays so, with its aircraft and its expiry.
SignedStay ==
  /\ Issued \subseteq Issued'
  /\ \A t \in Issued : exp'[t] = exp[t] /\ owner'[t] = owner[t]

\* What is refused stays so, whatever the backend does.
RefusalsStay == \A t \in Issued : Refused(t) => Refused(t)'

\* An answer the backend gives to an unpairing is one it means.
HonestAnswer ==
  reply' = reply \/ (task = "unpair" /\ reply' \in Settled /\ Presented # 0 => Refused(Presented)')

\* A step of the backend that makes no call and lets what is refused be refused keeps
\* the RC's part.
LEMMA AgentUntouched ==
  ASSUME AgentInv, SignedStay, RefusalsStay, HonestAnswer,
         UNCHANGED <<agentVars, waiting>>,
         net' \subseteq net,
         \A u \in unpairs' : u.id = waiting => Carries(u.token)
  PROVE  AgentInv'
<1> USE DEF agentVars, pairingVars, workVars, sourceVars
<1>1. SignedAgent'
  BY DEF AgentInv, SignedAgent, SignedStay
<1>2. CallsMatch'
  BY DEF AgentInv, CallsMatch, Carries, Presented
<1>3. AnswersHold'
  <2> SUFFICES ASSUME task' = "unpair", reply' \in Settled, Presented' # 0  PROVE Refused(Presented)'
    BY DEF AnswersHold, Settled
  <2>1. Presented' = Presented /\ Presented \in Issued
    BY DEF AgentInv, SignedAgent, Presented
  <2>2. CASE reply' = reply
    BY <2>1, <2>2 DEF AgentInv, AnswersHold, RefusalsStay, Refused, Expired
  <2>3. CASE Refused(Presented)'
    BY <2>3
  <2> QED  BY <2>1, <2>2, <2>3 DEF HonestAnswer
<1> QED  BY <1>1, <1>2, <1>3 DEF AgentInv

-----------------------------------------------------------------------------
(* Type correctness *)

Faults == {"tasks", "backend", "app", "links", "late", "time"}

\* A budget that is spent stays a budget.
LEMMA SpendIsTyped ==
  ASSUME TypeOK, NEW k \in Faults, Spend(k)
  PROVE  left' \in [Faults -> Nat]
BY DEF TypeOK, LinkTypeOK, Spend, Faults

\* What the RC reads of its sources is a snapshot.
LEMMA SnapshotsAreTyped == TypeOK => Snapshot \in Snapshots /\ NoSnapshot \in Snapshots
BY LinkAssumption DEF TypeOK, LinkTypeOK, AgentTypeOK, Snapshot, NoSnapshot, Snapshots

\* A call that is posted is one of the calls; the RC waits for it, and nothing that is
\* under way has its identifier.
LEMMA PostIsTyped ==
  ASSUME TypeOK, NEW k \in {"pair", "heartbeat", "unpair"}, NEW t \in TokensOrNone,
         NEW s \in Snapshots, Post(k, t, s)
  PROVE  /\ net' \subseteq Calls
         /\ waiting' \in CallIds
         /\ reply' = "none"
         /\ \A c \in net' : c.id = waiting' => c.kind = k /\ c.token = t
         /\ \A u \in unpairs : u.id # waiting'
<1>1. PICK id \in CallIds \ InUse :
        /\ net' = net \cup {[id |-> id, kind |-> k, token |-> t, body |-> s]}
        /\ waiting' = id
        /\ reply' = "none"
  BY DEF Post
<1>2. [id |-> id, kind |-> k, token |-> t, body |-> s] \in Calls
  BY DEF Calls, TokensOrNone
<1>3. \A c \in net \cup unpairs : c.id # id
  BY <1>1 DEF InUse
<1> QED  BY <1>1, <1>2, <1>3 DEF TypeOK, LinkTypeOK

\* The backend's answers are replies.
LEMMA AnswerIsTyped ==
  ASSUME TypeOK, NEW id, NEW s \in Replies, Answer(id, s)
  PROVE  reply' \in Replies
BY DEF TypeOK, LinkTypeOK, Answer

\* The handlers of the backend keep the types.
LEMMA HandleIsTyped ==
  ASSUME TypeOK, NEW c, Handle(c), UNCHANGED agentVars
  PROVE  TypeOK'
<1>0. c \in Calls /\ c.id \in CallIds /\ c.token \in TokensOrNone /\ c.body.sn \in Aircraft \cup {NoSn}
  BY DEF TypeOK, LinkTypeOK, Handle, Calls, Snapshots, TokensOrNone
<1>1. AgentTypeOK' /\ ThreadTypeOK'
  BY DEF TypeOK, AgentTypeOK, ThreadTypeOK, agentVars, pairingVars, workVars, sourceVars
<1>2. /\ net' \subseteq Calls /\ now' \in 0 .. MaxTime /\ waiting' \in CallIds \cup {0}
      /\ left' \in [Faults -> Nat] /\ running' \in BOOLEAN /\ table' \subseteq Tokens
  BY DEF Handle, TypeOK, LinkTypeOK, ServerTypeOK, Faults
<1>3. CASE Pair(c)
  <2>1. /\ unpairs' \subseteq UnpairCalls /\ peer' \in TokensOrNone
        /\ revoked' \subseteq Tokens /\ unpaired' \subseteq Tokens
    BY <1>3 DEF Pair, TypeOK, LinkTypeOK, ServerTypeOK
  <2>2. reply' \in Replies
    BY <1>3, AnswerIsTyped DEF Pair, Replies
  <2>3. exp' \in [Tokens -> Nat] /\ owner' \in [Tokens -> Aircraft \cup {NoSn}] /\ agents' \in [Aircraft -> TokensOrNone]
    <3>1. CASE WellFormed(c.body) /\ Identifies(c.body)
      <4>1. PICK t \in Tokens \ Issued :
              /\ exp' = [exp EXCEPT ![t] = now + Ttl]
              /\ owner' = [owner EXCEPT ![t] = c.body.sn]
              /\ agents' = [agents EXCEPT ![c.body.sn] = t]
        BY <1>3, <3>1 DEF Pair
      <4>2. now + Ttl \in Nat /\ t \in TokensOrNone
        BY LinkAssumption, Numbers DEF TypeOK, LinkTypeOK
      <4> QED  BY <1>0, <4>1, <4>2 DEF TypeOK, LinkTypeOK, ServerTypeOK
    <3>2. CASE ~(WellFormed(c.body) /\ Identifies(c.body))
      BY <1>3, <3>2 DEF Pair, TypeOK, LinkTypeOK, ServerTypeOK
    <3> QED  BY <3>1, <3>2
  <2> QED  BY <1>1, <1>2, <2>1, <2>2, <2>3 DEF TypeOK, LinkTypeOK, ServerTypeOK, Faults
<1>4. CASE Heartbeat(c)
  <2>1. reply' \in Replies
    BY <1>4, AnswerIsTyped DEF Heartbeat, Replies
  <2>2. agents' \in [Aircraft -> TokensOrNone]
    BY <1>0, <1>4 DEF Heartbeat, TypeOK, ServerTypeOK
  <2> QED  BY <1>1, <1>2, <1>4, <2>1, <2>2 DEF Heartbeat, TypeOK, LinkTypeOK, ServerTypeOK, Faults
<1>5. CASE Unpair(c)
  <2>1. reply' \in Replies
    BY <1>5, AnswerIsTyped DEF Unpair, Replies, TypeOK, LinkTypeOK
  <2>2. unpairs' \subseteq UnpairCalls
    <3>1. Accepts(c.token) => [id |-> c.id, token |-> c.token, stored |-> FALSE] \in UnpairCalls
      BY <1>0 DEF UnpairCalls, Accepts, Issued
    <3> QED  BY <1>5, <3>1 DEF Unpair, TypeOK, LinkTypeOK
  <2> QED  BY <1>1, <1>2, <1>5, <2>1, <2>2 DEF Unpair, TypeOK, LinkTypeOK, ServerTypeOK, Faults
<1> QED  BY <1>3, <1>4, <1>5 DEF Handle

\* The other steps of the backend keep the types.
LEMMA ServerIsTyped ==
  ASSUME TypeOK, ServerStep
  PROVE  TypeOK'
<1>1. AgentTypeOK' /\ ThreadTypeOK'
  BY DEF ServerStep, TypeOK, AgentTypeOK, ThreadTypeOK, agentVars, pairingVars, workVars, sourceVars
<1>2. CASE \E c \in net : Handle(c)
  BY <1>2, HandleIsTyped DEF ServerStep
<1>3. ASSUME NEW u \in unpairs, Insert(u)  PROVE TypeOK'
  <2>1. u.token \in Tokens /\ [u EXCEPT !.stored = TRUE] \in UnpairCalls
    BY DEF TypeOK, LinkTypeOK, UnpairCalls
  <2>2. unpairs' \subseteq UnpairCalls /\ table' \subseteq Tokens
    BY <1>3, <2>1 DEF Insert, Store, TypeOK, LinkTypeOK, ServerTypeOK
  <2> QED  BY <1>1, <1>3, <2>2 DEF Insert, TypeOK, LinkTypeOK, ServerTypeOK
<1>4. ASSUME NEW u \in unpairs, InsertFails(u)  PROVE TypeOK'
  <2>1. reply' \in Replies
    BY <1>4, AnswerIsTyped DEF InsertFails, Replies
  <2>2. left' \in [Faults -> Nat]
    BY <1>4, SpendIsTyped DEF InsertFails, Faults
  <2> QED  BY <1>1, <1>4, <2>1, <2>2 DEF InsertFails, TypeOK, LinkTypeOK, ServerTypeOK, Faults
<1>5. ASSUME NEW u \in unpairs, Revoke(u)  PROVE TypeOK'
  <2>1. reply' \in Replies
    BY <1>5, AnswerIsTyped DEF Revoke, Replies
  <2>2. u.token \in Tokens
    BY DEF TypeOK, LinkTypeOK, UnpairCalls
  <2>3. agents' \in [Aircraft -> TokensOrNone] /\ peer' \in TokensOrNone
    BY <1>5, Numbers DEF Revoke, Forget, TypeOK, ServerTypeOK
  <2> QED  BY <1>1, <1>5, <2>1, <2>2, <2>3 DEF Revoke, TypeOK, LinkTypeOK, ServerTypeOK
<1>6. CASE Crash
  <2>1. left' \in [Faults -> Nat]
    BY <1>6, SpendIsTyped DEF Crash, Faults
  <2> QED  BY <1>1, <1>6, <2>1, Numbers DEF Crash, TypeOK, LinkTypeOK, ServerTypeOK, Faults
<1>7. CASE Start
  BY <1>1, <1>7 DEF Start, Loaded, linkVars, TypeOK, LinkTypeOK, ServerTypeOK
<1>8. CASE ExpirePeer
  BY <1>1, <1>8, Numbers DEF ExpirePeer, linkVars, TypeOK, LinkTypeOK, ServerTypeOK
<1> QED  BY <1>2, <1>3, <1>4, <1>5, <1>6, <1>7, <1>8 DEF ServerStep

-----------------------------------------------------------------------------
(* The RC's steps *)

\* What a step of the RC changes on the link, and what it may not.
LinkKept ==
  /\ net' \subseteq Calls
  /\ waiting' \in CallIds \cup {0}
  /\ reply' \in Replies
  /\ left' \in [Faults -> Nat]
  /\ UNCHANGED <<now, exp, owner, unpairs, serverVars>>

\* It is enough that a step of the RC keeps the types and its own part.
LEMMA AgentKeeps ==
  ASSUME IInv, LinkKept, AgentTypeOK', ThreadTypeOK', AgentInv'
  PROVE  IInv'
<1>1. ServerInv'
  BY ServerUntouched DEF IInv, LinkKept
<1>2. LinkTypeOK' /\ ServerTypeOK'
  BY DEF IInv, TypeOK, LinkTypeOK, ServerTypeOK, LinkKept, serverVars, Faults
<1> QED  BY <1>1, <1>2 DEF IInv, TypeOK

\* While the RC waits for nothing there is nothing to match.
LEMMA NothingToMatch ==
  ASSUME TypeOK, LinkKept, task' = "none", waiting' = 0
  PROVE  CallsMatch' /\ AnswersHold'
<1>1. \A c \in net' : c.id # 0
  BY LinkAssumption DEF LinkKept, Calls
<1>2. \A u \in unpairs' : u.id # 0
  BY LinkAssumption DEF TypeOK, LinkTypeOK, LinkKept, UnpairCalls
<1> QED  BY <1>1, <1>2 DEF CallsMatch, AnswersHold

\* What the RC learns while it waits changes the token it would present only to none.
LEMMA WaitingMatches ==
  ASSUME IInv, UNCHANGED <<task, waiting, reply, net, unpairs, agentToken, now, exp, serverVars>>,
         stored' \in {stored, 0}, status' = status \/ status' # "disconnected"
  PROVE  CallsMatch' /\ AnswersHold'
<1>1. Presented' \in {Presented, 0} \/ Presented' = Presented
  BY DEF Presented
<1>2. CallsMatch'
  BY <1>1 DEF IInv, AgentInv, CallsMatch, Carries
<1>3. AnswersHold'
  BY <1>1 DEF IInv, AgentInv, AnswersHold, Refused, Expired, serverVars, Settled
<1> QED  BY <1>2, <1>3

\* A call that has just been posted is matched by nothing but itself.
LEMMA PostMatches ==
  ASSUME TypeOK, NEW k \in {"pair", "heartbeat", "unpair"}, NEW t \in TokensOrNone,
         NEW s \in Snapshots, Post(k, t, s), task' = k, UNCHANGED unpairs,
         k = "unpair" => t = Presented' /\ status' # "disconnected"
  PROVE  CallsMatch' /\ AnswersHold'
<1>1. /\ waiting' # 0 /\ reply' = "none"
      /\ \A c \in net' : c.id = waiting' => c.kind = k /\ c.token = t
      /\ \A u \in unpairs' : u.id # waiting'
  BY PostIsTyped, Numbers
<1>2. k # "none" /\ "none" \notin Settled
  BY DEF Settled
<1> QED  BY <1>1, <1>2 DEF CallsMatch, AnswersHold, Carries, Settled

\* The tokens of the RC: none is new, or the new one is among those signed.
LEMMA StillSigned ==
  ASSUME IInv, UNCHANGED exp,
         {agentToken', stored', secureStore', resuming', glance'["main"], glance'["msdk"]}
           \subseteq {agentToken, stored, secureStore, resuming, glance["main"], glance["msdk"], 0} \cup Issued
  PROVE  SignedAgent'
BY DEF IInv, AgentInv, SignedAgent, Issued

\* The steps that may send a call
LEMMA StartPairKeeps ==
  ASSUME IInv, StartPair, UNCHANGED serverVars
  PROVE  IInv'
<1>1. TypeOK
  BY DEF IInv
<1>2. Snapshot \in Snapshots /\ 0 \in TokensOrNone /\ (Idle <=> waiting = 0)
  BY <1>1, SnapshotsAreTyped, Numbers DEF IInv, AgentInv, CallsMatch, Idle
<1>3. left' \in [Faults -> Nat]
  BY <1>1, SpendIsTyped DEF StartPair, Faults
<1>4. LinkKept
  <2>1. net' \subseteq Calls /\ waiting' \in CallIds \cup {0} /\ reply' \in Replies
    BY <1>1, <1>2, PostIsTyped DEF StartPair, Replies, TypeOK, LinkTypeOK
  <2> QED  BY <1>3, <2>1 DEF LinkKept, StartPair
<1>5. AgentTypeOK'
  BY <1>1, <1>2 DEF StartPair, sourceVars, TypeOK, AgentTypeOK, Statuses, Idle
<1>6. CallsMatch' /\ AnswersHold'
  <2>1. CASE Post("pair", 0, Snapshot) /\ task' = "pair"
    BY <1>1, <1>2, <2>1, PostMatches DEF StartPair
  <2>2. CASE UNCHANGED <<net, waiting, reply, task>>
    BY <1>1, <1>2, <1>4, <2>2, NothingToMatch DEF StartPair, Idle
  <2> QED  BY <2>1, <2>2 DEF StartPair
<1>7. SignedAgent'
  BY StillSigned DEF StartPair
<1>8. ThreadTypeOK'
  BY <1>1 DEF StartPair, sourceVars, TypeOK, ThreadTypeOK
<1> QED  BY <1>4, <1>5, <1>6, <1>7, <1>8, AgentKeeps DEF AgentInv

\* Unpairing begins on the agent.
LEMMA StartUnpairKeeps ==
  ASSUME IInv, StartUnpair, UNCHANGED serverVars
  PROVE  IInv'
<1>1. TypeOK
  BY DEF IInv
<1>2. NoSnapshot \in Snapshots /\ Presented \in TokensOrNone /\ 0 \in TokensOrNone /\ (Idle <=> waiting = 0)
  BY <1>1, SnapshotsAreTyped, Numbers DEF IInv, AgentInv, CallsMatch, Idle, Presented, TypeOK, AgentTypeOK
<1>3. left' \in [Faults -> Nat]
  BY <1>1, SpendIsTyped DEF StartUnpair, Faults
<1>4. LinkKept
  <2>1. net' \subseteq Calls /\ waiting' \in CallIds \cup {0} /\ reply' \in Replies
    BY <1>1, <1>2, PostIsTyped DEF StartUnpair, Replies, TypeOK, LinkTypeOK
  <2> QED  BY <1>3, <2>1 DEF LinkKept, StartUnpair
<1>5. AgentTypeOK'
  BY <1>1, <1>2 DEF StartUnpair, ClearPairing, sourceVars, TypeOK, AgentTypeOK, Statuses, Idle
<1>6. CallsMatch' /\ AnswersHold'
  <2>1. CASE Presented # 0
    <3>1. Presented' = Presented
      BY <2>1 DEF StartUnpair, Presented
    <3> QED  BY <1>1, <1>2, <2>1, <3>1, PostMatches DEF StartUnpair
  <2>2. CASE Presented = 0
    BY <1>1, <1>2, <1>4, <2>2, NothingToMatch DEF StartUnpair, Idle
  <2> QED  BY <2>1, <2>2
<1>7. SignedAgent'
  BY StillSigned DEF StartUnpair, ClearPairing
<1>8. ThreadTypeOK'
  BY <1>1 DEF StartUnpair, sourceVars, TypeOK, ThreadTypeOK
<1> QED  BY <1>4, <1>5, <1>6, <1>7, <1>8, AgentKeeps DEF AgentInv

\* The heartbeat task posts a heartbeat, or finds its token expired.
LEMMA BeatKeeps ==
  ASSUME IInv, Beat, UNCHANGED serverVars
  PROVE  IInv'
<1>1. TypeOK
  BY DEF IInv
<1>2. Snapshot \in Snapshots /\ agentToken \in TokensOrNone /\ 0 \in TokensOrNone /\ (Idle <=> waiting = 0)
  BY <1>1, SnapshotsAreTyped, Numbers DEF IInv, AgentInv, CallsMatch, Idle, TypeOK, AgentTypeOK
<1>3. LinkKept
  <2>1. net' \subseteq Calls /\ waiting' \in CallIds \cup {0} /\ reply' \in Replies
    BY <1>1, <1>2, PostIsTyped DEF Beat, Replies, TypeOK, LinkTypeOK
  <2> QED  BY <1>1, <2>1 DEF LinkKept, Beat, TypeOK, LinkTypeOK, Faults
<1>4. AgentTypeOK'
  BY <1>1, <1>2 DEF Beat, Beats, ExpirePairing, ClearPairing, pairingVars, sourceVars, TypeOK, AgentTypeOK, Statuses, Idle
<1>5. CallsMatch' /\ AnswersHold'
  <2>1. CASE ~Expired(agentToken)
    BY <1>1, <1>2, <2>1, PostMatches DEF Beat
  <2>2. CASE Expired(agentToken)
    BY <1>1, <1>2, <1>3, <2>2, NothingToMatch DEF Beat, Beats, Idle
  <2> QED  BY <2>1, <2>2
<1>6. SignedAgent'
  BY StillSigned DEF Beat, ExpirePairing, ClearPairing, pairingVars
<1>7. ThreadTypeOK'
  BY <1>1 DEF Beat, sourceVars, TypeOK, ThreadTypeOK
<1> QED  BY <1>3, <1>4, <1>5, <1>6, <1>7, AgentKeeps DEF AgentInv

\* The steps that hear of a call, the queued resume and the restart of the app: the RC
\* waits for nothing afterwards.
LEMMA FreeKeeps ==
  ASSUME IInv, UNCHANGED serverVars,
         \/ Paired \/ PairFails \/ Unpaired \/ UnpairFails
         \/ BeatAccepted \/ BeatRefused \/ BeatFails
         \/ Resume \/ Restart
  PROVE  IInv'
<1>1. TypeOK
  BY DEF IInv
<1>2. task' = "none" /\ waiting' = 0
  BY DEF Paired, PairFails, Unpaired, UnpairFails, BeatAccepted, BeatRefused, BeatFails, Resume, Restart,
         Hears, IInv, AgentInv, CallsMatch, Idle, linkVars
<1>3. LinkKept
  <2>1. net' \subseteq Calls /\ reply' \in Replies /\ UNCHANGED <<now, exp, owner, unpairs>>
    BY <1>1 DEF Paired, PairFails, Unpaired, UnpairFails, BeatAccepted, BeatRefused, BeatFails, Resume, Restart,
                Hears, linkVars, TypeOK, LinkTypeOK, Replies
  <2>2. left' \in [Faults -> Nat]
    BY <1>1, SpendIsTyped DEF Paired, PairFails, Unpaired, UnpairFails, BeatAccepted, BeatRefused, BeatFails,
                              Resume, Restart, linkVars, TypeOK, LinkTypeOK, Faults
  <2> QED  BY <1>2, <2>1, <2>2 DEF LinkKept
<1>4. \A t \in Issued : t \in TokensOrNone
  BY Numbers DEF Issued
<1>5. 0 \in TokensOrNone /\ agentToken \in TokensOrNone /\ stored \in TokensOrNone /\ secureStore \in TokensOrNone
      /\ Presented \in TokensOrNone
  BY <1>1, Numbers DEF TypeOK, AgentTypeOK, Presented
<1>6. AgentTypeOK'
  <2>1. CASE Paired \/ PairFails
    BY <1>1, <1>4, <1>5, <2>1 DEF Paired, PairFails, Hears, Keep, sourceVars, TypeOK, AgentTypeOK, Statuses
  <2>2. CASE Unpaired \/ UnpairFails
    BY <1>1, <1>5, <2>2 DEF Unpaired, UnpairFails, Hears, ClearPairing, sourceVars, TypeOK, AgentTypeOK, Statuses
  <2>3. CASE BeatAccepted \/ BeatRefused \/ BeatFails
    BY <1>1, <1>5, <2>3 DEF BeatAccepted, BeatRefused, BeatFails, Hears, ExpirePairing, ClearPairing, pairingVars,
                            sourceVars, TypeOK, AgentTypeOK, Statuses
  <2>4. CASE Resume
    BY <1>1, <1>5, <2>4 DEF Resume, sourceVars, TypeOK, AgentTypeOK, Statuses
  <2>5. CASE Restart
    BY <1>1, <1>5, <2>5 DEF Restart, TypeOK, AgentTypeOK, Statuses, Links
  <2> QED  BY <2>1, <2>2, <2>3, <2>4, <2>5
<1>7. SignedAgent'
  <2>1. Presented \in {agentToken, stored}
    BY DEF Presented
  <2>2. CASE Restart
    <3>1. glance'["main"] = 0 /\ glance'["msdk"] = 0
      BY <2>2 DEF Restart, Threads
    <3> QED  BY <1>3, <2>2, <3>1, StillSigned DEF LinkKept, Restart
  <2>3. CASE ~Restart
    BY <1>3, <2>1, <2>3, StillSigned DEF LinkKept, Paired, PairFails, Unpaired, UnpairFails, BeatAccepted,
       BeatRefused, BeatFails, Resume, Keep, ExpirePairing, ClearPairing, pairingVars
  <2> QED  BY <2>2, <2>3
<1>8. ThreadTypeOK'
  <2>1. CASE Restart
    <3>1. glance' \in [Threads -> TokensOrNone]
      BY <1>5, <2>1 DEF Restart
    <3>2. Free("posted") \in Positions /\ Free("idle") \in Positions
      BY DEF Free, Positions, Places, Serials
    <3>3. threads' \in [Threads -> Positions]
      BY <2>1, <3>2 DEF Restart, Threads
    <3> QED  BY <3>1, <3>3 DEF ThreadTypeOK
  <2>2. CASE ~Restart
    BY <1>1, <2>2 DEF Paired, PairFails, Unpaired, UnpairFails, BeatAccepted, BeatRefused, BeatFails, Resume,
                      sourceVars, TypeOK, ThreadTypeOK
  <2> QED  BY <2>1, <2>2
<1> QED  BY <1>1, <1>2, <1>3, <1>6, <1>7, <1>8, NothingToMatch, AgentKeeps DEF AgentInv

-----------------------------------------------------------------------------
(* The sources: what DJI's callbacks and the start of the runtime do *)

\* What a step of the sources may not touch, and what it may look at.
LeftAlone ==
  /\ UNCHANGED <<now, exp, owner, net, unpairs, waiting, reply, agentToken, task, heartbeats, channel>>
  /\ stored' \in {stored, 0}
  /\ status' \in {status, "identity_mismatch"}
  /\ resuming' \in {resuming, glance["main"], glance["msdk"]}
  /\ left' = left \/ \E k \in Faults : Spend(k)

\* The end of tryResume, on whichever thread
LEMMA DecisionsLeave ==
  ASSUME NEW t \in Threads, ResumeDecides(t)
  PROVE  LeftAlone /\ Decided(t) /\ secureStore' \in {secureStore, 0} /\ UNCHANGED sourceVars
BY DEF ResumeDecides, ResumeExpired, ResumeMismatch, ResumeQueued, ResumeNotYet, LeftAlone, linkVars, pairingVars, Threads

\* The RC's pairing and its calls are not the sources' business.
LEMMA SourcesLeave ==
  ASSUME Sources
  PROVE  LeftAlone
<1>1. CASE Callbacks
  BY <1>1 DEF Callbacks, ProductConnect, ProductDisconnect, GatewayConnect, GatewayDisconnect, AircraftConnect,
              AircraftDisconnect, SerialRead, Event, FaultEvent, SourceRest, LeftAlone, Faults
<1>2. ASSUME NEW t \in Threads, ThreadStep(t)  PROVE LeftAlone
  <2>1. CASE ResumeDecides(t)
    BY <2>1, DecisionsLeave
  <2>2. CASE ~ResumeDecides(t)
    BY <1>2, <2>2 DEF ThreadStep, FailureWritten, Hydrate, Hydrated, RuntimeStarts, RuntimeReady, RuntimeTries,
                      ProductWritten, ProductHandled, AircraftWritten, NoTry, SourceRest, LeftAlone
  <2> QED  BY <2>1, <2>2
<1>3. ASSUME NEW t \in Threads, HandlerFails(t)  PROVE LeftAlone
  BY <1>3 DEF HandlerFails, SourceRest, LeftAlone, Faults
<1> QED  BY <1>1, <1>2, <1>3 DEF Sources, LeftAlone

\* What a thread has read is a pairing of this RC.
Looks ==
  /\ glance' \in [Threads -> TokensOrNone]
  /\ \A t \in Threads : glance'[t] \in {glance[t], stored, secureStore, 0}
  /\ secureStore' \in {secureStore, 0}

LEMMA LooksAreTyped ==
  ASSUME TypeOK, NEW t \in Threads,
         TryResume(t) \/ UNCHANGED <<glance, secureStore>> \/ (Decided(t) /\ secureStore' \in {secureStore, 0})
  PROVE  Looks
<1>1. glance \in [Threads -> TokensOrNone] /\ {stored, secureStore, 0} \subseteq TokensOrNone
  BY Numbers DEF TypeOK, AgentTypeOK, ThreadTypeOK
<1>2. CASE UNCHANGED <<glance, secureStore>>
  BY <1>1, <1>2 DEF Looks
<1>3. CASE \E v \in {stored, secureStore, 0} : glance' = [glance EXCEPT ![t] = v] /\ secureStore' \in {secureStore, 0}
  BY <1>1, <1>3 DEF Looks
<1> QED  BY <1>2, <1>3 DEF TryResume, Decided

\* Where a thread goes it keeps a position, with what its update has read.
LEMMA PositionsAreTyped ==
  ASSUME TypeOK, NEW t \in Threads, NEW place \in Places,
         NEW on \in BOOLEAN, NEW isReady \in BOOLEAN, NEW sn \in Serials,
         Goes(t, place) \/ UpdatesSdk(t, place, on, isReady) \/ UpdatesAircraft(t, place, on, sn)
  PROVE  threads' \in [Threads -> Positions]
<1>1. Free(place) \in Positions
  BY DEF Free, Positions, Serials
<1>2. [Free(place) EXCEPT !.on = on, !.ready = isReady] \in Positions
  BY DEF Free, Positions, Serials
<1>3. [Free(place) EXCEPT !.on = on, !.serial = sn] \in Positions
  BY DEF Free, Positions, Serials
<1> QED  BY <1>1, <1>2, <1>3 DEF Goes, UpdatesSdk, UpdatesAircraft, TypeOK, ThreadTypeOK

\* The snapshots stay snapshots, whichever thread writes over which.
SourcesTyped == links' \subseteq Links /\ serial' \in Serials /\ ready' \in BOOLEAN

LEMMA WritesAreTyped ==
  ASSUME TypeOK, NEW t \in Threads, WritesSdk(t) \/ WritesAircraft(t)
  PROVE  SourcesTyped
<1>1. threads[t].ready \in BOOLEAN /\ threads[t].serial \in Serials
  BY DEF TypeOK, ThreadTypeOK, Positions
<1>2. \A link \in Links : \A on : Linked(link, on) \subseteq Links
  BY DEF TypeOK, AgentTypeOK, Linked
<1> QED  BY <1>1, <1>2 DEF WritesSdk, WritesAircraft, SourcesTyped, TypeOK, AgentTypeOK, Serials, Links

\* Every step of the sources keeps the types of what they and the threads hold.
SourcesStay == Looks /\ threads' \in [Threads -> Positions] /\ SourcesTyped

\* The callbacks
LEMMA CallbacksAreTyped ==
  ASSUME TypeOK, Callbacks
  PROVE  SourcesStay
<1>1. Looks
  BY LooksAreTyped DEF Callbacks, ProductConnect, ProductDisconnect, GatewayConnect, GatewayDisconnect, AircraftConnect,
                       AircraftDisconnect, SerialRead, Threads
<1>2. SourcesTyped
  BY DEF Callbacks, ProductConnect, ProductDisconnect, GatewayConnect, GatewayDisconnect, AircraftConnect,
         AircraftDisconnect, SerialRead, SourcesTyped, TypeOK, AgentTypeOK, Links, Serials
<1>3. ready \in BOOLEAN /\ serial \in Serials /\ "msdk" \in Threads /\ {"connect", "disconnect", "aircraft"} \subseteq Places
  BY DEF TypeOK, AgentTypeOK, Serials, Threads, Places
<1>4. threads' \in [Threads -> Positions]
  <2>1. CASE ProductConnect \/ ProductDisconnect
    BY <1>3, <2>1, PositionsAreTyped DEF ProductConnect, ProductDisconnect
  <2>2. CASE GatewayConnect \/ GatewayDisconnect
    BY <2>2 DEF GatewayConnect, GatewayDisconnect, TypeOK, ThreadTypeOK
  <2>3. CASE AircraftConnect \/ AircraftDisconnect
    <3>1. ("aircraft" \in actual') \in BOOLEAN
      OBVIOUS
    <3>2. CASE Listening
      BY <1>3, <2>3, <3>1, <3>2, PositionsAreTyped DEF AircraftConnect, AircraftDisconnect, AircraftReports
    <3>3. CASE ~Listening
      BY <2>3, <3>3 DEF AircraftConnect, AircraftDisconnect, AircraftReports, TypeOK, ThreadTypeOK
    <3> QED  BY <3>2, <3>3
  <2>4. CASE SerialRead
    <3>1. PICK sn \in Serials : UpdatesAircraft("msdk", "aircraft", "aircraft" \in links, sn)
      BY <2>4 DEF SerialRead, Serials
    <3>2. ("aircraft" \in links) \in BOOLEAN
      OBVIOUS
    <3> QED  BY <1>3, <3>1, <3>2, PositionsAreTyped
  <2> QED  BY <2>1, <2>2, <2>3, <2>4 DEF Callbacks
<1> QED  BY <1>1, <1>2, <1>4 DEF SourcesStay

\* The threads' own steps
LEMMA ThreadsAreTyped ==
  ASSUME TypeOK, NEW t \in Threads, ThreadStep(t) \/ HandlerFails(t)
  PROVE  SourcesStay
<1>1. CASE ResumeDecides(t)
  <2>1. Looks /\ UNCHANGED sourceVars
    BY <1>1, DecisionsLeave, LooksAreTyped
  <2> QED  BY <2>1 DEF SourcesStay, SourcesTyped, sourceVars, TypeOK, AgentTypeOK, ThreadTypeOK, Serials
<1>2. CASE ~ResumeDecides(t)
  <2> DEFINE read == "product" \in links
             seen == "aircraft" \in actual
  <2>1. /\ ready \in BOOLEAN /\ serial \in Serials /\ TRUE \in BOOLEAN /\ FALSE \in BOOLEAN
        /\ read \in BOOLEAN /\ seen \in BOOLEAN /\ "main" \in Threads /\ "msdk" \in Threads
    BY DEF TypeOK, AgentTypeOK, Serials, Threads
  <2>2. Looks
    BY <1>2, <2>1, LooksAreTyped DEF ThreadStep, HandlerFails, FailureWritten, Hydrate, Hydrated, RuntimeStarts, RuntimeReady,
       RuntimeTries, ProductWritten, ProductHandled, AircraftWritten, WritesAircraft, NoTry
  <2>3. SourcesTyped
    <3>1. CASE UNCHANGED <<links, serial, ready>>
      BY <3>1 DEF SourcesTyped, TypeOK, AgentTypeOK, Serials
    <3>2. CASE \E u \in Threads : WritesSdk(u) \/ WritesAircraft(u)
      BY <3>2, WritesAreTyped
    <3> QED  BY <1>2, <2>1, <3>1, <3>2 DEF ThreadStep, HandlerFails, FailureWritten, Hydrate, Hydrated, RuntimeStarts,
                RuntimeReady, RuntimeTries, ProductWritten, ProductHandled, AircraftWritten
  <2>4. threads' \in [Threads -> Positions]
    <3> HIDE DEF read, seen
    <3>1. CASE \E u \in Threads, place \in Places : Goes(u, place)
      BY <2>1, <3>1, PositionsAreTyped
    <3>2. CASE \E u \in Threads, place \in Places : UpdatesSdk(u, place, read, TRUE) \/ UpdatesSdk(u, place, read, FALSE)
      BY <2>1, <3>2, PositionsAreTyped
    <3>3. CASE UpdatesAircraft("main", "hydrate", seen, serial)
      BY <2>1, <3>3, PositionsAreTyped DEF Places
    <3>4. CASE Hydrate \/ RuntimeStarts \/ HandlerFails(t)
      BY <2>1, <3>2, <3>3, <3>4 DEF Hydrate, RuntimeStarts, HandlerFails, Places, read, seen
    <3>5. CASE ThreadStep(t) /\ ~(Hydrate \/ RuntimeStarts)
      BY <1>2, <2>1, <3>1, <3>5 DEF ThreadStep, FailureWritten, Hydrated, RuntimeReady, RuntimeTries, ProductWritten,
         ProductHandled, AircraftWritten, Places
    <3> QED  BY <3>4, <3>5
  <2> QED  BY <2>2, <2>3, <2>4 DEF SourcesStay
<1> QED  BY <1>1, <1>2

\* The sources keep the invariant.
LEMMA SourcesKeep ==
  ASSUME IInv, Sources, UNCHANGED serverVars
  PROVE  IInv'
<1>1. TypeOK
  BY DEF IInv
<1>2. LeftAlone
  BY SourcesLeave
<1>3. SourcesStay
  BY <1>1, CallbacksAreTyped, ThreadsAreTyped DEF Sources
<1>4. LinkKept
  <2>1. left' \in [Faults -> Nat]
    BY <1>1, <1>2, SpendIsTyped DEF LeftAlone, TypeOK, LinkTypeOK, Faults
  <2> QED  BY <1>1, <1>2, <2>1 DEF LeftAlone, LinkKept, TypeOK, LinkTypeOK
<1>5. /\ glance["main"] \in TokensOrNone /\ glance["msdk"] \in TokensOrNone
      /\ glance'["main"] \in {glance["main"], stored, secureStore, 0}
      /\ glance'["msdk"] \in {glance["msdk"], stored, secureStore, 0}
  BY <1>1, <1>3 DEF TypeOK, ThreadTypeOK, SourcesStay, Looks, Threads
<1>6. AgentTypeOK'
  <2>1. {stored, secureStore, resuming, 0} \subseteq TokensOrNone
    BY <1>1, Numbers DEF TypeOK, AgentTypeOK
  <2> QED  BY <1>1, <1>2, <1>3, <1>5, <2>1 DEF LeftAlone, SourcesStay, SourcesTyped, Looks, TypeOK, AgentTypeOK, Statuses,
              Serials
<1>7. ThreadTypeOK'
  BY <1>3 DEF SourcesStay, Looks, ThreadTypeOK
<1>8. CallsMatch' /\ AnswersHold'
  BY <1>2, WaitingMatches DEF LeftAlone
<1>9. SignedAgent'
  BY <1>2, <1>3, <1>5, StillSigned DEF LeftAlone, SourcesStay, Looks
<1> QED  BY <1>4, <1>6, <1>7, <1>8, <1>9, AgentKeeps DEF AgentInv

-----------------------------------------------------------------------------
(* The network and the clock *)

\* An answer that is lost or late is none, and time undoes no refusal.
LEMMA NetworkKeeps ==
  ASSUME IInv, Network
  PROVE  IInv'
<1>1. TypeOK
  BY DEF IInv
<1>2. UNCHANGED <<exp, owner, unpairs, waiting, serverVars, agentVars>> /\ net' \subseteq net
  BY DEF Network, GiveUp, Lose, Tick
<1>3. now' \in 0 .. MaxTime /\ now' >= now
  BY <1>1, LinkAssumption DEF Network, GiveUp, Lose, Tick, TypeOK, LinkTypeOK
<1>4. reply' = reply \/ reply' = "lost"
  BY DEF Network, GiveUp, Lose, Tick
<1>5. left' \in [Faults -> Nat]
  BY <1>1, SpendIsTyped DEF Network, GiveUp, Lose, Tick, TypeOK, LinkTypeOK, Faults
<1>6. TypeOK'
  <2>1. reply' \in Replies
    BY <1>1, <1>4 DEF TypeOK, LinkTypeOK, Replies
  <2>2. LinkTypeOK'
    BY <1>1, <1>2, <1>3, <1>5, <2>1 DEF TypeOK, LinkTypeOK, Faults
  <2>3. ThreadTypeOK'
    BY <1>1, <1>2 DEF TypeOK, ThreadTypeOK, agentVars, workVars, sourceVars
  <2> QED  BY <1>1, <1>2, <2>2, <2>3 DEF TypeOK, ServerTypeOK, AgentTypeOK, serverVars, agentVars, pairingVars, workVars,
              sourceVars
<1>7. \A t \in Tokens : Expired(t) => Expired(t)'
  BY <1>1, <1>2, <1>3 DEF Expired, TypeOK, LinkTypeOK
<1>8. SignedStay /\ RefusalsStay /\ Issued' = Issued
  BY <1>2, <1>7 DEF SignedStay, RefusalsStay, Issued, Refused, serverVars
<1>9. ServerInv'
  <2>1. SignedServer' /\ DownIsEmpty' /\ RevokedLeavesNothing'
    BY <1>2, <1>8 DEF IInv, ServerInv, SignedServer, DownIsEmpty, RevokedLeavesNothing, serverVars
  <2>2. RevocationsLast'
    BY <1>2, <1>8 DEF IInv, ServerInv, SignedServer, RevocationsLast, RefusalsStay, serverVars
  <2> QED  BY <2>1, <2>2 DEF ServerInv
<1>10. AgentInv'
  <2>1. HonestAnswer
    BY <1>4 DEF HonestAnswer, Settled
  <2>2. \A u \in unpairs' : u.id = waiting => Carries(u.token)
    BY <1>2 DEF IInv, AgentInv, CallsMatch
  <2> QED  BY <1>2, <1>8, <2>1, <2>2, AgentUntouched DEF IInv
<1> QED  BY <1>6, <1>9, <1>10 DEF IInv

-----------------------------------------------------------------------------
(* The backend's steps *)

\* An answer to the call the RC waits for has to be meant; nobody hears any other.
LEMMA AnswerIsHonest ==
  ASSUME NEW id, NEW s, Answer(id, s),
         id = waiting /\ s \in Settled /\ task = "unpair" /\ Presented # 0 => Refused(Presented)'
  PROVE  HonestAnswer
BY DEF Answer, HonestAnswer

\* While expiries, the clock, the table and the memory stand, so do the refusals.
LEMMA NothingForgotten ==
  ASSUME SignedServer, UNCHANGED <<exp, owner, now>>, table \subseteq table', revoked \subseteq revoked',
         running' => running
  PROVE  SignedStay /\ RefusalsStay
BY DEF SignedStay, RefusalsStay, Refused, Issued, Expired

\* POST /api/msdk/pair: the token is new, so nothing is known of it.
LEMMA PairKeeps ==
  ASSUME IInv, NEW c, Handle(c), Pair(c), UNCHANGED agentVars
  PROVE  IInv'
<1>1. TypeOK'
  BY HandleIsTyped DEF IInv
<1>2. c \in net /\ c.kind = "pair" /\ c.body.sn \in Aircraft \cup {NoSn}
  BY DEF IInv, TypeOK, LinkTypeOK, Handle, Pair, Calls, Snapshots
<1>3. UNCHANGED <<now, running, revoked, table, unpaired, unpairs, peer, waiting>> /\ running /\ net' \subseteq net
  BY DEF Handle, Pair
<1>4. HonestAnswer
  BY <1>2, AnswerIsHonest DEF Pair, IInv, AgentInv, CallsMatch
<1>5. \A u \in unpairs' : u.id = waiting => Carries(u.token)
  BY <1>3 DEF IInv, AgentInv, CallsMatch
<1>6. CASE WellFormed(c.body) /\ Identifies(c.body)
  <2>1. PICK t \in Tokens \ Issued :
          /\ exp' = [exp EXCEPT ![t] = now + Ttl]
          /\ owner' = [owner EXCEPT ![t] = c.body.sn]
          /\ agents' = [agents EXCEPT ![c.body.sn] = t]
    BY <1>6 DEF Pair
  <2>2. c.body.sn \in Aircraft
    BY <1>2, <1>6 DEF WellFormed
  <2>3. Issued' = Issued \cup {t} /\ SignedStay
    <3>1. now + Ttl > 0 /\ exp \in [Tokens -> Nat] /\ owner \in [Tokens -> Aircraft \cup {NoSn}]
      BY LinkAssumption DEF IInv, TypeOK, LinkTypeOK
    <3> QED  BY <2>1, <3>1 DEF Issued, SignedStay
  <2>4. RefusalsStay
    BY <1>3, <2>3 DEF RefusalsStay, Refused, Expired, SignedStay
  <2>5. SignedServer'
    <3>1. owner' \in [Tokens -> Aircraft \cup {NoSn}] /\ owner'[t] = c.body.sn
      BY <1>1, <2>1 DEF IInv, TypeOK, LinkTypeOK
    <3>2. \A a \in Aircraft : agents'[a] = IF a = c.body.sn THEN t ELSE agents[a]
      BY <2>1 DEF IInv, TypeOK, ServerTypeOK
    <3>3. \A x \in Issued' : owner'[x] \in Aircraft
      BY <2>2, <2>3, <3>1 DEF IInv, ServerInv, SignedServer, SignedStay
    <3>4. \A a \in Aircraft : agents'[a] # 0 => agents'[a] \in Issued' /\ owner'[agents'[a]] = a
      BY <2>3, <3>1, <3>2 DEF IInv, ServerInv, SignedServer, SignedStay
    <3> QED  BY <1>3, <2>3, <3>3, <3>4 DEF IInv, ServerInv, SignedServer
  <2>6. RevocationsLast'
    BY <1>3, <2>4 DEF IInv, ServerInv, SignedServer, RevocationsLast, RefusalsStay
  <2>7. RevokedLeavesNothing'
    <3>1. \A a \in Aircraft : agents'[a] \in {t, agents[a]}
      BY <2>1 DEF IInv, TypeOK, ServerTypeOK
    <3> QED  BY <1>3, <2>1, <3>1 DEF IInv, ServerInv, SignedServer, RevokedLeavesNothing
  <2>8. DownIsEmpty'
    BY <1>3 DEF DownIsEmpty
  <2>9. AgentInv'
    BY <1>3, <1>4, <1>5, <2>3, <2>4, AgentUntouched DEF IInv
  <2> QED  BY <1>1, <2>5, <2>6, <2>7, <2>8, <2>9 DEF IInv, ServerInv
<1>7. CASE ~(WellFormed(c.body) /\ Identifies(c.body))
  <2>1. UNCHANGED <<exp, owner, agents>>
    BY <1>7 DEF Pair
  <2>2. ServerInv'
    BY <1>3, <2>1, ServerUntouched DEF IInv, serverVars
  <2>3. AgentInv'
    BY <1>3, <1>4, <1>5, <2>1, NothingForgotten, AgentUntouched DEF IInv, ServerInv
  <2> QED  BY <1>1, <2>2, <2>3 DEF IInv
<1> QED  BY <1>6, <1>7

\* POST /api/msdk/heartbeat: the record names a token that is not revoked.
LEMMA HeartbeatKeeps ==
  ASSUME IInv, NEW c, Handle(c), Heartbeat(c), UNCHANGED agentVars
  PROVE  IInv'
<1>1. TypeOK'
  BY HandleIsTyped DEF IInv
<1>2. c \in net /\ c.kind = "heartbeat"
  BY DEF Handle, Heartbeat
<1>3. UNCHANGED <<now, exp, owner, running, revoked, table, unpaired, unpairs, peer, waiting>> /\ running
      /\ net' \subseteq net
  BY DEF Handle, Heartbeat
<1>4. HonestAnswer
  BY <1>2, AnswerIsHonest DEF Heartbeat, IInv, AgentInv, CallsMatch
<1>5. \A u \in unpairs' : u.id = waiting => Carries(u.token)
  BY <1>3 DEF IInv, AgentInv, CallsMatch
<1>6. AgentInv'
  BY <1>3, <1>4, <1>5, NothingForgotten, AgentUntouched DEF IInv, ServerInv
<1>7. ServerInv'
  <2>1. CASE WellFormed(c.body) /\ HeartbeatAccepted(c)
    <3>1. \A a \in Aircraft : agents'[a] = IF a = c.body.sn THEN c.token ELSE agents[a]
      BY <2>1 DEF Heartbeat, IInv, TypeOK, ServerTypeOK
    <3>2. c.token \in Issued /\ c.token \notin revoked /\ owner[c.token] = c.body.sn
      BY <2>1 DEF HeartbeatAccepted, Accepts
    <3>3. SignedServer'
      BY <1>3, <3>1, <3>2 DEF IInv, ServerInv, SignedServer, Issued
    <3>4. RevokedLeavesNothing'
      BY <1>3, <3>1, <3>2 DEF IInv, ServerInv, RevokedLeavesNothing
    <3>5. RevocationsLast' /\ DownIsEmpty'
      BY <1>3 DEF IInv, ServerInv, RevocationsLast, DownIsEmpty, Refused, Expired
    <3> QED  BY <3>3, <3>4, <3>5 DEF ServerInv
  <2>2. CASE ~(WellFormed(c.body) /\ HeartbeatAccepted(c))
    BY <1>3, <2>2, ServerUntouched DEF Heartbeat, IInv, serverVars
  <2> QED  BY <2>1, <2>2
<1> QED  BY <1>1, <1>6, <1>7 DEF IInv

\* POST /api/msdk/unpair up to its await: what it answers at once is a refusal.
LEMMA UnpairKeeps ==
  ASSUME IInv, NEW c, Handle(c), Unpair(c), UNCHANGED agentVars
  PROVE  IInv'
<1>1. TypeOK'
  BY HandleIsTyped DEF IInv
<1>2. c \in net /\ c.kind = "unpair" /\ (c.id = waiting => task = "unpair" /\ Carries(c.token))
  BY DEF Handle, Unpair, IInv, AgentInv, CallsMatch
<1>3. UNCHANGED <<now, exp, owner, agents, running, revoked, table, unpaired, peer, waiting>> /\ running
      /\ net' \subseteq net
  BY DEF Handle, Unpair
<1>4. SignedStay /\ RefusalsStay
  BY <1>3, NothingForgotten DEF IInv, ServerInv
<1>5. CASE Accepts(c.token)
  <2>1. unpairs' = unpairs \cup {[id |-> c.id, token |-> c.token, stored |-> FALSE]} /\ UNCHANGED reply
    BY <1>5 DEF Unpair
  <2>2. \A u \in unpairs' : u.id = waiting => Carries(u.token)
    BY <1>2, <2>1 DEF IInv, AgentInv, CallsMatch
  <2>3. AgentInv'
    BY <1>3, <1>4, <2>1, <2>2, AgentUntouched DEF IInv, HonestAnswer
  <2>4. ServerInv'
    BY <1>3, <1>5, <2>1 DEF IInv, ServerInv, SignedServer, DownIsEmpty, RevocationsLast, RevokedLeavesNothing, Refused,
                            Issued, Expired, Accepts
  <2> QED  BY <1>1, <2>3, <2>4 DEF IInv
<1>6. CASE ~Accepts(c.token)
  <2>1. Answer(c.id, "unauthorized") /\ UNCHANGED unpairs
    BY <1>6 DEF Unpair
  <2>2. c.id = waiting /\ Presented # 0 => Refused(Presented)'
    <3> SUFFICES ASSUME c.id = waiting, Presented # 0  PROVE Refused(Presented)'
      OBVIOUS
    <3>1. Presented = c.token /\ Presented \in Issued
      BY <1>2 DEF Carries, IInv, AgentInv, SignedAgent, Presented
    <3>2. Refused(Presented)
      BY <1>6, <3>1 DEF Accepts, Refused, IInv, ServerInv, RevocationsLast
    <3>3. Presented' = Presented
      BY DEF Presented, agentVars, pairingVars
    <3> QED  BY <1>4, <3>1, <3>2, <3>3 DEF RefusalsStay, Refused, Expired
  <2>3. HonestAnswer
    BY <2>1, <2>2, AnswerIsHonest
  <2>4. \A u \in unpairs' : u.id = waiting => Carries(u.token)
    BY <2>1 DEF IInv, AgentInv, CallsMatch
  <2>5. AgentInv'
    BY <1>3, <1>4, <2>3, <2>4, AgentUntouched DEF IInv
  <2>6. ServerInv'
    BY <1>3, <2>1, ServerUntouched DEF IInv, serverVars
  <2> QED  BY <1>1, <2>5, <2>6 DEF IInv
<1> QED  BY <1>5, <1>6

\* The row of a revocation is written, or its insert fails and the call is given up.
LEMMA InsertKeeps ==
  ASSUME IInv, NEW u \in unpairs, Insert(u) \/ InsertFails(u), TypeOK', UNCHANGED agentVars
  PROVE  IInv'
<1>1. UNCHANGED <<now, exp, owner, net, waiting, running, agents, revoked, peer, unpaired>> /\ running
      /\ table \subseteq table'
  BY DEF Insert, InsertFails, Store
<1>2. SignedStay /\ RefusalsStay
  BY <1>1, NothingForgotten DEF IInv, ServerInv
<1>3. HonestAnswer
  BY AnswerIsHonest DEF Insert, InsertFails, HonestAnswer, Settled
<1>4. \A v \in unpairs' : \/ v \in unpairs
                          \/ v.id = u.id /\ v.token = u.token /\ v.token \in table'
  <2>1. u \in UnpairCalls
    BY DEF IInv, TypeOK, LinkTypeOK
  <2> QED  BY <2>1 DEF Insert, InsertFails, Store, UnpairCalls
<1>5. AgentInv'
  <2>1. \A v \in unpairs' : v.id = waiting => Carries(v.token)
    BY <1>4 DEF IInv, AgentInv, CallsMatch
  <2> QED  BY <1>1, <1>2, <1>3, <2>1, AgentUntouched DEF IInv
<1>6. table' \subseteq table \cup {u.token}
  BY DEF Insert, InsertFails, Store
<1>7. ServerInv'
  <2>1. SignedServer'
    BY <1>1, <1>4, <1>6 DEF IInv, ServerInv, SignedServer, Issued
  <2>2. RevocationsLast'
    BY <1>1, <1>4 DEF IInv, ServerInv, RevocationsLast, Refused, Expired
  <2> QED  BY <1>1, <2>1, <2>2 DEF IInv, ServerInv, DownIsEmpty, RevokedLeavesNothing
<1> QED  BY <1>5, <1>7 DEF IInv

\* The rest of the unpair handler: the token goes, and the record and the socket of its
\* aircraft with it.
LEMMA RevokeKeeps ==
  ASSUME IInv, NEW u \in unpairs, Revoke(u), TypeOK', UNCHANGED agentVars
  PROVE  IInv'
<1>1. /\ UNCHANGED <<now, exp, owner, net, waiting, running, table>> /\ running
      /\ revoked' = revoked \cup {u.token} /\ unpaired' = unpaired \cup {u.token}
      /\ unpairs' \subseteq unpairs /\ u.stored
  BY DEF Revoke
<1>2. u.token \in Issued /\ u.token \in table /\ 0 \notin Tokens /\ u.token \in Tokens
  BY <1>1, Numbers DEF IInv, ServerInv, SignedServer, RevocationsLast, Issued
<1>3. SignedStay /\ RefusalsStay
  BY <1>1, NothingForgotten DEF IInv, ServerInv
<1>4. AgentInv'
  <2>1. Answer(u.id, "ok")
    BY DEF Revoke
  <2>2. Presented' = Presented
    BY DEF Presented, agentVars, pairingVars
  <2>3. u.id = waiting /\ Presented # 0 => Refused(Presented)'
    BY <1>1, <1>2, <2>2 DEF IInv, AgentInv, CallsMatch, Carries, Refused
  <2>4. HonestAnswer
    BY <2>1, <2>3, AnswerIsHonest
  <2>5. \A v \in unpairs' : v.id = waiting => Carries(v.token)
    BY <1>1 DEF IInv, AgentInv, CallsMatch
  <2> QED  BY <1>1, <1>3, <2>4, <2>5, AgentUntouched DEF IInv
<1>5. \A a \in Aircraft : agents'[a] = IF a = owner[u.token] THEN 0 ELSE agents[a]
  BY DEF Revoke, Forget, IInv, TypeOK, ServerTypeOK
<1>6. peer' = IF peer # 0 /\ owner[peer] = owner[u.token] THEN 0 ELSE peer
  BY DEF Revoke, Forget
<1>7. ServerInv'
  <2>1. SignedServer'
    BY <1>1, <1>2, <1>5, <1>6 DEF IInv, ServerInv, SignedServer, Issued
  <2>2. RevocationsLast'
    BY <1>1, <1>2 DEF IInv, ServerInv, RevocationsLast, Refused, Expired
  <2>3. RevokedLeavesNothing'
    <3> SUFFICES ASSUME NEW t \in revoked \cup {u.token}, NEW a \in Aircraft
                 PROVE  agents'[a] # t /\ peer' # t
      BY <1>1 DEF RevokedLeavesNothing
    <3>1. t # 0 /\ t \in Tokens
      BY <1>2 DEF IInv, TypeOK, ServerTypeOK
    <3>2. agents'[a] # t
      BY <1>5, <3>1 DEF IInv, ServerInv, SignedServer, RevokedLeavesNothing
    <3>3. peer' # t
      BY <1>6, <3>1 DEF IInv, ServerInv, RevokedLeavesNothing
    <3> QED  BY <3>2, <3>3
  <2> QED  BY <1>1, <2>1, <2>2, <2>3 DEF ServerInv, DownIsEmpty
<1> QED  BY <1>4, <1>7 DEF IInv

\* A crash forgets what was in memory only, and the start reads the table before the
\* backend accepts anything.
LEMMA RestartsKeep ==
  ASSUME IInv, Crash \/ Start, TypeOK', UNCHANGED agentVars
  PROVE  IInv'
<1>1. UNCHANGED <<now, exp, owner, net, waiting, reply, unpaired>> /\ unpairs' = {}
  BY DEF Crash, Start, IInv, ServerInv, DownIsEmpty, linkVars
<1>2. /\ \A a \in Aircraft : agents'[a] = 0
      /\ peer' = 0
      /\ ~running' => revoked' = {}
      /\ table' \subseteq table /\ revoked' \subseteq table'
  BY DEF Crash, Start, Loaded, IInv, ServerInv, DownIsEmpty
<1>3. SignedStay
  BY <1>1 DEF SignedStay, Issued
<1>4. RefusalsStay
  <2>1. CASE Crash
    BY <1>1, <2>1 DEF Crash, RefusalsStay, Refused, Expired
  <2>2. CASE Start
    BY <1>1, <2>2 DEF Start, Loaded, RefusalsStay, Refused, Expired
  <2> QED  BY <2>1, <2>2
<1>5. AgentInv'
  BY <1>1, <1>3, <1>4, AgentUntouched DEF IInv, HonestAnswer
<1>6. ServerInv'
  <2>1. SignedServer' /\ DownIsEmpty'
    BY <1>1, <1>2 DEF IInv, ServerInv, SignedServer, DownIsEmpty, Issued
  <2>2. RevocationsLast'
    <3>1. \A t \in revoked' : Refused(t)'
      BY <1>2 DEF Refused
    <3>2. \A t \in unpaired' : Refused(t)'
      BY <1>1, <1>4 DEF IInv, ServerInv, SignedServer, RevocationsLast, RefusalsStay
    <3> QED  BY <1>1, <3>1, <3>2 DEF RevocationsLast
  <2>3. RevokedLeavesNothing'
    BY <1>2, Numbers DEF RevokedLeavesNothing, TypeOK, ServerTypeOK
  <2> QED  BY <2>1, <2>2, <2>3 DEF ServerInv
<1> QED  BY <1>5, <1>6 DEF IInv

\* The control socket opens for a token that is accepted, and closes.
LEMMA SocketsKeep ==
  ASSUME IInv, (ExpirePeer /\ UNCHANGED agentVars) \/ Upgrade \/ ChannelLost
  PROVE  IInv'
<1>1. /\ UNCHANGED <<linkVars, running, agents, revoked, table, unpaired>>
      /\ UNCHANGED <<pairingVars, task, heartbeats, resuming, glance, sourceVars>>
  BY DEF ExpirePeer, Upgrade, ChannelLost, agentVars, workVars
<1>2. channel' \in {channel, 0} /\ (peer' = 0 \/ peer' = peer \/ (peer' = channel /\ Accepts(channel)))
  BY DEF ExpirePeer, Upgrade, ChannelLost, agentVars, workVars
<1>3. TypeOK'
  <2>1. ThreadTypeOK'
    BY <1>1 DEF IInv, TypeOK, ThreadTypeOK, sourceVars
  <2> QED  BY <1>1, <1>2, <2>1, Numbers DEF IInv, TypeOK, LinkTypeOK, ServerTypeOK, AgentTypeOK, linkVars, pairingVars,
              sourceVars
<1>4. AgentInv'
  BY <1>1 DEF IInv, AgentInv, SignedAgent, CallsMatch, AnswersHold, Carries, Presented, Refused, Issued, Expired, Settled,
              linkVars, pairingVars
<1>5. ServerInv'
  <2>1. peer' # 0 => peer' \in Issued /\ peer' \notin revoked /\ running
    <3>1. CASE peer' = peer
      BY <3>1 DEF IInv, ServerInv, SignedServer, DownIsEmpty, RevokedLeavesNothing
    <3>2. CASE Upgrade
      BY <1>2, <3>1, <3>2 DEF Upgrade, Accepts
    <3> QED  BY <3>1, <3>2 DEF ExpirePeer, ChannelLost
  <2>2. SignedServer'
    BY <1>1, <2>1 DEF IInv, ServerInv, SignedServer, Issued, linkVars
  <2>3. DownIsEmpty' /\ RevokedLeavesNothing'
    BY <1>1, <2>1, Numbers DEF IInv, TypeOK, ServerTypeOK, ServerInv, DownIsEmpty, RevokedLeavesNothing, linkVars
  <2>4. RevocationsLast'
    BY <1>1 DEF IInv, ServerInv, RevocationsLast, Refused, Expired, linkVars
  <2> QED  BY <2>2, <2>3, <2>4 DEF ServerInv
<1> QED  BY <1>3, <1>4, <1>5 DEF IInv

-----------------------------------------------------------------------------
(* The specification *)

\* Every step of the backend, of the RC and of the network keeps the invariant.
LEMMA StepHolds == IInv /\ [Next]_vars => IInv'
<1> SUFFICES ASSUME IInv, [Next]_vars  PROVE IInv'
  OBVIOUS
<1>1. CASE ServerStep
  <2>1. TypeOK' /\ UNCHANGED agentVars
    BY <1>1, ServerIsTyped DEF IInv, ServerStep
  <2>2. ASSUME NEW c \in net, Handle(c)  PROVE IInv'
    BY <2>1, <2>2, PairKeeps, HeartbeatKeeps, UnpairKeeps DEF Handle
  <2>3. CASE \E u \in unpairs : Insert(u) \/ InsertFails(u) \/ Revoke(u)
    BY <2>1, <2>3, InsertKeeps, RevokeKeeps
  <2>4. CASE Crash \/ Start
    BY <2>1, <2>4, RestartsKeep
  <2>5. CASE ExpirePeer
    BY <2>1, <2>5, SocketsKeep
  <2> QED  BY <1>1, <2>2, <2>3, <2>4, <2>5 DEF ServerStep
<1>2. CASE AgentStep
  <2>1. CASE Executor
    BY <1>2, <2>1, StartPairKeeps, StartUnpairKeeps, BeatKeeps, FreeKeeps DEF AgentStep, Executor
  <2>2. CASE Sources
    BY <1>2, <2>2, SourcesKeep DEF AgentStep
  <2>3. CASE Restart
    BY <1>2, <2>3, FreeKeeps DEF AgentStep
  <2> QED  BY <1>2, <2>1, <2>2, <2>3 DEF AgentStep
<1>3. CASE Network
  BY <1>3, NetworkKeeps
<1>4. CASE Upgrade \/ ChannelLost
  BY <1>4, SocketsKeep
<1>5. CASE UNCHANGED vars
  <2>1. TypeOK'
    BY <1>5 DEF IInv, TypeOK, LinkTypeOK, ServerTypeOK, AgentTypeOK, ThreadTypeOK, vars, linkVars, serverVars, agentVars,
                pairingVars, workVars, sourceVars
  <2>2. ServerInv'
    BY <1>5, ServerUntouched DEF IInv, vars, linkVars
  <2>3. AgentInv'
    BY <1>5 DEF IInv, AgentInv, SignedAgent, CallsMatch, AnswersHold, Carries, Presented, Refused, Issued, Expired,
                Settled, vars, linkVars, serverVars, agentVars, pairingVars, workVars, sourceVars
  <2> QED  BY <2>1, <2>2, <2>3 DEF IInv
<1> QED  BY <1>1, <1>2, <1>3, <1>4, <1>5 DEF Next

\* The invariant holds in every state, whatever is lost, late, repeated or restarted.
THEOREM Invariant == Spec => []IInv
<1> QED  BY InitHolds, StepHolds, PTL DEF Spec

\* Every variable has its type, and no call carries what is not a token.
THEOREM TypeCorrect == Spec => []TypeOK
<1>1. IInv => TypeOK
  BY DEF IInv
<1> QED  BY <1>1, Invariant, PTL

\* Once the backend has confirmed that a token is unpaired it never accepts it again
\* (index.ts 401-422, msdk-token-revocations.ts 30-91).
THEOREM UnpairingIsFinal == Spec => []UnpairIsFinal
<1>1. IInv => UnpairIsFinal
  BY DEF IInv, ServerInv, RevocationsLast, Refused, UnpairIsFinal, Accepts
<1> QED  BY <1>1, Invariant, PTL

\* What a revoked token has left behind is gone with it (msdk-bridge.ts, unpairAgent and
\* disconnectAgent).
THEOREM NothingIsLeftBehind == Spec => []RevokedLeavesNothing
<1>1. IInv => RevokedLeavesNothing
  BY DEF IInv, ServerInv
<1> QED  BY <1>1, Invariant, PTL

\* The RC reports "disconnected" after an unpairing only when the backend refuses the
\* token that was presented (Fh2BridgeClient.disconnect 203-264).
THEOREM ClearingIsHonest == Spec => ClearedIsRefused
<1>1. IInv /\ [Next]_vars
        => [task = "unpair" /\ status' = "disconnected" /\ left' = left /\ running => ~Accepts(Presented)]_vars
  <2> SUFFICES ASSUME IInv, Next, task = "unpair", status' = "disconnected", left' = left, running
               PROVE  ~Accepts(Presented)
    OBVIOUS
  <2>1. status # "disconnected" /\ TypeOK /\ ~Idle
    BY DEF IInv, AgentInv, CallsMatch, Idle
  <2>2. ~Restart
    BY <2>1 DEF Restart, Spend, TypeOK, LinkTypeOK
  <2>3. Unpaired
    <3>1. status' # status
      BY <2>1
    <3>2. AgentStep
      BY <3>1 DEF Next, ServerStep, Network, Upgrade, ChannelLost, agentVars, pairingVars
    <3>3. ~Sources
      BY <3>1, SourcesLeave DEF LeftAlone
    <3>4. Executor
      BY <2>2, <3>2, <3>3 DEF AgentStep
    <3>5. ~(StartPair \/ StartUnpair \/ Beat \/ Resume)
      BY <2>1 DEF StartPair, StartUnpair, Beat, Beats, Resume
    <3> QED  BY <3>4, <3>5 DEF Executor, Paired, PairFails, UnpairFails, BeatAccepted, BeatRefused, BeatFails, Hears
  <2>4. reply \in Settled
    BY <2>3 DEF Unpaired, Hears
  <2>5. Presented # 0 => Refused(Presented)
    BY <2>4 DEF IInv, AgentInv, AnswersHold
  <2>6. ~Accepts(0)
    BY Numbers DEF Accepts, Issued
  <2> QED  BY <2>5, <2>6 DEF Refused, Accepts
<1> QED  BY <1>1, Invariant, PTL DEF Spec, ClearedIsRefused

================================================================================
