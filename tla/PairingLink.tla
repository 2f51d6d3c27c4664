------------------------------- MODULE PairingLink -------------------------------
(***************************************************************************)
(* What the bridge client on the remote controller (RC) and the MSDK       *)
(* bridge of the backend share: the clock, the agent tokens that have been *)
(* signed, and the HTTP calls between them.  The RC waits for one call at  *)
(* a time; a call it has given up may still reach the backend.             *)
(***************************************************************************)
EXTENDS Integers, FiniteSets, Sequences

CONSTANTS
  Aircraft,   \* serial numbers of aircraft
  NoSn,       \* no serial number has been read yet
  MaxTokens,  \* bound: agent tokens ever signed
  MaxTime,    \* bound: the clock stops here
  Ttl,        \* tokenTtlMs, in ticks of the clock
  MaxAge,     \* snapshotMaxAgeMs, in ticks of the clock
  Budgets,    \* bound: how much of each kind may happen in one behaviour together
  CallIds     \* bound: calls under way at once, given up or not

ASSUME LinkAssumption ==
  /\ MaxTokens \in Nat \ {0} /\ MaxTime \in Nat /\ Ttl \in Nat \ {0} /\ MaxAge \in Nat
  /\ Budgets \subseteq [{"tasks", "backend", "app", "links", "late", "time"} -> Nat]
  /\ NoSn \notin Aircraft
  /\ CallIds \subseteq Nat \ {0} /\ IsFiniteSet(CallIds)

Tokens == 1 .. MaxTokens

VARIABLES
  now,      \* the clock
  exp,      \* when a token expires; 0 = not signed yet
  owner,    \* the aircraft a token was signed for
  net,      \* calls on their way to the backend
  unpairs,  \* unpair calls whose handler awaits the insert of the revocation
  waiting,  \* the call the RC waits for, or 0
  reply,    \* what has come back of it
  left      \* what this behaviour may still see

linkVars == <<now, exp, owner, net, unpairs, waiting, reply, left>>

Replies == {"none", "ok", "invalid", "unauthorized", "failed", "lost"}

\* BridgeSnapshot: whom it names, whether every link it reports is up, and when.
Snapshots == [sn: Aircraft \cup {NoSn}, linked: BOOLEAN, at: 0 .. MaxTime]
Calls == [id: CallIds, kind: {"pair", "heartbeat", "unpair"}, token: 0 .. MaxTokens, body: Snapshots]

LinkInit ==
  /\ now = 0
  /\ exp = [t \in Tokens |-> 0]
  /\ owner = [t \in Tokens |-> NoSn]
  /\ net = {} /\ unpairs = {}
  /\ waiting = 0
  /\ reply = "none"
  /\ left \in Budgets

\* A task of the operator; a fault of the backend, of the app or of the links that
\* DJI reports; a call that is late.
Spend(kind) == left[kind] > 0 /\ left' = [left EXCEPT ![kind] = @ - 1]

Issued == {t \in Tokens : exp[t] > 0}
Expired(t) == exp[t] <= now
InUse == {c.id : c \in net \cup unpairs} \cup {waiting}

\* postJson: the RC sends and waits.
Post(kind, token, snapshot) ==
  \E id \in CallIds \ InUse :
    /\ \A other \in CallIds \ InUse : id <= other
    /\ net' = net \cup {[id |-> id, kind |-> kind, token |-> token, body |-> snapshot]}
    /\ waiting' = id
    /\ reply' = "none"

\* The backend answers; nobody hears the answer to a call that was given up.
Answer(id, status) == reply' = IF id = waiting /\ reply = "none" THEN status ELSE reply

\* Five seconds without an answer: the call or the answer is lost, or the call is
\* only late.
GiveUp ==
  /\ waiting # 0 /\ reply # "lost"
  /\ reply' = "lost"
  /\ \/ net' = {c \in net : c.id # waiting} /\ UNCHANGED left
     \/ (\E c \in net : c.id = waiting) /\ Spend("late") /\ UNCHANGED net
  /\ UNCHANGED <<now, exp, owner, unpairs, waiting>>

\* A late call is lost after all.
Lose ==
  /\ \E c \in net : c.id # waiting /\ net' = net \ {c}
  /\ UNCHANGED <<now, exp, owner, unpairs, waiting, reply, left>>

Tick ==
  /\ now < MaxTime /\ Spend("time")
  /\ now' = now + 1
  /\ UNCHANGED <<exp, owner, net, unpairs, waiting, reply>>

===============================================================================
