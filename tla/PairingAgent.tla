------------------------------- MODULE PairingAgent -------------------------------
(***************************************************************************)
(* The RC's end of the pairing: Fh2BridgeClient with the secure store, and *)
(* the DJI sources that know which controller and aircraft are connected   *)
(* and try to resume a stored pairing whenever they learn something.       *)
(*                                                                         *)
(* Pairing, unpairing, resuming and heartbeats share one executor thread.  *)
(* tryResume runs on the main thread, which starts the runtime, and on the *)
(* thread of DJI's callbacks: between its check of agentToken and its use  *)
(* of what it has read the others may have done anything.  A source's      *)
(* update reads its snapshot and writes it without a lock.  Registration   *)
(* has succeeded; its repetition, and callbacks that change neither link   *)
(* nor serial number, are left out (RcKeys has those of the SDK).          *)
(***************************************************************************)
EXTENDS PairingLink

Links == {"product", "gateway", "aircraft"}
Statuses == {"disconnected", "stored", "identity_mismatch", "pairing", "paired",
             "unpairing", "unpair_failed", "expired", "error"}

VARIABLES
  status,       \* snapshot.status
  agentToken,   \* the token in use, or 0
  stored,       \* storedPairing, or 0
  secureStore,  \* what SecurePairingStore holds, or 0
  task,         \* what the executor waits for an answer for: a kind of call or "none"
  heartbeats,   \* heartbeatTask is scheduled
  resuming,     \* the resume that waits for the executor (resumeInProgress), or 0
  glance,       \* per thread, the pairing tryResume has read and not yet acted upon, or 0
  channel,      \* the token the control socket was asked for with, or 0
  actual,       \* what is connected, as DJI's SDK of this process knows
  links,        \* what the sources' snapshots say is connected
  serial,       \* flightControllerSerial in the aircraft's snapshot
  ready,        \* runtimeReady in the SDK's snapshot
  threads       \* how far each thread is, with what its update will write

pairingVars == <<status, agentToken, stored, secureStore>>
workVars    == <<task, heartbeats, resuming, glance, channel>>
sourceVars  == <<actual, links, serial, ready, threads>>
agentVars   == <<pairingVars, workVars, sourceVars>>

Threads == {"main", "msdk"}
Free(place) == [at |-> place, on |-> FALSE, ready |-> FALSE, serial |-> NoSn]

\* An RC that has been on for a while and is not paired.
AgentInit ==
  /\ status = "disconnected"
  /\ agentToken = 0 /\ stored = 0 /\ secureStore = 0
  /\ task = "none" /\ heartbeats = FALSE
  /\ resuming = 0 /\ glance = [t \in Threads |-> 0] /\ channel = 0
  /\ actual = Links /\ links = Links /\ serial \in Aircraft /\ ready = TRUE
  /\ threads = [t \in Threads |-> Free("idle")]

Snapshot == [sn |-> serial, linked |-> links = Links, at |-> now]
\* The body of an unpair call is empty.
NoSnapshot == [sn |-> NoSn, linked |-> FALSE, at |-> 0]
Idle == task = "none"

\* The operator's tasks wait in the executor's queue: when one starts, what the
\* operator saw when pressing the button may be over.  normalizeBaseUrl and the
\* pairing token are checked before anything is sent.
StartPair ==
  /\ Idle /\ Spend("tasks")
  /\ heartbeats' = FALSE
  /\ channel' = 0
  /\ \/ /\ status' = "pairing"
        /\ Post("pair", 0, Snapshot)
        /\ task' = "pair"
        /\ UNCHANGED agentToken
     \/ /\ status' = "error"  \* no token entered, or an address that is refused
        /\ agentToken' = 0
        /\ UNCHANGED <<net, waiting, reply, task>>
  /\ UNCHANGED <<now, exp, owner, unpairs, stored, secureStore, resuming, glance, sourceVars>>

Keep(t) == stored' = t /\ secureStore' = t

\* The executor hears of its call and is free again.
Hears(kind, answers) ==
  /\ task = kind /\ reply \in answers
  /\ task' = "none"
  /\ waiting' = 0
  /\ reply' = "none"

\* The answer to a pair call carries the token signed for it, the last one.
Paired ==
  /\ Hears("pair", {"ok"})
  /\ \E t \in Issued :
       /\ \A other \in Issued : other <= t
       /\ Keep(t)
       /\ agentToken' = t
       /\ channel' = t
  /\ status' = "paired"
  /\ heartbeats' = TRUE
  /\ UNCHANGED <<now, exp, owner, left, net, unpairs, resuming, glance, sourceVars>>

PairFails ==
  /\ Hears("pair", Replies \ {"none", "ok"})
  /\ agentToken' = 0
  /\ heartbeats' = FALSE
  /\ channel' = 0
  /\ status' = "error"
  /\ UNCHANGED <<now, exp, owner, left, net, unpairs, stored, secureStore, resuming, glance, sourceVars>>

\* Nothing of the pairing stays on the RC.
ClearPairing ==
  /\ agentToken' = 0
  /\ stored' = 0
  /\ secureStore' = 0

\* The token an unpairing revokes: the one in use, else the stored one.
Presented == IF agentToken # 0 THEN agentToken ELSE stored

\* The button is enabled while the status is "paired", so not yet in a process
\* that has only loaded its pairing.
StartUnpair ==
  /\ Idle /\ status \notin {"stored", "identity_mismatch", "disconnected"}
  /\ Spend("tasks")
  /\ heartbeats' = FALSE
  /\ channel' = 0
  /\ IF Presented = 0
     THEN /\ ClearPairing
          /\ status' = "disconnected"
          /\ UNCHANGED <<net, waiting, reply, task>>
     ELSE /\ status' = "unpairing"
          /\ Post("unpair", Presented, NoSnapshot)
          /\ task' = "unpair"
          /\ UNCHANGED <<agentToken, stored, secureStore>>
  /\ UNCHANGED <<now, exp, owner, unpairs, resuming, glance, sourceVars>>

\* Mutant of Settled: any answer counts as the end of the pairing.
SettledByAny == Replies \ {"none"}

\* Confirmed, or refused because the token is not valid any more.
Settled == {"ok", "unauthorized"}

Unpaired ==
  /\ Hears("unpair", Settled)
  /\ ClearPairing
  /\ status' = "disconnected"
  /\ UNCHANGED <<now, exp, owner, left, net, unpairs, heartbeats, resuming, glance, channel, sourceVars>>

\* The token is kept for another try.
UnpairFails ==
  /\ Hears("unpair", Replies \ ({"none"} \cup Settled))
  /\ agentToken' = Presented
  /\ status' = "unpair_failed"
  /\ UNCHANGED <<now, exp, owner, left, net, unpairs, stored, secureStore, heartbeats, resuming,
                 glance, channel, sourceVars>>

\* expirePairing
ExpirePairing ==
  /\ ClearPairing
  /\ heartbeats' = FALSE
  /\ channel' = 0
  /\ status' = "expired"

\* The heartbeat task, once a second; it does nothing unless the RC is paired.
Beats == Idle /\ heartbeats /\ status = "paired" /\ agentToken # 0

Beat ==
  /\ Beats
  /\ IF Expired(agentToken)
     THEN ExpirePairing /\ UNCHANGED <<net, waiting, reply, task>>
     ELSE /\ Post("heartbeat", agentToken, Snapshot)
          /\ task' = "heartbeat"
          /\ UNCHANGED <<pairingVars, heartbeats, channel>>
  /\ UNCHANGED <<now, exp, owner, left, unpairs, resuming, glance, sourceVars>>

\* ensureConnected after a heartbeat that was accepted
BeatAccepted ==
  /\ Hears("heartbeat", {"ok"})
  /\ channel' = IF channel = 0 THEN agentToken ELSE channel
  /\ UNCHANGED <<now, exp, owner, left, net, unpairs, pairingVars, heartbeats, resuming, glance, sourceVars>>

BeatRefused ==
  /\ Hears("heartbeat", {"unauthorized"})
  /\ ExpirePairing
  /\ UNCHANGED <<now, exp, owner, left, net, unpairs, resuming, glance, sourceVars>>

BeatFails ==
  /\ Hears("heartbeat", Replies \ {"none", "ok", "unauthorized"})
  /\ UNCHANGED <<now, exp, owner, left, net, unpairs, pairingVars, heartbeats, resuming, glance, channel, sourceVars>>

\* The resume that tryResume has queued
Resume ==
  /\ Idle /\ resuming # 0
  /\ agentToken' = resuming
  /\ stored' = resuming
  /\ status' = "paired"
  /\ channel' = resuming
  /\ heartbeats' = TRUE
  /\ resuming' = 0
  /\ UNCHANGED <<linkVars, secureStore, task, glance, sourceVars>>

-----------------------------------------------------------------------------
(* tryResume *)

\* What store.load() returns; an expired pairing is cleared on the way.
Valid(t) == t # 0 /\ ~Expired(t)

\* tryResume up to its first reads; with no pairing to resume it returns.
TryResume(t) ==
  IF agentToken # 0
  THEN UNCHANGED <<glance, secureStore>>
  ELSE /\ glance' = [glance EXCEPT ![t] = IF stored # 0 THEN stored ELSE IF Valid(secureStore) THEN secureStore ELSE 0]
       /\ secureStore' = IF stored # 0 \/ Valid(secureStore) THEN secureStore ELSE 0

\* The rest of tryResume
Decided(t) == glance' = [glance EXCEPT ![t] = 0]

ResumeExpired(t) ==
  /\ glance[t] # 0 /\ Expired(glance[t])
  /\ stored' = 0 /\ secureStore' = 0
  /\ Decided(t)
  /\ UNCHANGED <<linkVars, status, agentToken, task, heartbeats, resuming, channel, sourceVars>>

ResumeMismatch(t) ==
  /\ glance[t] # 0 /\ ~Expired(glance[t])
  /\ links = Links /\ serial \in Aircraft \ {owner[glance[t]]}
  /\ status' = "identity_mismatch"
  /\ Decided(t)
  /\ UNCHANGED <<linkVars, agentToken, stored, secureStore, task, heartbeats, resuming, channel, sourceVars>>

ResumeQueued(t) ==
  /\ glance[t] # 0 /\ ~Expired(glance[t])
  /\ links = Links /\ serial = owner[glance[t]]
  /\ resuming' = IF resuming = 0 THEN glance[t] ELSE resuming
  /\ Decided(t)
  /\ UNCHANGED <<linkVars, pairingVars, task, heartbeats, channel, sourceVars>>

ResumeNotYet(t) ==
  /\ glance[t] # 0 /\ ~Expired(glance[t])
  /\ links # Links \/ serial = NoSn
  /\ Decided(t)
  /\ UNCHANGED <<linkVars, pairingVars, task, heartbeats, resuming, channel, sourceVars>>

ResumeDecides(t) == ResumeExpired(t) \/ ResumeMismatch(t) \/ ResumeQueued(t) \/ ResumeNotYet(t)

-----------------------------------------------------------------------------
(* DJI's SDK: the start of the runtime, connections and the serial number *)

Runs(t, place) == threads[t].at = place /\ glance[t] = 0
Goes(t, place) == threads' = [threads EXCEPT ![t] = Free(place)]

\* An update of the SDK's or of the aircraft's snapshot has read what it keeps ...
UpdatesSdk(t, place, product, isReady) ==
  threads' = [threads EXCEPT ![t] = [Free(place) EXCEPT !.on = product, !.ready = isReady]]
UpdatesAircraft(t, place, connected, sn) ==
  threads' = [threads EXCEPT ![t] = [Free(place) EXCEPT !.on = connected, !.serial = sn]]

\* ... and writes it with its change, over what the other thread may have written since.
Linked(link, on) == IF on THEN links \cup {link} ELSE links \ {link}
WritesSdk(t) ==
  /\ links' = Linked("product", threads[t].on) /\ ready' = threads[t].ready
  /\ UNCHANGED <<actual, serial>>

\* The sources try to resume when what they know themselves is complete.
WritesAircraft(t) ==
  /\ links' = Linked("aircraft", threads[t].on) /\ serial' = threads[t].serial
  /\ IF threads[t].on /\ serial' # NoSn THEN TryResume(t) ELSE UNCHANGED <<glance, secureStore>>
  /\ UNCHANGED <<actual, ready>>

SourceRest == <<now, exp, owner, net, unpairs, waiting, reply, status, agentToken, stored, task, heartbeats, resuming, channel>>
NoTry == UNCHANGED <<SourceRest, left, glance, secureStore>>

\* initializeRuntimeComponents, five seconds after the registration: the sources listen
\* from then on, and the aircraft's is told of a connection that was there before.
Hydrate ==
  /\ Runs("main", "posted")
  /\ UpdatesAircraft("main", "hydrate", "aircraft" \in actual, serial)
  /\ NoTry /\ UNCHANGED <<actual, links, serial, ready>>

Hydrated ==
  /\ Runs("main", "hydrate")
  /\ WritesAircraft("main") /\ Goes("main", "components")
  /\ UNCHANGED <<SourceRest, left>>

RuntimeStarts ==
  /\ Runs("main", "components")
  /\ UpdatesSdk("main", "start", "product" \in links, TRUE)
  /\ NoTry /\ UNCHANGED <<actual, links, serial, ready>>

RuntimeReady ==
  /\ Runs("main", "start")
  /\ WritesSdk("main") /\ Goes("main", "started")
  /\ NoTry

RuntimeTries ==
  /\ Runs("main", "started")
  /\ TryResume("main") /\ Goes("main", "idle")
  /\ UNCHANGED <<SourceRest, left, actual, links, serial, ready>>

\* DJI's callbacks come one at a time; losing what was connected is a fault.
Event == Runs("msdk", "idle") /\ UNCHANGED left
FaultEvent == Runs("msdk", "idle") /\ Spend("links")
Listening == threads["main"].at # "posted"

\* onProductConnect, onProductDisconnect up to the write of the snapshot
ProductConnect ==
  /\ "product" \notin actual /\ Event
  /\ actual' = actual \cup {"product"}
  /\ UpdatesSdk("msdk", "connect", TRUE, ready)
  /\ UNCHANGED <<SourceRest, glance, secureStore, links, serial, ready>>

ProductDisconnect ==
  /\ "product" \in actual /\ FaultEvent
  /\ actual' = actual \ {"product"}
  /\ UpdatesSdk("msdk", "disconnect", FALSE, ready)
  /\ UNCHANGED <<SourceRest, glance, secureStore, links, serial, ready>>

ProductWritten ==
  /\ \/ Runs("msdk", "connect") /\ Goes("msdk", "connected")
     \/ Runs("msdk", "disconnect") /\ Goes("msdk", "disconnected")
  /\ WritesSdk("msdk")
  /\ NoTry

\* Mutant of ProductTries: the connection of the product is left to the sources.
ProductTriesNever == FALSE

ProductTries == ready

\* The rest of them: the handlers run if the runtime is ready.
ProductHandled ==
  /\ Runs("msdk", "connected") \/ Runs("msdk", "disconnected")
  /\ IF threads["msdk"].at = "connected" /\ ProductTries THEN TryResume("msdk") ELSE UNCHANGED <<glance, secureStore>>
  /\ Goes("msdk", "idle")
  /\ UNCHANGED <<SourceRest, left, actual, links, serial, ready>>

\* recordRuntimeFailure: a component or a handler has thrown, and tryResume is not reached.
HandlerFails(t) ==
  /\ \/ Runs(t, "components") \/ Runs(t, "started")
     \/ ready /\ (Runs(t, "connected") \/ Runs(t, "disconnected"))
  /\ Spend("links")
  /\ UpdatesSdk(t, "fail", "product" \in links, FALSE)
  /\ UNCHANGED <<SourceRest, glance, secureStore, actual, links, serial, ready>>

FailureWritten(t) ==
  /\ Runs(t, "fail")
  /\ WritesSdk(t) /\ Goes(t, "idle")
  /\ NoTry

\* The callbacks are the only writers of the gateway's snapshot.
GatewayConnect ==
  /\ Listening /\ "gateway" \notin links /\ Event
  /\ actual' = actual \cup {"gateway"} /\ links' = links \cup {"gateway"}
  /\ TryResume("msdk")
  /\ UNCHANGED <<SourceRest, serial, ready, threads>>

GatewayDisconnect ==
  /\ "gateway" \in links /\ FaultEvent
  /\ actual' = actual \ {"gateway"} /\ links' = links \ {"gateway"}
  /\ UNCHANGED <<SourceRest, glance, secureStore, serial, ready, threads>>

\* The aircraft's connection changes, heard or not.  The serial number is read after
\* the connection: until then the last one stands.
AircraftReports ==
  IF Listening THEN UpdatesAircraft("msdk", "aircraft", "aircraft" \in actual', serial) ELSE UNCHANGED threads

AircraftConnect ==
  /\ "aircraft" \notin actual /\ Event
  /\ actual' = actual \cup {"aircraft"}
  /\ AircraftReports
  /\ UNCHANGED <<SourceRest, glance, secureStore, links, serial, ready>>

AircraftDisconnect ==
  /\ "aircraft" \in actual /\ FaultEvent
  /\ actual' = actual \ {"aircraft"}
  /\ AircraftReports
  /\ UNCHANGED <<SourceRest, glance, secureStore, links, serial, ready>>

SerialRead ==
  /\ Listening /\ "aircraft" \in actual
  /\ \E sn \in (Aircraft \cup {NoSn}) \ {serial} : UpdatesAircraft("msdk", "aircraft", "aircraft" \in links, sn)
  /\ IF serial = NoSn THEN Event ELSE FaultEvent
  /\ UNCHANGED <<SourceRest, glance, secureStore, actual, links, serial, ready>>

AircraftWritten ==
  /\ Runs("msdk", "aircraft")
  /\ WritesAircraft("msdk") /\ Goes("msdk", "idle")
  /\ UNCHANGED <<SourceRest, left>>

\* What a thread goes on with by itself, and what happens to it
ThreadStep(t) ==
  \/ ResumeDecides(t) \/ FailureWritten(t)
  \/ t = "main" /\ (Hydrate \/ Hydrated \/ RuntimeStarts \/ RuntimeReady \/ RuntimeTries)
  \/ t = "msdk" /\ (ProductWritten \/ ProductHandled \/ AircraftWritten)

Callbacks ==
  \/ ProductConnect \/ ProductDisconnect \/ GatewayConnect \/ GatewayDisconnect
  \/ AircraftConnect \/ AircraftDisconnect \/ SerialRead

-----------------------------------------------------------------------------
(* The app's process *)

\* The app is killed and starts again: initialize loads what the store holds.
Restart ==
  /\ Spend("app")
  /\ LET loaded == IF Valid(secureStore) THEN secureStore ELSE 0 IN
     /\ stored' = loaded
     /\ secureStore' = loaded
     /\ status' = IF loaded # 0 THEN "stored" ELSE "disconnected"
  /\ agentToken' = 0
  /\ task' = "none" /\ heartbeats' = FALSE
  /\ resuming' = 0 /\ glance' = [t \in Threads |-> 0] /\ channel' = 0
  /\ actual' = {} /\ links' = {} /\ serial' = NoSn /\ ready' = FALSE
  /\ threads' = [main |-> Free("posted"), msdk |-> Free("idle")]
  /\ waiting' = 0 /\ reply' = "none"
  /\ UNCHANGED <<now, exp, owner, net, unpairs>>

===============================================================================
