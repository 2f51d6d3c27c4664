-------------------------------- MODULE WebShell --------------------------------
(***************************************************************************)
(* What surrounds every page of the web client: Fh2Provider, which loads   *)
(* the runtime of FlightHub 2 once, and DjiPilotBridgeProvider, which      *)
(* reads the bridge of DJI Pilot 2 every two seconds when the client runs  *)
(* in Pilot's web view.  The bridge itself is external; its calls answer   *)
(* at once.                                                                *)
(***************************************************************************)
EXTENDS Budget

CONSTANTS
  Pairs,  \* a remote controller with its aircraft
  NoPair

ASSUME ShellAssumption == NoPair \notin Pairs

VARIABLES
  fh2,     \* the state of Fh2Provider: "loading", "ready" or "error"
  bridge,  \* window.djiBridge
  pilot,   \* the provider's state and the identities of its snapshot
  topology \* the backend's gateways with their devices

shellVars == <<fh2, bridge, pilot, topology>>

Bridges ==
  [present: BOOLEAN,               \* is there a bridge
   fails: BOOLEAN,                 \* do calls answer with an error
   verified: BOOLEAN,              \* the licence
   pair: Pairs \cup {NoPair},      \* the serial numbers, NoPair unless both are known
   loaded: SUBSET {"thing", "api", "mission"},  \* Pilot's modules
   link: BOOLEAN]                  \* is the thing module connected to the broker

NoBridge == [present |-> FALSE, fails |-> FALSE, verified |-> FALSE, pair |-> NoPair, loaded |-> {}, link |-> FALSE]

NoSnapshot(state) == [state |-> state, pair |-> NoPair]

ShellInit ==
  /\ fh2 = "loading" /\ bridge = NoBridge /\ pilot = NoSnapshot("unavailable") /\ topology = {}

\* paas.js is loaded, the token validated and FH2 initialised, or one of them fails,
\* for good.
RuntimeLoads ==
  /\ fh2 = "loading" /\ Spend("runtime")
  /\ fh2' \in {"ready", "error"}
  /\ UNCHANGED <<bridge, pilot, topology>>

\* Pilot starts the web view, or an identity or the licence changes.
BridgeChanges ==
  /\ Spend("pilot")
  /\ \E b \in Bridges :
       /\ b # bridge /\ (~b.present => b = NoBridge)
       /\ b.loaded = bridge.loaded /\ b.link = bridge.link
       /\ bridge' = b
  /\ UNCHANGED <<fh2, pilot, topology>>

\* readSnapshot reads the identities of a verified bridge only.
Snapshot ==
  CASE ~bridge.present -> NoSnapshot("unavailable")
    [] bridge.present /\ bridge.fails -> NoSnapshot("error")
    [] bridge.present /\ ~bridge.fails /\ ~bridge.verified -> NoSnapshot("unverified")
    [] OTHER -> [state |-> "ready", pair |-> bridge.pair]

\* refresh, by the interval
ReadBridge ==
  /\ pilot # Snapshot
  /\ pilot' = Snapshot
  /\ UNCHANGED <<fh2, bridge, topology, left>>

TopologyChanges(pairs) ==
  /\ pairs # topology /\ Spend("topology")
  /\ topology' = pairs
  /\ UNCHANGED <<fh2, bridge, pilot>>

ShellStep ==
  RuntimeLoads \/ BridgeChanges \/ ReadBridge \/ \E pairs \in SUBSET Pairs : TopologyChanges(pairs)

===============================================================================
