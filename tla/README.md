# FH-Clone: a TLA+ verification project

FH-Clone is a ground station for DJI aircraft: a Node.js backend (`apps/control-api`
with the adapters under `packages/`), a web client, and an Android app on the DJI
remote controller (RC). This directory holds TLA+ models of the parts that decide
who flies the aircraft, what is written down and what the operator is shown, TLC
configurations that check them on small instances, and proofs of their invariants.

## 1. The system

Two independent control paths lead from the backend to an aircraft:

* **DJI Cloud / DRC.** The backend talks MQTT to the RC. A pilot's consent gives it the
  *flight authority*; `drc_mode_enter` opens a *DRC session* whose stick frames go over a
  second MQTT connection. The session is guarded by FC3 (an approval flag), a control
  lease, the aircraft's capability, the DJI authority and a dead-man timer.
* **MSDK.** An agent in the app on the RC holds a WebSocket to the backend's control
  hub. A control session enables the DJI SDK's virtual stick; frames go down the socket
  and expire; the agent has its own dead-man.

Beside them the backend persists telemetry, missions and the device topology through
in-memory retry queues in front of PostgreSQL/Timescale.

| Component | State | Operations | Interaction | Hard part | Correct when |
|---|---|---|---|---|---|
| DRC session manager (`drc-session.ts`, `drc.ts`) | session record, watchdog timers, heartbeat, FIFO of frames | request ... activate, sends, close, force close, tick, reevaluate, shutdown | called by coordinator, index.ts hooks, timers; publishes to the broker | calls suspended at a publish or service reply while others run | dead-man armed in control; neutral is last; closed stays closed; drains end |
| Authority (`cloud-authority.ts`, `pilot-authority.ts`) | registry status, waiters, pending request | request, release, apply event / state | MQTT events and replies from the RC | five things race: reply, its timer, event, state frame, consent timer | every request ends; pending iff awaited; a stale grant is corrected |
| Service calls (`index.ts`) | pending map by transaction id | request, reply, timeout, stop | MQTT | late, lost, mismatched replies | each call settles once, with its own reply |
| Coordinator (`control-coordinator.ts`) | runtime credentials | start, stop, recover transport | drives the three above and the transport | overlapping start/stop, cleanup after partial failure | no session without authority, nothing left behind |
| DRC transport (`drc-transport.ts`) | client, connected, generation | connect, disconnect, publish | coordinator, session manager (loss hook) | superseded clients | events of an old client are ignored |
| MSDK hub (`msdk-control.ts`, `-ws.ts`) | peers, sessions | register, unregister, open, stick, close, tick, agent messages | WebSocket to the agent | replaced sockets, late messages | a session stays on its socket; closed is final |
| RC agent (`MsdkControlClient.kt` and three more) | socket, session id, arm switch, control session, virtual stick | connect, handlers, dead-man, SDK callbacks | four threads | check-then-post races | moved sticks are under a dead-man; authority is returned |
| Retry queue (`retry-queue.ts`) | backlog, active item | enqueue, kick, flush, shutdown | telemetry, mission, topology, audit writers | ambiguous failures, full queue, shutdown | order kept, nothing lost unaccounted |
| Mission tracker and store | active mission per device; `missions` rows | observe, sweep, end; open, close, recover | adapter messages, retry queue | restart while writes are queued | at most one open row per device |
| Topology registry and store | gateways, device owner; tables | apply, save, list | adapter, retry queue | devices that move, dropped snapshots | tables converge to the registry |
| MSDK pairing (`msdk-bridge.ts`, `msdk-token-revocations.ts`; `Fh2BridgeClient.kt`, `SecurePairingStore.kt`) | agent records, revocations; stored pairing, executor, serial numbers | pair, heartbeat, unpair, upgrade; resume, expire | HTTP, control socket | unpair against heartbeats on their way; crash between insert and memory; sources on two threads that trigger a resume and write over each other | a revoked token stays out; a stored pairing is resumed |
| Broker authorisation (`authz.ts`, `authn.ts`, `authz-audit.ts`) | the audit buffer | decisions per publish/subscribe; flush | EMQX hooks; topology; sessions | decisions on stale state; failing inserts | DRC topics only during a session; records accounted for |
| RC app around the agent (`MediaLibraryController.kt`, `CameraGimbalController.kt`, `WaylineMissionController.kt`, `DjiSdkRuntime.kt`, `MsdkKeyManagerRuntime.kt`, `MapActivity.kt`, `VideoActivity.kt`) | snapshots, open files, listened keys, map and surfaces | start/stop, downloads, nudges, uploads, SDK callbacks, screens | MSDK callbacks, UI thread | answers that come after a stop, screens that overlap | files whole; the gimbal comes to rest; everything connected is listened to |
| Media (`media-store.ts`, `media-overlay.ts`, the ingest routes) | table, registry in memory | ingest, list, rehydrate | HTTP; PostgreSQL | overlapping requests that await the store; a restart between commit and answer | the overlay shows nothing a restart would take away |
| RTK live state (`rtk-service.ts`, `useRtkLive.ts`) | last status and fix per aircraft; the console's copy, history and alerts | observe, stream; snapshot and event handlers | event stream to the browser | streams that are cut, backends that restart | the copy equals the original while the stream lasts |
| Web console (`Fh2OverlayController.tsx`, `overlays.ts`, `Fh2Workspace.tsx`, `Fh2Views.tsx`) | React state, producers, entities of the map's viewer, loaded FH2 components | polls, renders with their effects, selection | the API, FlightHub 2's runtime | answers after their effect was cleaned up; effects that act on what their render saw | layers and cockpit follow what the page knows; nothing stays behind |
| Pilot 2 pages (`PilotCloudBootstrap.tsx`, `PilotJsbridgeEvidence.tsx`, `pilot2-evidence.ts`) | stage, loaded modules, evidence | connect, load the library, capture | DJI Pilot's bridge and its callback | the callback races the wait | the page shows the link that Pilot has |
| Normalisers, parsers, wayline services, scripts | - | - | - | data mapping | not modelled |

`PROJECT.json` lists every component with its files and status, and every hazard with
the line where it bites and the properties that would catch it.

## 2. What is modelled

Every module names the code behind its definitions in `PROJECT.json` ("map").

### `DrcSession` - one gateway's DRC session

The backend is single-threaded, and the session store is in memory: an `await` on it is
resolved by a microtask, so no other handler runs in between and it is part of the same
action. An `await` on a publish or a service reply is a real suspension, and the call
goes on in an action of its own with **the record it read before**. Thus
`sendStick`/`sendDroneControl` is `Send` and `InputPublished` (or `InputRejected`), and
`closeGracefully` is `CloseGracefully`, `NeutralSettles`, `ExitSettles`.

| Variable | Code |
|---|---|
| `rec` | the stored `DrcSessionRecord`: number, state, transportConnected, lastControlMethod |
| `timer`, `heartbeat` | the watchdog's and the controller's `setInterval` |
| `queue` | `DrcController.runExclusive`: one frame at a time, in order |
| `closer` | suspended `closeGracefully` calls, with who awaits them (caller, watchdog, shutdown) |
| `silence` | the age of the last input in watchdog intervals |
| `guards` | what `getDrcGuards` would answer, changing at any time |
| `staleWrite` | history: a suspended call has overwritten a record that is not the one it read |

**Stale writes.** The code saves the record it read before the await. That overwrites
whatever another call stored meanwhile, and no safety property survives it: see the
finding `drc_session_table`. `staleWrite` records that it happened; what is said under
`~staleWrite` ends there. `NeutralMatchesLastFrame` goes on, so the search does too: the
constraint `AfterStaleWrite` then keeps it to satisfied guards, no silence and the first session.
`crossed` records the close whose neutral frame waits behind a frame of the other method (section 4).

Left out: the broker's `drc_status`, the 24 h expiry of a record, `health` (it follows the
state), the holder. Several gateways, and what they share, are the subject of `DrcControl`.

### `CloudAuthority` - the pilot's consent

The registry's `status`, the request (`phase`, `waiter`), service calls as messages to
the RC with replies matched by number, and one FIFO of events and state frames from the
RC. The RC, the pilot and the broker are external: the popup may be answered at any time
or never, the pilot may take control back, replies and frames get lost. The two timers
are not ordered because their durations are configurable.

### `MsdkLink`, `MsdkHub`, `MsdkAgent`, `MsdkControl` - the MSDK path

`MsdkHub` is the backend: each handler is synchronous and so is one action. `MsdkAgent`
is the app: a reader thread per socket, the main thread with its queue of posted
runnables, the SDK's callbacks, and the thread that connects, disconnects and disarms. A
reader's check of the current socket, its handler and its post to the main thread are
three steps, and so is the check of a new session apart from its storing (`Admit`), because
another thread can run between them. The SDK's disable may fail. `MsdkLink` is the network: it
delivers in order until it is cut, and each side hears of the end in its own time.
`MsdkControl` joins them and states the properties.

The hub's guards and timers are nondeterministic: a guard may fail and a timer may fire
at any moment. A frame's sequence number and expiry are a nondeterministic refusal.
There is one aircraft and one holder. The bounds of a behaviour (`limit`) are chosen at its
start, so that one run holds both behaviours with two sessions and behaviours with a reconnect.

### `RetryQueue` and `AtLeastOnceFifo`

`RetryQueue` has the three drop policies, failures before and after the write took
effect, and shutdown at any moment. `AtLeastOnceFifo` is what its callers rely on;
`RetryQueue` is checked and proved to implement it.

### `Missions` - automatic flight missions

The tracker (`mission-session.ts`: which aircraft fly, and since when a standby or a loss
of the aircraft lasts), the queued writes, the rows of the `missions` table, and the
service's life: boot, DJI ingest, shutdown in its order, crash and restart. A crash
forgets the tracker and the queue and keeps the rows. Time is discrete; grace periods and
timeouts are constants. A queued write is executed with the clock of that moment, which
matters for the recovery, whose end time is evaluated then. The queue retries its head
until it succeeds, which is what `RetryQueue` shows of the retain-all policy.

### `TelemetryWrites` - the telemetry table

`ingestParameterSample` updates the parameter registry and enqueues the sample together with the
one that is current for its key then: the newest of the adapters' latest ones, equal instants
decided by quality and adapter id (`latest`, `Selected`, `shown`). The history gets the sample, the
telemetry table the current one, at its own instant. A sample that is older than its adapter's
latest, or outranked by another adapter's, therefore leaves no row at its own instant, and the
properties speak of the projection. Values are named by the write that stored them.

A write is up to three statements with an `await` between them: history rows, the update
of the row of that mission and instant, its insert. A statement may fail before or after
its effect, and the write is repeated from its first one. The insert has a foreign key to
the mission's row, which the mission queue writes in its own time. History rows that a
repetition appends again stand for one, since a write that waits for its mission appends
one per retry. The shutdown is modelled in its order: adapters, mission queue, telemetry.

### `Topology` - gateways and their devices

The registry of `topology.ts`, the devices the adapter shows as connected, the disabled
docks, the drop-oldest queue of whole snapshots and the `dji_gateway_devices` rows a saved
snapshot changes. The callbacks of an `update_topo` are synchronous, so a message is one
action. A transaction may fail after it committed, and is then repeated.

### `DrcBroker`, `DrcCoordinator`, `DrcControl` - starting and stopping across gateways

`DrcCoordinator` takes `start`, `stop` and `recoverTransport` apart at every `await` on a
service, the transport or a publish. A call is a record in `calls` with the place (`at`) it
waits at; between two places any other call, event or timer may run. Everything the code keys
by gateway (session record, runtime) or keeps once (transport, heartbeat) is shared here as
well, so calls act on records they did not create. Sessions are reduced to what these calls
tell apart; `DrcSession` has their inside. `DrcBroker` has the decision the broker asks for on
each publish and subscribe, as operators on topology, user and session, and the audit buffer
with its batches. `DrcControl` joins them with the frames on the wire: a frame is decided when
the broker sees it, and delivered later. Two fields are history only: `stale`, as in
`DrcSession`, and a call's `back`, set when the lease returns to the call's operator after it was
with somebody else or nobody. The guards cannot tell that case from a lease that was never lost.

### `PairingLink`, `PairingServer`, `PairingAgent`, `Pairing` - pairing an RC

`PairingServer`: the routes for pairing, heartbeat, unpairing and the upgrade of the control
socket, the agents' records, the revocations in memory and in the table. The revocation's
insert is awaited, so a crash, another request or a failure fits between it and the memory.
`PairingAgent`: `Fh2BridgeClient` on its single-threaded executor, the stored pairing, and the
sources whose changes call `tryResume`, on the main thread (the start of the runtime) and the
one of DJI's callbacks. `actual` is what is connected, `links`, `serial` and `ready` what the
snapshots say of it. An update of the SDK's or of the aircraft's snapshot is a read (`Updates...`)
and a write (`Writes...`), so one thread may undo what the other has written, `ready`
included, and `tryResume` decides (`ResumeDecides`) on what it has read before.
`HandlerFails` is what a component or a handler throws. A repeated registration and callbacks
that change neither link nor serial number are left out; `RcKeys` has the SDK's.
`PairingLink`: calls that are lost, answered late, or carried out after the caller gave up.
Tokens are numbers with an expiry; time is one step past it.

### `Budget`, `RcUi`, `RcMedia`, `RcPayload`, `RcKeys`, `RcScreens`, `RcApp` - the rest of the app

The controllers share nothing but the UI thread (`RcUi`), so `RcApp` interleaves them and each
spends a budget of its own (`left`, in `Budget`). `RcMedia`: the media library and the
activities that use it, with one `activeOutput` for all downloads. `RcPayload`: gimbal nudges
with their posted stops, and the wayline upload. `RcKeys`: the SDK's life cycle and the key
inventory it drives, on the main thread and the one of the MSDK's callbacks.
`DjiSdkRuntime.update` is a read (`UpdateReads`) and a write (`UpdateWrites`), so an update of
one thread may be lost to the other; `HandlerFails` is what a component, a refresh or
`tryResume` throws, at any point of the handler. `runtime.product` is what the MSDK last called
back, which the snapshot may have lost. `RcScreens`: the map (style, markers, flight path) and the
video screen (surfaces, selected camera), with the runnables posted to them.

### `MediaIngest`, `RtkLive` - what the backend keeps for the console

`MediaIngest`: a request is numbered and writes its number, so that an overwritten or lost
value shows. The store commits or rolls back while the request waits, or after the process has
ended; the registry is updated when the answer has come and is filled from the table at the
start. `RtkLive`: `RtkTelemetryService`, the bytes on the stream, and the state of the hook.
Snapshot and subscription are one step because `openEventStream` does not await. The browser
opens a cut stream again by itself; it does not when the proxy answers 502.

### `WebShell`, `WebOverlays`, `WebWorkspace`, `PilotPages`, `Clients` - the web client

`WebShell` is what surrounds every page: the state of `Fh2Provider`, and the bridge of DJI
Pilot 2 as `DjiPilotBridgeProvider` reads it. A React render and the effects whose inputs
changed are one step (`Commit`, `RenderDesk`), which acts on what *that render* saw; state an
effect sets is seen by the next one. `drawn` and `seen` hold what the last render saw, and
"settled" is the state in which a render would change nothing.

| Variable | Code |
|---|---|
| `page`, `desk`, `site` | the React state of the layers, the workspace and the Pilot page, with the number of the mount |
| `producers`, `ids`, `entities` | the map of `overlays.ts`; the bridge's ids; the entities of each Cesium viewer |
| `requests`, `polls`, `captures` | fetches that are not answered, with the mount or effect they belong to |
| `native` | components of FlightHub 2 that were loaded and not destroyed |
| `callback`, `notices` | `window.fh2ThingConnectCallback`: the mount that installed it; calls Pilot has made |

`WebOverlays` joins the layers with `RtkLive`; `WebWorkspace` has the selection and the loaded
component. In the code the workspace contains the layers and both read one topology; the
models keep them apart, each with the topology as an input that changes at any time, since
neither reads anything of the other. `PilotPages` are the pages that Pilot's web view
opens. `Clients` joins all of these with the app; `App` shows the console or a Pilot page.

## 3. Runs

| Run | Module | Bounds | Shows |
|---|---|---|---|
| `drc_session` | `MCDrcSession` | 2 sessions, 2 frames, 2 suspended closes, both control methods | the dead-man is armed in control; the neutral frame is the last one, and fits unless it was crossed |
| `drc_session_live` | `MCDrcSession` | 1 session, 1 frame, 2 suspended closes | drains end; silence closes |
| `drc_session_table` | `MCDrcSession` | 1 session | **violation**: a suspended send undoes a drain |
| `drc_control` | `MCDrcControl` | 2 gateways, 2 holders, 2 calls at a time; seven budgets of up to 3 calls with sends, faults, lease and guard changes, questions; audit buffer of 2 | one open session; nothing reaches a stopped gateway; who is cut off ends; audit accounted for |
| `cloud_authority` | `CloudAuthority` | 3 calls, 3 messages on the way | requests end; stale grants corrected |
| `msdk_control` | `MCMsdkControl` | 1 socket and 2 sessions, or 2 sockets and 1 session; 2 sticks on the way, 1 posted by readers | moved sticks; hub and agent agree; a closed session ends the agent's |
| `pairing` | `MCPairing` | 2 aircraft, 2 tokens, 2 calls on the way; the same aircraft connected first (the other is like it); eight budgets of up to 3 tasks and 2 faults, most with an expiry | unpaired is final; a pairing is cleared only when its token is refused; a stored pairing is resumed |
| `clients` | `MCClients` | thirteen budgets, one for each part and for parts that meet: 5 media steps on 2 files of 2 chunks, 4 gimbal, 5 wayline, 5 product with a late answer, 5 map, 5 video; 4 ingests of 2 assets, 5 RTK; layers with changing aircraft, runtime and viewers; the workspace with topology, runtime and Pilot; 5 on the Pilot pages | saved files are whole; the gimbal rests; keys are listened to; the map catches up; what is served is stored; the console's copy, layers, selection and link are current |
| `retry_queue` | `RetryQueue` | capacities 1 and 2, 5 items, 2 failures | accounting, order, refinement |
| `missions` | `Missions` | 1 aircraft, 3 missions, 5 time steps, 2 runs, 2 failures | missions follow one another; the rows agree with the tracker; the recovery spares its own run |
| `telemetry_writes` | `MCTelemetryWrites` | 1 mission, 2 instants, 2 columns, 2 adapters, 2 qualities; 3 of 9 kinds of sample, capacity 2, 1 failure | one row per instant; newer values stay; acknowledged ones are stored; samples settle |
| `topology` | `Topology` | 2 gateways, 1 dock, 2 aircraft, capacity 2, 3 updates, 1 failure | an owner reports its devices; the inventory follows |

A module `MC...` gives the constants values that a .cfg cannot write; where a .cfg can, the run
names the module itself. A type invariant is part of the proofs where there are proofs (section 5).

**Why the bounds are enough.** A session interferes with the next one, so two sessions
are needed and a third adds nothing new: every record compared is the stored one or the
one a call read. Two frames give a neutral frame with one frame before it. Two closing
calls give a watchdog or shutdown close beside an operator's. For the authority, three
calls are a request, a release and the next request. On the MSDK path the old and the
new socket (or session) are the two that can be confused, and never both at once: a new
socket ends the session. Two gateways and three calls give a start, a stop and the next start,
of the same or of the other gateway; each budget adds one kind of disturbance, because the
product of all of them adds length and no new pair. For pairing, an old and a new token, and a
call that is late beside the one that is waited for. In the clients the parts meet in
few places, so each behaviour spends the budget of one part or of those that meet: two viewers
are an old and a new one, two pairs the selected and another, two mounts the one left and its
successor, and two assets a batch. Missions of different aircraft
share only the queue, so one aircraft with a mission before and two after a restart shows
every interference; two runs give one recovery that a crash, or a shutdown that gives up,
makes necessary. For telemetry three samples are one being written, one waiting and one that
displaces it or comes later for the same column. For the topology two gateways are the old
and the new owner of an aircraft, and three snapshots overflow a queue of two.

**Deadlock** checking is off where the system may rightly stop: all sessions and sockets
of the bound are used up, or a queue is empty and shut down.

**Fairness.** DRC: a publish settles (the broker client calls back or errors), a service
call ends in a reply or its timeout, intervals keep firing. Authority: both timers fire;
nothing is assumed of the RC or the pilot. MSDK: the agent's main thread, its watchdog,
its clock and the SDK go on; nothing is assumed of the network, hub, pilot or operator.
Telemetry: the database answers, the mission queue gets through and the shutdown goes on to
its next step. Coordinator: a call goes on when what it awaits has settled (every `await`
there has a timeout or is local), and the watchdog's interval fires while the transport is
down. Pairing: the executor and the two threads run; nothing is assumed of the backend, the
network or DJI's callbacks. Missions, topology, the retry queue and the clients state no liveness: what a client
must reach is stated of the states in which nothing is left to do (nothing pending, nothing to
render). `GimbalRests` is of that kind: the commands and posted stops of a behaviour run out, so
"at rest whenever nothing is pending" is what "comes to rest" means there.

## 4. Findings

* `drc_session_table`: `sendStick` and `sendDroneControl` save a record read before an
  await and put a draining or closed session back in control.

Noticed while modelling, without a run of its own:

DRC session and authority
* `drc-session.ts:554`: the close takes the method of the neutral frame from the record it read. A
  frame of the other method that is in flight then goes out first and the neutral frame behind it
  is of the wrong method: sticks at rest after a drone command, or the other way round.
  `NeutralMatchesLastFrame` says that there is no other way to get the wrong one.
* `drc-session.ts:374`: a session whose transport is lost for good is never closed by the
  dead-man, which `markTransportLost` has stopped; `docs/DRC.md:322` names no exception.
* `cloud-authority.ts:139`: a state frame that says the flight authority is held settles a
  pending request, though `docs/DRC.md:138` names only the `ok` event as consent.

Coordinator, transport and broker
* The record is set to draining before the neutral frame is sent, and `isDrcGatewayActive`
  then says no: the broker ignores the neutral frame, which `docs/DRC.md:346` lists among
  the steps of an orderly end. The heartbeats and the gateway's own subscription before control are
  refused likewise, and the subscription is not asked for again.
* `control-coordinator.ts:163`: the stop of any gateway, also of one without a session,
  disconnects the shared transport without the loss hook; the record of the other gateway says
  `transportConnected` until its watchdog closes it.
* `control-coordinator.ts:97`: a start that waits for `drc_mode_enter` while the gateway is
  stopped and started again takes over the newer session (ids are not compared), and the
  cleanup of one that fails closes the other's. `HolderActivates` says what still holds.
* After a dead-man, a `forceClose` or a late consent the authority stays held, and the next
  start is refused until somebody stops. A late answer of `drc_mode_enter` is followed by no exit.
* `drc-transport.ts:117`: a connect never settles when a disconnect removes its listeners; a
  superseded client is not ended.
* `reevaluateGuards`, `recoverTransport`, `acquireLease`, `setFc3` and the coordinator's `start`
  and `stop` have no caller outside tests.

MSDK path and pairing
* `MsdkControlClient.kt:279`: the enable is posted after the session was stored; a disarm or a
  socket loss in between posts its stop first, and the virtual stick stays enabled with no
  session, though `android/fh2-rc-bridge/README.md:356` promises the release of the authority.
* `MsdkControlClient.kt:397`: a frame that passed its checks on the old socket's reader
  thread may be posted behind the start of the next session and moves the sticks under it.
* `MainActivity.kt:186`: the button that unpairs is enabled only while the status is "paired",
  so the retry after `unpair_failed` which the app's README (290) describes is not possible.
* Pairing again does not revoke the old token, which stays valid until it expires. A resume that
  decides on what it read may clear or overwrite a pairing made meanwhile. A snapshot without a
  serial number is refused before its token is looked at, so a dead token is kept as long.
* `Fh2BridgeClient.kt:77`: `tryResume` goes by snapshots that may have lost a connection: a product
  connect to the write of `runtimeReady` (`DjiSdkRuntime.kt:234`) or the other way round, an aircraft
  connect to `hydrateCurrentState` (`AircraftTelemetrySource.kt:106`). The stored pairing then is not
  resumed before the product or the aircraft connects again, though the app's README (384) says it
  must resume by itself. `ResumesWhenConnected` is stated of what the snapshots say.

Persistence
* `index.ts:167`: the recovery of open missions is queued but not awaited before DJI ingest,
  which `apps/control-api/README.md:279` puts after it; and `mission-store.ts:112` takes the
  time of the database call as the end, not the documented start of the process.
* `index.ts:1456`: what goes to the telemetry table is the current sample of the key, not the one
  that came. A late sample of one adapter leaves no row of its own, and a current sample from before
  the mission is written under the mission when the next one of its key is older or outranked.
* `index.ts:1702`: the topology queue drops the oldest snapshot of all gateways, which may be
  the last one of its gateway; the inventory then stays behind.

RC app
* `MediaLibraryController.kt:219`: a download's callbacks write to whatever `activeOutput` is by
  then: those of a stopped download reach the next one's file, or report and delete it.
  `SavedIsWhole` says what still holds. A late enable after `stop` leaves the library enabled,
  and the `onDestroy` of an old screen stops the library its successor uses.
* `WaylineMissionController.kt:33`: an import is not blocked while an upload runs and may
  overwrite the file being sent; an exception from the push leaves `uploading` set for ever.
* `CameraGimbalController.kt`: a stop that fails leaves the gimbal turning; `stop` has no caller.
* `DjiSdkRuntime.kt:234`: `update` reads and writes the snapshot without a lock, on two threads.
  A connect that meets the write of `runtimeReady` may be lost, and the keys are listened to only
  after the product connects again. A connect whose own write comes
  last takes `runtimeReady` back, which stays away until the next registration. A disconnect that is
  lost leaves "connected" in the snapshot and no listener. A callback that only changes the product's
  id may write "ready" back over the report of a failure; `ConnectedIsHeard` excludes that
  (`revived`) until the next refresh, and is stated of a product that is connected.
* `MsdkKeyManagerRuntime.kt`: a disconnect that arrives before the runtime is ready is skipped,
  and a late `getValue` marks keys of the previous product.
* `MapActivity.kt`: positions that were queued when the style came are drawn after newer ones.

Media, RTK and the web console
* `index.ts:1047`, `1086`: two ingests of one asset that overlap may reach the table in one order
  and the registry in the other; the overlay then differs from the table until a restart.
  `ServedIsStored` says what holds nevertheless. A rehydration that fails (`index.ts:220`) leaves
  the overlay empty until the assets are sent again, or the next start.
* `useRtkLive.ts:96`: a status without a mission keeps the mission shown before, so the console
  shows a mission that has ended until the next snapshot.
* Alerts that fall into a disconnected moment are not fetched, though `GET /api/rtk/transitions`
  has them; an `EventSource` to which the proxy answers 502 stays closed until the page is
  mounted again.
* `Fh2Workspace.tsx:175`: an automatic selection that has left the topology stays selected; an
  operator's pick that is missing from one poll is given up for the automatic one, and does not
  come back, so the cockpit changes to another aircraft.
* `PilotCloudBootstrap.tsx:116`: the page asks for the link when it is mounted but installs its
  callback only in `connect`: after it was left and opened again it shows the link of that moment.
  `LinkIsShown` is stated for the mount that has connected.
* `Fh2Provider.tsx:45`: a load that failed is not tried again before the page is loaded anew.

## 5. Proofs

Each theorem holds for every value of the constants that the named assumptions of its
module admit; TLC evaluates these on each run.

`DrcSessionProofs`: `TypeOK`, `DeadManArmed`, `HeartbeatOnlyInSession` and the action
properties `NoResurrection`, `NothingAfterNeutral` and `NeutralMatchesLastFrame`, for every set
of calls, every bound and every pair of deadlines.
None of them is inductive alone. The invariant `IInv` adds what the suspended calls
remember: a queued input frame was sent by a session in a state that accepts input, at
most the current one; a closing call's record is a draining one of a session not newer
than the stored one; at most one neutral frame per closing call is in the queue; while a
session is in control and no stale write happened, no closing call belongs to it. There
is one lemma per action, and the theorems follow from `Init => IInv`, `IInv /\ [Next]_vars
=> IInv'` and `IInv => ...`. `NothingAfterNeutral` needs no more than that: a session whose neutral
frame is out is draining or over, and then only a stale write publishes. `NeutralMatchesLastFrame`
needs `MethodInv` beside it, which holds through stale writes: the record of a session in control
has the method of the session's last frame, and a neutral frame that waits has it or is crossed.

`PersistenceProofs`, on the retry queue: `TypeOK`, `Accounting`, `PolicyKept` and the refinement
`IsAtLeastOnceFifo`, for any capacities and any number of items and faults. `Accounting` is
inductive because it says that the backlog is sorted: lemmas about appending to, dropping
from and taking the tail of a sorted sequence say what becomes of its elements. The
refinement needs only that an item in flight exists: each action is an action of the
abstract queue (`Shutdown` begins a drain, a refusal stutters).

`ControlAuthorityProofs`, on the pilot's consent: `TypeOK`, `PendingIsAwaited` (inductive with the types), the action
property `FrameIsNoDenial` (from both: whoever waits, waits for a pending consent) and
`StaleGrantIsCorrected`. The last needs the invariant that every grant on the way which
the RC has since taken back is followed by a "no_flight" frame (`Followed`): without it a
late grant could arrive last.

`ControlAuthorityProofs`, on the MSDK path: `MsdkTypeOK`, `MovedUnderDeadMan` and
`SessionMeetsAgent`, for any number of sockets and sessions. `MovedUnderDeadMan` is inductive by
itself: the steps that end a control session (the stop on the main thread, the local watchdog)
put the sticks back in the same step, and a frame moves them only while one runs. `SessionMeetsAgent`
is not: an open session is active only once the agent has announced it because
every `session_ready` on its way up is of an announced session (`ReadyIsAnnounced`), also on a
socket that was replaced, and because an open session has a number (`OpenIsNumbered`). What may
happen to the messages of a socket are two lemmas, one for a queue that grows (`QueueUp`) and
one for a queue that shrinks or is cut (`QueueShrinks`).

`PersistenceProofs`, on the topology: `TopologyTypeOK`, `OwnerReports` (inductive with the types), the action property
`MovedStays`, and `InventoryFollows`. The last speaks of what the queue *leads to*, so its proof
is one lemma for each thing that can happen to a queue: the head is saved and removed
(`SaveLeads`: nothing changes in what the queue leads to), saved and kept (`RepeatLeads`, the
transaction that committed and failed), and a snapshot is appended (`AppendLeads`). `EndsListed`
is therefore not a fold over the queue but its closed form: the table or a queued snapshot lists
the device and nothing behind it takes the device away.

`TelemetryWritesProofs`: `OneRowPerInstant`, `NewestWins`, `AcknowledgedIsStored` and
`CleanShutdown`. The invariant says that the queue is in the order of arrival and younger than
all that was acknowledged or appended (`OrderInv`); that an insert follows an update which found no row,
and nothing comes in between (`StepInv`: this makes the repeated insert harmless);
that no value in the table is newer than the sample being written (`ValueInv`: a
repetition brings back nothing); that every sample has a projection sample (`ShownInv`); and that a sample's mission is in the table or on its
way while nothing has failed (`MissionInv`).

`MissionsProofs`: `MissionsFollow`, `RecoverySparesThisRun`, `HistoryAgrees` and
`NotAirborneAfterEnd`. The invariant is a relation `StoreInv(r, q)` between a table and a queue,
because an executed write that was not acknowledged is in both: executing the head changes `r`,
the acknowledgement only `q`, and each is a lemma of its own. It says where a row can come from
(`OpenInv`, `CloseInv`, `RecoverInv`: the recovery is the first write or none, and what it finds
is of earlier runs), that the rows end before the next ones begin (`FollowInv`), and that the
tracker's missions are exactly those left open (`TrackerInv`, stated by the closed form of
"after the queue", `EndsOpen`). `FlightInv` bounds the tracker's marks by the last moment in the
air, which is what the end will be.

`PairingProofs`: `TypeOK`, `UnpairIsFinal`, `RevokedLeavesNothing` and the action property
`ClearedIsRefused`. A token is refused because it is in memory, and in memory after a restart
because it is in the table; `Refused` says of every token that was ever refused which of the two
holds when, and `RevocationsLast` that a handler past its insert finds the row. On the RC's side
`CallsMatch` and `AnswersHold` relate the answer that has come back to the call it answers, by
its number: without them a late heartbeat's answer could settle an unpairing.

`DrcControlProofs`: `TypeOK`, `OneSession`, `HolderActivates`, `NothingAfterStop` and
`AuditAccounted`, for any number of gateways, operators, suspended calls and lease changes. A
suspended call knows its session only by number (`NumberInv`: no call knows a number to
come); a neutral frame in the queue belongs to a call that waits for it (`NeutralInv`); a stop
past its close has a session that is over, and it stays over (`StopInv`); and while a start's
operator holds the lease that it began with, what is being set up on its gateway is that operator's
(`HolderInv`). `AuditAccounted` is inductive with the order of the record numbers: stored before
being written before waiting, so that no record is counted twice.

`ClientsProofs`: the nine invariants of the run `clients`, for any budgets, files, keys, assets,
aircraft, viewers, places and pages. They are theorems of the whole of `Clients`, but each has an
inductive invariant about its own part, and the other parts' steps leave those variables alone.

| Property | What makes it inductive |
|---|---|
| `GimbalRests` | while the gimbal turns unwarned something is pending that will stop it or warn: a stop that is posted or sent, a nudge whose answer posts one, a failed stop's answer (`RestIsPending`) |
| `SavedIsWhole` | an undisturbed pull is the only one, the library's own, and the file is the pieces it has got so far (`PullIsClean`); no pull runs while a file is called saved (`SavedIsQuiet`) |
| `ConnectedIsHeard` | every key is listened to or promised by a thread (`PromisedBy`): it has a connect or the runtime's start to write, a failure to report, the product to look at, a refresh before it, or the key before it in one; a key read as disconnected is promised by nobody, so another thread must. A callback that writes back what it read changes nothing, or sets `revived`, or the runtime is not ready |
| `MapCatchesUp` | the last runnable that waits for a source carries its position (`SourceFollowed`), and none was posted for an instance still to be opened (`PostedOk`); a map without a style has no path |
| `ServedIsStored` | earlier requests for an asset that a request has to itself are over (`AloneIsLast`), so its row is its own (`OwnRows`) |
| `ConsoleIsCurrent` | the wire explains the difference: behind the snapshot, the last status of an aircraft is the one the service knows, and an aircraft without one is as in the snapshot (`Behind`, `Explains`) |
| `LayersFollow` | the bridge and the producers hold what the *last render* saw (`BridgeFollows`, `ProducersFollow`); settled means that a render now would see the same |
| `WorkspaceFollows` | the selection is what the last render's effects made of it, or a pair picked since from that render (`SelectionFollows`); what is loaded is that render's component (`NativeFollows`) |
| `LinkIsShown` | the last call of the callback that Pilot has made tells of the link as it is (`NoticesFollow`) |

What was hard in these proofs is the queue between two threads or processes (the UI thread's, the
event stream, the callbacks): the invariant has to speak of its *last* relevant element, and
a lemma says what becomes of it when an element is appended and when the head is taken
(`ExplainsStatus`, `ExplainsHeard`, `MovedStep`, `RunStep`).

**What the attempts at a proof changed.** Two properties of `DrcControl` that the run had passed
could not be proved, and TLC found each violated under a larger budget. `HolderActivates`
failed when the lease goes from one operator to nobody, to a second one and back while the
first one's start is suspended: the start then activates the second operator's session. It
needs four lease changes and three calls, more than the run's budgets. The property now
excepts a start whose lease came `back`. `NothingAfterStop` failed when a frame queued before a stop reopens
the stopped session by a stale write and the authority is granted again; it is now stated until a stale
write, as the other two are. The first is a further consequence of `control-coordinator.ts:97`,
which compares no session ids; the second of the finding `drc_session_table`.

Every invariant and every action property that a passing run checks is a theorem.

**What is not proved**, and stays with TLC:

* Liveness and `ENABLED`, everywhere (out of the prover's reach): `DrainEnds`, `SilenceCloses`,
  `SamplesSettle`, `RequestEnds`, `ClosedEndsControl`, `ResumesWhenConnected`, `CutOffEnds`.
* `FollowsTransitions`, which does not hold (section 4).
* What recursive definitions compute for every input: the models use none that needs it.

What is proved for every bound and is not a further question to a small instance (the types,
`NoResurrection`, `HeartbeatOnlyInSession`, `PolicyKept`, `PendingIsAwaited`, `FrameIsNoDenial`,
`MovedStays`, `CleanShutdown`) is not repeated in a run. The assumptions are on the constants only: bounds are
natural numbers (positive where the code needs one), names of different kinds differ, `None` is
no name, and in `Missions` grace periods and timeouts are positive.

## 6. Not modelled

* MSDK normaliser, DJI data formats (WPML, KMZ, media metadata), wayline services and the FH2
  proxy, UgCS and thermal adapters: mappings of data and request handlers without state that
  several steps share.
* Aircraft core, but for the parameter registry: pure rules and tables, the device registry, which
  is a map for display, and a control authority no application creates.
* Scripts, container and database configuration.
* Inside modelled parts: cryptography (token signatures, the encrypted store, password
  hashes), wording, layout, charts, evidence files, camera commands, ping and reconnect timing.

## 7. Plan

Done: the parts of section 2 and the proofs of section 5. Next:

1. Service calls and their replies (`index.ts` of the adapter) as a module of their own.
2. The MSDK path with two holders, and pings.
