------------------------------- MODULE Topology -------------------------------
(***************************************************************************)
(* The gateways and the devices behind them: the runtime registry that the *)
(* authorisation reads, the devices the adapter knows, and the inventory   *)
(* that a bounded drop-oldest queue of snapshots leads to in the database. *)
(*                                                                         *)
(* Only the part of a message handler up to its first await changes the    *)
(* registry; the awaits after it yield to no other message (the callbacks  *)
(* are synchronous), so a message is one action.                           *)
(***************************************************************************)
EXTENDS Naturals, Sequences

CONSTANTS
  Gateways,   \* remote controllers
  Docks,      \* dock gateways, which are globally disabled
  Devices,    \* aircraft
  Capacity,   \* of the persistence queue
  MaxUpdates, \* bound: topology updates in a behaviour
  MaxFailures   \* bound: writes whose answer is an error

ASSUME BoundsAssumption == Capacity \in Nat \ {0} /\ MaxUpdates \in Nat /\ MaxFailures \in Nat

None == "none"
ASSUME NamesAssumption ==
  /\ Gateways \cap Docks = {} /\ (Gateways \cup Docks) \cap Devices = {}
  /\ None \notin Gateways \cup Docks \cup Devices

Snapshots == [gateway: Gateways, devices: SUBSET Devices]

VARIABLES
  linked,    \* the adapter is connected to the broker
  heard,     \* gateways that have reported
  reported,  \* gateways: the devices of each gateway's last update
  owner,     \* gatewayByDevice, of the aircraft
  online,    \* devices and gateways known and connected
  known,     \* the adapter's devices
  disabled,  \* globallyDisabledDeviceIds
  queue,     \* snapshots to be saved, oldest first
  saving,    \* the head's transaction runs
  listed,    \* dji_gateway_devices: the gateway of an active row, else None
  gone,      \* history: a snapshot was dropped
  updates,
  failures

registry == <<heard, reported, owner>>
presence == <<online, known>>
store    == <<listed, failures>>
topologyVars == <<linked, registry, presence, disabled, queue, saving, store, gone, updates>>

TopologyInit ==
  /\ linked = FALSE
  /\ heard = {}
  /\ reported = [g \in Gateways |-> {}]
  /\ owner = [d \in Devices |-> None]
  /\ online = {} /\ known = {}
  /\ disabled = {}
  /\ queue = <<>> /\ saving = FALSE
  /\ listed \in [Devices -> Gateways \cup {None}]
  /\ gone = FALSE
  /\ updates = 0
  /\ failures = 0

-------------------------------------------------------------------------------
(* The runtime registry *)

\* Devices of the previous report that the new one does not name.
Removed(g, devices) == reported[g] \ devices

\* Mutant of NextOwner: a device reported gone keeps its gateway.
NextOwnerKeepsAll(g, devices) == [d \in Devices |-> IF d \in devices THEN g ELSE owner[d]]

\* apply: a device that left is forgotten unless another gateway has it by now.
NextOwner(g, devices) ==
  [d \in Devices |-> IF d \in devices THEN g
                     ELSE IF d \in Removed(g, devices) /\ owner[d] = g THEN None ELSE owner[d]]

\* Drop-oldest: the oldest snapshot that is not being saved.
Displaced == IF saving THEN 2 ELSE 1
Kept      == [i \in 1 .. Len(queue) - 1 |-> IF i < Displaced THEN queue[i] ELSE queue[i + 1]]

\* enqueue
Persist(snapshot) ==
  IF Len(queue) < Capacity
  THEN /\ queue' = Append(queue, snapshot)
       /\ saving' = TRUE
       /\ UNCHANGED gone
  ELSE /\ gone' = TRUE
       /\ IF Displaced <= Len(queue)
          THEN queue' = Append(Kept, snapshot) /\ saving' = TRUE
          ELSE UNCHANGED <<queue, saving>>

\* update_topo of a remote controller: registry, queue, and the devices' presence.
Update(g, devices) ==
  /\ linked
  /\ g \notin disabled
  /\ updates < MaxUpdates
  /\ updates' = updates + 1
  /\ owner' = NextOwner(g, devices)
  /\ heard' = heard \cup {g}
  /\ reported' = [reported EXCEPT ![g] = devices]
  /\ known' = known \cup devices \cup {g}
  /\ online' = ((online \cup devices \cup {g}) \ Removed(g, devices))
  /\ Persist([gateway |-> g, devices |-> devices])
  /\ UNCHANGED <<linked, disabled, store>>

\* update_topo of a dock: it and what is behind it are ignored from now on.
DockUpdate(k, devices) ==
  /\ linked
  /\ k \notin disabled
  /\ disabled' = disabled \cup devices \cup {k}
  /\ UNCHANGED <<linked, registry, presence, queue, saving, store, gone, updates>>

\* OSD or state of an aircraft
Telemetry(d) ==
  /\ linked
  /\ d \notin disabled
  /\ known' = known \cup {d}
  /\ online' = online \cup {d}
  /\ UNCHANGED <<linked, registry, disabled, queue, saving, store, gone, updates>>

Connect ==
  /\ ~linked
  /\ linked' = TRUE
  /\ UNCHANGED <<registry, presence, disabled, queue, saving, store, gone, updates>>

\* markKnownDevicesDisconnected
Offline == online \ known

Disconnect ==
  /\ linked
  /\ linked' = FALSE
  /\ online' = Offline
  /\ UNCHANGED <<registry, known, disabled, queue, saving, store, gone, updates>>

-------------------------------------------------------------------------------
(* The database *)

\* Mutant of Deactivated: devices that are no longer reported stay active.
DeactivatedNone(table, g) == table

\* save: first the gateway's devices are deactivated,
Deactivated(table, g) == [d \in Devices |-> IF table[d] = g THEN None ELSE table[d]]

\* upsertDevice: then the reported ones are activated under it.
Saved(table, s) ==
  [d \in Devices |-> IF d \in s.devices THEN s.gateway ELSE Deactivated(table, s.gateway)[d]]

\* The transaction commits.
Save ==
  /\ saving
  /\ listed' = Saved(listed, Head(queue))
  /\ queue' = Tail(queue)
  /\ saving' = (queue' # <<>>)
  /\ UNCHANGED <<linked, registry, presence, disabled, gone, updates, failures>>

\* It is rolled back, or its answer is lost; the queue waits for the interval.
SaveFails(committed) ==
  /\ saving
  /\ failures < MaxFailures
  /\ failures' = failures + 1
  /\ listed' = IF committed THEN Saved(listed, Head(queue)) ELSE listed
  /\ saving' = FALSE
  /\ UNCHANGED <<linked, registry, presence, disabled, queue, gone, updates>>

Unsaved == ~saving /\ queue # <<>>

RetryTick ==
  /\ Unsaved
  /\ saving' = TRUE
  /\ UNCHANGED <<linked, registry, presence, disabled, queue, store, gone, updates>>

Messages ==
  \/ \E devices \in SUBSET Devices :
       \/ \E g \in Gateways : Update(g, devices)
       \/ \E k \in Docks : DockUpdate(k, devices)
  \/ \E d \in Devices : Telemetry(d)

TopologyNext == Messages \/ Connect \/ Disconnect \/ Save \/ (\E c \in BOOLEAN : SaveFails(c)) \/ RetryTick

\* A transaction ends and the interval fires.
TopologyFairness == WF_topologyVars(Save \/ \E c \in BOOLEAN : SaveFails(c)) /\ WF_topologyVars(RetryTick)

TopologySpec == TopologyInit /\ [][TopologyNext]_topologyVars /\ TopologyFairness

-------------------------------------------------------------------------------
(* Properties *)

\* Every variable stays within its range.
TopologyTypeOK ==
  /\ linked \in BOOLEAN
  /\ heard \subseteq Gateways
  /\ reported \in [Gateways -> SUBSET Devices]
  /\ owner \in [Devices -> Gateways \cup {None}]
  /\ known \subseteq Gateways \cup Devices
  /\ online \subseteq known
  /\ disabled \subseteq Docks \cup Devices
  /\ queue \in Seq(Snapshots)
  /\ saving \in BOOLEAN
  /\ saving => queue # <<>>
  /\ listed \in [Devices -> Gateways \cup {None}]
  /\ gone \in BOOLEAN
  /\ updates \in 0 .. MaxUpdates
  /\ failures \in 0 .. MaxFailures

\* The device a capability or a DRC topic is looked up for is in the last report of the
\* gateway that owns it, in whatever order two gateways report a device that moves.
OwnerReports ==
  \A d \in Devices :
    owner[d] # None => owner[d] \in heard /\ d \in reported[owner[d]]

\* A device that one gateway loses after another one has reported it stays with the
\* other one.
MovedStays ==
  [][ \A d \in Devices :
        owner'[d] # owner[d] /\ owner[d] # None =>
          owner'[d] # None \/ d \notin reported'[owner[d]] ]_topologyVars

\* The snapshot changes the device's row, if that names the gateway.
Unlists(s, d, g) == d \in s.devices \/ s.gateway = g

\* The device's row names the gateway once the queue is saved: a snapshot says so, or the
\* row as it is, and nothing behind it takes the device away.
EndsListed(d, g) ==
  \/ \E i \in 1 .. Len(queue) :
       /\ queue[i].gateway = g /\ d \in queue[i].devices
       /\ \A j \in i + 1 .. Len(queue) : ~Unlists(queue[j], d, g)
  \/ listed[d] = g /\ \A j \in 1 .. Len(queue) : ~Unlists(queue[j], d, g)

\* The inventory follows the registry, although transactions fail after they
\* committed, as long as no snapshot is dropped: each owned device ends under its
\* owner, and under a gateway heard in this run end only the devices it owns.
InventoryFollows ==
  ~gone =>
    \A d \in Devices, g \in Gateways :
      /\ owner[d] = g => EndsListed(d, g)
      /\ g \in heard /\ EndsListed(d, g) => owner[d] = g

===============================================================================
