------------------------------ MODULE WebOverlays ------------------------------
(***************************************************************************)
(* The layers that the console draws on the map of FlightHub 2:            *)
(* Fh2OverlayController, the producers of overlays.ts, and the bridge that *)
(* adds their features as entities to a Cesium viewer.                     *)
(*                                                                         *)
(* React renders when state has changed and then runs the effects whose    *)
(* inputs changed, first all cleanups and then the effects, in one step.   *)
(* An effect that sets state causes the next render.  Between two renders  *)
(* requests are answered, the map's viewer is replaced, and the operator   *)
(* acts.  The controller is mounted with the workspace's page.             *)
(***************************************************************************)
EXTENDS RtkLive, WebShell

CONSTANTS
  Thermal,    \* aircraft that carry the thermal camera (M4T)
  Viewers,    \* Cesium viewers that FlightHub 2 makes
  NoViewer,
  MaxOffers   \* bound: how often what a feed offers changes

ASSUME OverlayAssumption ==
  Thermal \subseteq Aircraft /\ NoViewer \notin Viewers /\ MaxOffers \in Nat

Kinds == {"rtk", "thermal", "multispectral", "ugcs"}

\* The producers' slots, each with the kind it belongs to, and those each feed fills.
KindOf ==
  [live |-> "rtk", platform |-> "thermal", captures |-> "thermal", bands |-> "multispectral",
   routes |-> "ugcs", vehicles |-> "ugcs"]
Slots == DOMAIN KindOf
SlotsOf == [media |-> {"captures", "bands"}, ugcs |-> {"routes", "vehicles"}]
Feeds == DOMAIN SlotsOf

VARIABLES
  cesium,     \* window.FH2.cesiumViewer.global
  located,    \* aircraft whose telemetry has a position
  offers,     \* what each feed would answer: a version, 0 for nothing
  page,       \* the controller's state, and the numbers of its mount and its effects
  drawn,      \* what the last render saw
  producers,  \* overlays.ts: the features of each slot
  entities,   \* the entities of each viewer
  ids,        \* those the bridge has added to the drawn viewer, by kind
  requests    \* polls that are not answered: [feed, by: the effect, answer]

layerVars == <<cesium, located, offers, page, drawn, producers, entities, ids, requests>>

NoFeatures == [s \in Slots |-> {}]
NoIds == [k \in Kinds |-> {}]

Closed ==
  [open |-> FALSE, mount |-> 0, run |-> 0, topology |-> {}, positions |-> {}, viewer |-> NoViewer,
   enabled |-> [k \in Kinds |-> TRUE]]

Nothing ==
  [fh2 |-> "none", topology |-> {}, positions |-> {}, viewer |-> NoViewer, enabled |-> [k \in Kinds |-> TRUE],
   fixes |-> <<>>, snapshot |-> NoIds]

LayersInit ==
  /\ cesium = NoViewer /\ located = Aircraft /\ offers = [f \in Feeds |-> 0]
  /\ page = Closed /\ drawn = Nothing /\ producers = NoFeatures
  /\ entities = [v \in Viewers |-> {}] /\ ids = NoIds /\ requests = {}

-----------------------------------------------------------------------------
(* Producers and bridge *)

\* getFh2OverlaySnapshot
Features == [k \in Kinds |-> UNION {producers[s] : s \in {t \in Slots : KindOf[t] = k}}]

\* What a render sees: notify has put every change of the producers into the state.
Rendered ==
  [fh2 |-> fh2, topology |-> page.topology, positions |-> page.positions, viewer |-> page.viewer,
   enabled |-> page.enabled, fixes |-> [d \in DOMAIN view.devices |-> view.devices[d].fix],
   snapshot |-> Features]

Settled == drawn = Rendered

LiveFeatures(r) == {<<d, r.fixes[d]>> : d \in DOMAIN r.fixes \cap r.positions}
PlatformFeatures(r) == {<<d, "M4T">> : d \in Thermal \cap r.topology \cap r.positions}
Offered(slot, version) == IF version = 0 THEN {} ELSE {<<slot, version>>}

Drop(es, viewer, gone) == [v \in Viewers |-> IF v = viewer THEN es[v] \ gone ELSE es[v]]

\* Fh2CesiumOverlayBridge.destroy
Destroyed(es, viewer) == Drop(es, viewer, UNION {ids[k] : k \in Kinds})

\* Fh2CesiumOverlayBridge.sync of all kinds
Synced(r) ==
  [k \in Kinds |-> IF r.enabled[k] /\ r.viewer # NoViewer THEN {<<k, f>> : f \in r.snapshot[k]} ELSE {}]

\* Draw: the effects of the bridge, on [viewer] and on [enabled, snapshot, viewer].
Draw(r) ==
  LET replaced == r.viewer # drawn.viewer
      after    == IF replaced THEN Destroyed(entities, drawn.viewer) ELSE entities
      old      == IF replaced THEN {} ELSE UNION {ids[k] : k \in Kinds}
      changed  == replaced \/ r.enabled # drawn.enabled \/ r.snapshot # drawn.snapshot
      new      == Synced(r)
  IN IF ~changed THEN UNCHANGED <<entities, ids>>
     ELSE /\ ids' = new
          /\ entities' = [v \in Viewers |->
               IF v = r.viewer THEN (after[v] \ old) \cup UNION {new[k] : k \in Kinds} ELSE after[v]]

-----------------------------------------------------------------------------
(* Rendering *)

Asked(feed, by, answer) == [feed |-> feed, by |-> by, answer |-> answer]

\* useFh2CesiumViewer: the effect on the provider's state reads the viewer.
SeenViewer(r) == IF r.fh2 = drawn.fh2 THEN page.viewer ELSE IF r.fh2 = "ready" THEN cesium ELSE NoViewer

\* useAircraftPositions: the effect on the ids of the topology.  An empty list forgets
\* the positions at once, another one keeps them until its first answer.
Located(r) ==
  LET changed == r.topology # drawn.topology IN
  /\ page' = [page EXCEPT
       !.viewer = SeenViewer(r),
       !.run = IF changed THEN @ + 1 ELSE @,
       !.positions = IF changed /\ r.topology = {} THEN {} ELSE @]
  /\ requests' = IF changed /\ r.topology # {}
                 THEN requests \cup {Asked("positions", page.run + 1, r.topology \cap located)}
                 ELSE requests

Commit ==
  LET r == Rendered IN
  /\ page.open /\ ~Settled
  /\ drawn' = r
  /\ producers' = [producers EXCEPT
       !.live = IF r.positions # drawn.positions \/ r.fixes # drawn.fixes THEN LiveFeatures(r) ELSE @,
       !.platform = IF r.positions # drawn.positions \/ r.topology # drawn.topology THEN PlatformFeatures(r) ELSE @]
  /\ Draw(r) /\ Located(r)
  /\ UNCHANGED <<cesium, located, offers>>

\* The workspace's page is opened: the first render and its effects.
MountLayers ==
  /\ ~page.open /\ Spend("layers") /\ MountRtk
  /\ page' = [Closed EXCEPT !.open = TRUE, !.mount = page.mount + 1, !.run = page.run,
                            !.viewer = IF fh2 = "ready" THEN cesium ELSE NoViewer]
  /\ drawn' = [Nothing EXCEPT !.fh2 = fh2, !.snapshot = Features]
  /\ requests' = requests \cup {Asked(f, page'.mount, offers[f]) : f \in Feeds}
  /\ UNCHANGED <<cesium, located, offers, producers, entities, ids>>

\* The page is left: every effect is cleaned up.
UnmountLayers ==
  /\ page.open /\ Spend("layers") /\ UnmountRtk
  /\ page' = [Closed EXCEPT !.mount = page.mount, !.run = page.run + 1]
  /\ drawn' = Nothing
  /\ producers' = NoFeatures
  /\ entities' = Destroyed(entities, drawn.viewer) /\ ids' = NoIds
  /\ UNCHANGED <<cesium, located, offers, requests>>

\* The dashboard uses the hook as well, with a stream of its own; a behaviour follows
\* the stream of one of them.
OpenDashboard ==
  /\ ~page.open /\ Spend("rtk") /\ MountRtk
  /\ UNCHANGED layerVars

CloseDashboard ==
  /\ ~page.open /\ Spend("rtk") /\ UnmountRtk
  /\ UNCHANGED layerVars

-----------------------------------------------------------------------------
(* Requests *)

\* Mutant of IsCurrent: the cleanup does not cancel.
IsCurrentAlways(q) == TRUE

\* cancelled, or another effect's controller
IsCurrent(q) == page.open /\ q.by = IF q.feed = "positions" THEN page.run ELSE page.mount

\* The interval of a feed: one request at a time.
Poll(feed) ==
  /\ page.open /\ (feed = "positions" => drawn.topology # {})
  /\ \A q \in requests : q.feed = feed => ~IsCurrent(q)
  /\ Spend("layers")
  /\ requests' = requests \cup
       {IF feed = "positions" THEN Asked(feed, page.run, drawn.topology \cap located)
                              ELSE Asked(feed, page.mount, offers[feed])}
  /\ UNCHANGED <<cesium, located, offers, page, drawn, producers, entities, ids>>

\* A position request has a part for each aircraft, and each part may fail alone.
PositionsAnswered(q, found) ==
  /\ q.feed = "positions" /\ found \subseteq q.answer
  /\ page' = IF IsCurrent(q) THEN [page EXCEPT !.positions = found] ELSE page
  /\ UNCHANGED producers

FeedAnswered(q) ==
  /\ q.feed \in Feeds
  /\ producers' = IF IsCurrent(q)
                  THEN [s \in Slots |-> IF s \in SlotsOf[q.feed] THEN Offered(s, q.answer) ELSE producers[s]]
                  ELSE producers
  /\ UNCHANGED page

\* A request that fails, or is aborted, leaves what was shown.
FeedFailed(q) == q.feed \in Feeds /\ UNCHANGED <<page, producers>>

RequestAnswered(q) ==
  /\ FeedAnswered(q) \/ FeedFailed(q) \/ \E found \in SUBSET Aircraft : PositionsAnswered(q, found)
  /\ requests' = requests \ {q}
  /\ UNCHANGED <<cesium, located, offers, drawn, entities, ids, left>>

-----------------------------------------------------------------------------
(* FlightHub 2, the backend and the operator *)

\* The viewer's event; useFh2CesiumViewer listens while the runtime is ready.
ViewerChanges(v) ==
  /\ fh2 = "ready" /\ v # cesium /\ Spend("layers")
  /\ cesium' = v
  /\ page' = IF page.open /\ drawn.fh2 = "ready" THEN [page EXCEPT !.viewer = v] ELSE page
  /\ UNCHANGED <<located, offers, drawn, producers, entities, ids, requests>>

TopologyShown(crafts) ==
  /\ page.open /\ crafts # page.topology /\ Spend("aircraft")
  /\ page' = [page EXCEPT !.topology = crafts]
  /\ UNCHANGED <<cesium, located, offers, drawn, producers, entities, ids, requests>>

Toggle(k) ==
  /\ page.open /\ Spend("layers")
  /\ page' = [page EXCEPT !.enabled[k] = ~@]
  /\ UNCHANGED <<cesium, located, offers, drawn, producers, entities, ids, requests>>

Locates(d) ==
  /\ Spend("aircraft")
  /\ located' = IF d \in located THEN located \ {d} ELSE located \cup {d}
  /\ UNCHANGED <<cesium, offers, page, drawn, producers, entities, ids, requests>>

Offers(feed) ==
  /\ offers[feed] < MaxOffers /\ Spend("layers")
  /\ offers' = [offers EXCEPT ![feed] = @ + 1]
  /\ UNCHANGED <<cesium, located, page, drawn, producers, entities, ids, requests>>

LayersStep ==
  \/ MountLayers \/ UnmountLayers \/ OpenDashboard \/ CloseDashboard
  \/ /\ \/ Commit /\ UNCHANGED left
        \/ \E feed \in Feeds \cup {"positions"} : Poll(feed)
        \/ \E q \in requests : RequestAnswered(q)
        \/ \E v \in Viewers \cup {NoViewer} : ViewerChanges(v)
        \/ \E crafts \in SUBSET Aircraft : TopologyShown(crafts)
        \/ \E k \in Kinds : Toggle(k)
        \/ \E d \in Aircraft : Locates(d)
        \/ \E feed \in Feeds : Offers(feed)
     /\ UNCHANGED rtkVars

-----------------------------------------------------------------------------

\* What the viewer should show, from what the page knows now.
Wanted ==
  LET of(s) == CASE s = "live" -> LiveFeatures(Rendered)
                 [] s = "platform" -> PlatformFeatures(Rendered)
                 [] OTHER -> producers[s]
  IN UNION {{<<KindOf[s], f>> : f \in of(s)} : s \in {t \in Slots : page.enabled[KindOf[t]]}}

\* When React has nothing left to render, the map's current viewer shows exactly the
\* enabled layers of what the page knows, and no earlier viewer shows anything; and
\* once the page is left, neither a viewer nor a producer keeps anything, whatever
\* request is answered then.  (the effects of Fh2OverlayController and overlays.ts)
LayersFollow ==
  IF page.open
  THEN Settled => \A v \in Viewers : entities[v] = IF fh2 = "ready" /\ v = cesium THEN Wanted ELSE {}
  ELSE producers = NoFeatures /\ \A v \in Viewers : entities[v] = {}

===============================================================================
