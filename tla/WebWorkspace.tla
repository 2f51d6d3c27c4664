------------------------------ MODULE WebWorkspace ------------------------------
(***************************************************************************)
(* The workspace of the console (Fh2Workspace): which remote controller    *)
(* and aircraft are selected, by the operator or automatically, from a     *)
(* topology that is polled and an identity that Pilot 2 reports; and which *)
(* component of FlightHub 2 is loaded for the chosen view (Fh2Views).  The *)
(* cockpit is loaded for the selected pair.                                *)
(*                                                                         *)
(* As in WebOverlays, a render and the effects whose inputs changed are    *)
(* one step; an effect acts on what its render saw.                        *)
(***************************************************************************)
EXTENDS WebShell

CONSTANTS
  FirstOf(_),  \* the first pair of a topology that is not empty
  Configured,  \* the pair of the build's configuration, or NoPair
  Routes,      \* ids an operator types in for a wayline or a flight path
  NoRoute

ASSUME WorkspaceAssumption ==
  /\ Configured \in Pairs \cup {NoPair} /\ NoRoute \notin Routes
  /\ \A pairs \in SUBSET Pairs \ {{}} : FirstOf(pairs) \in pairs

VARIABLES
  desk,    \* the state of Fh2Workspace
  seen,    \* what its last render saw
  native,  \* components of FlightHub 2 that are loaded, with their parameter
  polls    \* requests for the topology: [by: the mount, pairs: the answer]

deskVars == <<desk, seen, native, polls>>

DeskViews == {"project", "create", "edit", "history", "cockpit", "rtk"}

NoDesk ==
  [open |-> FALSE, mount |-> 0, pairs |-> {}, selected |-> NoPair, source |-> "auto",
   view |-> "project", route |-> NoRoute]

\* What a render sees: the desk's own state and that of the providers.
Look(d) ==
  [pairs |-> d.pairs, selected |-> d.selected, source |-> d.source, view |-> d.view, route |-> d.route,
   fh2 |-> fh2, pilot |-> pilot]

WorkspaceInit ==
  desk = NoDesk /\ native = {} /\ polls = {} /\ seen = Look(NoDesk)

Unchanged(r) == r = seen

-----------------------------------------------------------------------------
(* The effects *)

\* The component of a view, with its parameter, if all it needs is there.
Component(r) ==
  CASE r.fh2 # "ready" -> {}
    [] r.fh2 = "ready" /\ r.view \in {"project", "create"} -> {<<r.view, NoRoute>>}
    [] r.fh2 = "ready" /\ r.view \in {"edit", "history"} /\ r.route # NoRoute -> {<<r.view, r.route>>}
    [] r.fh2 = "ready" /\ r.view = "cockpit" /\ r.selected # NoPair -> {<<r.view, r.selected>>}
    [] OTHER -> {}

\* The effect of the view: the old component is destroyed, the new one loaded.
Loaded(r) == IF Component(r) = Component(seen) THEN native ELSE (native \ Component(seen)) \cup Component(r)

\* The first effect: a selection of the operator that is gone is given up.
IsGone(r) == r.source = "user" /\ r.selected # NoPair /\ r.selected \notin r.pairs

Follows(r) == r.pilot.state = "ready" /\ r.pilot.pair \in r.pairs

\* Mutant of Automatic: a pair once selected is not looked at again.
AutomaticOnce(r) ==
  CASE r.selected # NoPair -> r.selected
    [] r.selected = NoPair /\ Follows(r) -> r.pilot.pair
    [] r.selected = NoPair /\ ~Follows(r) /\ Configured # NoPair -> Configured
    [] r.selected = NoPair /\ ~Follows(r) /\ Configured = NoPair /\ r.pairs # {} -> FirstOf(r.pairs)
    [] OTHER -> NoPair

\* The second effect: Pilot's pair, if it is listed; else what is selected; else the
\* configured pair, or the first one.
Automatic(r) ==
  CASE Follows(r) -> r.pilot.pair
    [] ~Follows(r) /\ r.selected # NoPair -> r.selected
    [] ~Follows(r) /\ r.selected = NoPair /\ Configured # NoPair -> Configured
    [] ~Follows(r) /\ r.selected = NoPair /\ Configured = NoPair /\ r.pairs # {} -> FirstOf(r.pairs)
    [] OTHER -> NoPair

\* Both effects act on the same render; the second does nothing for an operator's pick.
Selecting(r) ==
  desk' = CASE IsGone(r) -> [desk EXCEPT !.source = "auto", !.selected = NoPair]
            [] r.source = "auto" -> [desk EXCEPT !.selected = Automatic(r)]
            [] OTHER -> desk

RenderDesk ==
  /\ desk.open /\ ~Unchanged(Look(desk))
  /\ seen' = Look(desk)
  /\ native' = Loaded(Look(desk))
  /\ Selecting(Look(desk))
  /\ UNCHANGED <<shellVars, polls, left>>

-----------------------------------------------------------------------------
(* The page and its poll *)

OpenDesk ==
  /\ ~desk.open /\ Spend("workspace")
  /\ LET r == Look([NoDesk EXCEPT !.open = TRUE]) IN
       /\ seen' = r /\ native' = Component(r)
       /\ desk' = [NoDesk EXCEPT !.open = TRUE, !.mount = desk.mount + 1, !.selected = Automatic(r)]
  /\ polls' = polls \cup {[by |-> desk.mount + 1, pairs |-> topology]}
  /\ UNCHANGED shellVars

CloseDesk ==
  /\ desk.open /\ Spend("workspace")
  /\ desk' = [NoDesk EXCEPT !.mount = desk.mount]
  /\ native' = native \ Component(seen)
  /\ UNCHANGED <<shellVars, seen, polls>>

\* refreshTopology: one request at a time
PollTopology ==
  /\ desk.open /\ \A q \in polls : q.by # desk.mount
  /\ topology # desk.pairs
  /\ polls' = polls \cup {[by |-> desk.mount, pairs |-> topology]}
  /\ UNCHANGED <<shellVars, desk, seen, native, left>>

\* An answer that comes too late is not looked at.
Polled(q) ==
  /\ desk' = IF desk.open /\ q.by = desk.mount THEN [desk EXCEPT !.pairs = q.pairs] ELSE desk
  /\ polls' = polls \ {q}
  /\ UNCHANGED <<shellVars, seen, native, left>>

\* A poll that fails keeps the last topology.
PollFails(q) ==
  /\ Spend("workspace")
  /\ polls' = polls \ {q}
  /\ UNCHANGED <<shellVars, desk, seen, native>>

-----------------------------------------------------------------------------
(* The operator *)

\* The select shows the pairs of the last render.
Pick(pair) ==
  /\ desk.open /\ pair \in seen.pairs \ {seen.selected} /\ Spend("workspace")
  /\ desk' = [desk EXCEPT !.source = "user", !.selected = pair]
  /\ UNCHANGED <<shellVars, seen, native, polls>>

ShowView(v) ==
  /\ desk.open /\ v # desk.view /\ Spend("workspace")
  /\ desk' = [desk EXCEPT !.view = v]
  /\ UNCHANGED <<shellVars, seen, native, polls>>

TypeRoute(id) ==
  /\ desk.open /\ seen.view \in {"edit", "history"} /\ id # desk.route /\ Spend("workspace")
  /\ desk' = [desk EXCEPT !.route = id]
  /\ UNCHANGED <<shellVars, seen, native, polls>>

\* flight-path-back: the viewer is destroyed while its view stays.
FlightPathBack ==
  /\ desk.open /\ seen.view = "history" /\ Component(seen) # {} /\ Spend("workspace")
  /\ native' = native \ Component(seen)
  /\ UNCHANGED <<shellVars, desk, seen, polls>>

WorkspaceStep ==
  \/ OpenDesk \/ CloseDesk \/ RenderDesk \/ PollTopology
  \/ \E q \in polls : Polled(q) \/ PollFails(q)
  \/ \E pair \in Pairs : Pick(pair)
  \/ \E v \in DeskViews : ShowView(v)
  \/ \E id \in Routes \cup {NoRoute} : TypeRoute(id)
  \/ FlightPathBack

-----------------------------------------------------------------------------

\* When React has nothing left to render: a selection of the operator is a pair of the
\* topology; an automatic one is the pair that Pilot reports, if the topology has it,
\* and there is one as soon as there are pairs; and FlightHub 2 has loaded the view's
\* component for what is selected and nothing else - no cockpit of another aircraft.
\* When the page is left, nothing stays loaded.  (the effects of Fh2Workspace 119-201
\* and of Fh2Views)
WorkspaceFollows ==
  IF ~desk.open THEN native = {}
  ELSE Unchanged(Look(desk)) =>
    /\ desk.source = "user" => desk.selected \in desk.pairs
    /\ desk.source = "auto" /\ Follows(seen) => desk.selected = pilot.pair
    /\ desk.pairs # {} => desk.selected # NoPair
    /\ IF desk.view = "history" THEN native \subseteq Component(seen) ELSE native = Component(seen)

===============================================================================
