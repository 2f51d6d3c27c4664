------------------------------- MODULE PilotPages -------------------------------
(***************************************************************************)
(* The two pages that DJI Pilot 2 opens in its web view.                   *)
(* PilotCloudBootstrap verifies the licence, hands the broker to Pilot's   *)
(* thing module and shows whether it is connected; it also loads the       *)
(* wayline library.  PilotJsbridgeEvidence posts what the bridge reports   *)
(* to the backend, which keeps a redacted copy (Pilot2EvidenceStore).      *)
(*                                                                         *)
(* Pilot calls window.fh2ThingConnectCallback whenever the link of the     *)
(* loaded module changes (external).  Such a call runs later than the      *)
(* change, whichever function is installed then.  The workspace's id is    *)
(* taken to be configured.                                                 *)
(***************************************************************************)
EXTENDS WebShell

VARIABLES
  site,      \* the open page and its state; its mounts are numbered
  callback,  \* the mount that installed fh2ThingConnectCallback, or 0
  notices,   \* calls of it that Pilot has made and the page has not run
  captures,  \* POSTs of evidence: [by: the mount, pair, at: "sent", "taken" or "refused"]
  latest     \* the pair of Pilot2EvidenceStore's evidence, or NoPair

pageVars == <<site, callback, notices, captures, latest>>

NoSite == [page |-> "none", mount |-> 0, stage |-> "idle", waits |-> 0, library |-> "none", capture |-> "idle"]

PagesInit == site = NoSite /\ callback = 0 /\ notices = <<>> /\ captures = {} /\ latest = NoPair

LinkStage == IF bridge.link THEN "connected" ELSE "waiting"

\* The mount's effect asks for the link of a verified bridge with the thing module.
StageAtMount ==
  CASE bridge.present /\ bridge.fails -> "error"
    [] bridge.present /\ ~bridge.fails /\ bridge.verified /\ "thing" \in bridge.loaded -> LinkStage
    [] OTHER -> "idle"

Mounted(p) == [NoSite EXCEPT !.page = p, !.mount = site.mount + 1, !.stage = StageAtMount]

-----------------------------------------------------------------------------
(* Opening and leaving a page *)

Pages == {"bootstrap", "evidence"}

\* Pilot or the operator loads the page: nothing of an earlier one is left.
LoadPage(p) ==
  /\ Spend("pages")
  /\ site' = Mounted(p)
  /\ callback' = 0 /\ notices' = <<>>
  /\ fh2' = "loading" /\ pilot' = NoSnapshot("unavailable")
  /\ UNCHANGED <<bridge, topology, captures, latest>>

\* navigate and popstate: the window keeps the callback of the page that was left.
Navigate(p) ==
  /\ site.page \in Pages \ {p} /\ Spend("pages")
  /\ site' = Mounted(p)
  /\ UNCHANGED <<shellVars, callback, notices, captures, latest>>

-----------------------------------------------------------------------------
(* Connecting *)

CanConnect == site.page = "bootstrap" /\ bridge.present /\ site.stage # "loading"

\* A field is missing, the licence is not accepted, or Pilot knows no serial number;
\* by then the licence may have been verified.
ConnectRefused ==
  /\ CanConnect /\ Spend("pages")
  /\ site' = [site EXCEPT !.stage = "error"]
  /\ bridge' \in {bridge} \cup IF bridge.fails \/ bridge.pair # NoPair THEN {} ELSE {[bridge EXCEPT !.verified = TRUE]}
  /\ UNCHANGED <<fh2, pilot, topology, callback, notices, captures, latest>>

\* connect: the callback is installed before Pilot loads the module, which may fail.
Connect ==
  /\ CanConnect /\ ~bridge.fails /\ Spend("pages")
  /\ callback' = site.mount
  /\ \/ /\ bridge' = [bridge EXCEPT !.verified = TRUE, !.loaded = @ \cup {"thing"}]
        /\ site' = [site EXCEPT !.stage = "loading", !.waits = @ + 1]
     \/ /\ bridge' = [bridge EXCEPT !.verified = TRUE]
        /\ site' = [site EXCEPT !.stage = "error"]
  /\ UNCHANGED <<fh2, pilot, topology, notices, captures, latest>>

\* Mutant of AfterWait: the page goes by what loading the module promises.
AfterWaitUnread == "waiting"

\* thingGetConnectState
AfterWait == IF bridge.fails THEN "error" ELSE LinkStage

\* The 750 ms are over.
Waited ==
  /\ site.waits > 0
  /\ site' = [site EXCEPT !.waits = @ - 1, !.stage = AfterWait]
  /\ UNCHANGED <<shellVars, callback, notices, captures, latest, left>>

LinkChanges ==
  /\ "thing" \in bridge.loaded /\ Spend("pages")
  /\ bridge' = [bridge EXCEPT !.link = ~@]
  /\ notices' = Append(notices, ~bridge.link)
  /\ UNCHANGED <<fh2, pilot, topology, site, callback, captures, latest>>

\* fh2ThingConnectCallback; that of a page that was left sets the state of nothing.
Notified ==
  /\ notices # <<>> /\ notices' = Tail(notices)
  /\ site' = IF site.page = "bootstrap" /\ callback = site.mount
             THEN [site EXCEPT !.stage = IF Head(notices) THEN "connected" ELSE "waiting"] ELSE site
  /\ UNCHANGED <<shellVars, callback, captures, latest, left>>

-----------------------------------------------------------------------------
(* The wayline library *)

\* enableWaylineLibrary: the mission module is loaded after the API module; a bridge
\* that is not verified stops it before, a failure in between.  A field that is missing
\* changes nothing.
EnableLibrary ==
  /\ site.page = "bootstrap" /\ bridge.present /\ site.library # "loading" /\ Spend("pages")
  /\ \/ bridge' = bridge /\ site' = [site EXCEPT !.library = "none"]
     \/ /\ bridge.verified /\ ~bridge.fails
        /\ \/ /\ bridge' = [bridge EXCEPT !.loaded = @ \cup {"api"}]
              /\ site' = [site EXCEPT !.library = "none"]
           \/ /\ bridge' = [bridge EXCEPT !.loaded = @ \cup {"api", "mission"}]
              /\ site' = [site EXCEPT !.library = "loading"]
  /\ UNCHANGED <<fh2, pilot, topology, callback, notices, captures, latest>>

LibraryWaited ==
  /\ site.library = "loading"
  /\ site' = [site EXCEPT !.library =
       IF ~bridge.fails /\ {"api", "mission"} \subseteq bridge.loaded THEN "ready" ELSE "none"]
  /\ UNCHANGED <<shellVars, callback, notices, captures, latest, left>>

-----------------------------------------------------------------------------
(* The evidence *)

\* capture, with the identities that the provider read last
Capture ==
  /\ site.page = "evidence" /\ pilot.state = "ready" /\ pilot.pair # NoPair
  /\ site.capture # "capturing" /\ Spend("pages")
  /\ site' = [site EXCEPT !.capture = "capturing"]
  /\ captures' = captures \cup {[by |-> site.mount, pair |-> pilot.pair, at |-> "sent"]}
  /\ UNCHANGED <<shellVars, callback, notices, latest>>

\* POST /api/dji/pilot2/evidence: 201 for a pair of the topology, otherwise 409.
EvidenceTaken(c) ==
  /\ c.at = "sent"
  /\ captures' = (captures \ {c}) \cup {[c EXCEPT !.at = IF c.pair \in topology THEN "taken" ELSE "refused"]}
  /\ latest' = IF c.pair \in topology THEN c.pair ELSE latest
  /\ UNCHANGED <<shellVars, site, callback, notices, left>>

CaptureAnswered(c) ==
  /\ c.at # "sent"
  /\ captures' = captures \ {c}
  /\ site' = IF site.page = "evidence" /\ c.by = site.mount
             THEN [site EXCEPT !.capture = IF c.at = "taken" THEN "captured" ELSE "error"] ELSE site
  /\ UNCHANGED <<shellVars, callback, notices, latest, left>>

PagesStep ==
  \/ \E p \in Pages : LoadPage(p) \/ Navigate(p)
  \/ ConnectRefused \/ Connect \/ Waited \/ LinkChanges \/ Notified
  \/ EnableLibrary \/ LibraryWaited
  \/ Capture \/ \E c \in captures : EvidenceTaken(c) \/ CaptureAnswered(c)

-----------------------------------------------------------------------------

\* Once the operator has connected from this page, and unless it shows an error, it
\* shows the link that Pilot has as soon as nothing is pending - whichever of the
\* callback and the wait came last, and however often the link came and went
\* meanwhile.  (PilotCloudBootstrap.connect and its callback)
LinkIsShown ==
  site.page = "bootstrap" /\ callback = site.mount /\ notices = <<>> /\ site.waits = 0
    /\ site.stage # "error" => site.stage = LinkStage

===============================================================================
