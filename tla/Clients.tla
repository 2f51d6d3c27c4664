--------------------------------- MODULE Clients ---------------------------------
(***************************************************************************)
(* The clients, and what the backend keeps for them alone: the app of the  *)
(* remote controller, the web console with its layers and its workspace,   *)
(* the pages inside DJI Pilot 2, and the media the console shows.  App     *)
(* shows one page at a time.                                               *)
(***************************************************************************)
EXTENDS RcApp, MediaIngest, WebOverlays, WebWorkspace, PilotPages

webVars == <<ingestVars, rtkVars, layerVars, shellVars, deskVars, pageVars>>
vars == <<left, rcVars, webVars>>

Init ==
  /\ BudgetInit /\ RcInit
  /\ IngestInit /\ ShellInit /\ RtkInit /\ LayersInit /\ WorkspaceInit /\ PagesInit

InConsole == site.page = "none"
InPilot == ~page.open /\ ~desk.open

WebStep ==
  \/ IngestStep /\ UNCHANGED <<rtkVars, layerVars, shellVars, deskVars, pageVars>>
  \/ RtkStep /\ UNCHANGED <<ingestVars, layerVars, shellVars, deskVars, pageVars>>
  \/ ShellStep /\ UNCHANGED <<ingestVars, rtkVars, layerVars, deskVars, pageVars>>
  \/ InConsole /\ LayersStep /\ UNCHANGED <<ingestVars, shellVars, deskVars, pageVars>>
  \/ InConsole /\ WorkspaceStep /\ UNCHANGED <<ingestVars, rtkVars, layerVars, pageVars>>
  \/ InPilot /\ PagesStep /\ UNCHANGED <<ingestVars, rtkVars, layerVars, deskVars>>

Next ==
  \/ RcStep /\ UNCHANGED webVars
  \/ WebStep /\ UNCHANGED rcVars

Spec == Init /\ [][Next]_vars

===============================================================================
