---------------------------------- MODULE RcApp ----------------------------------
(***************************************************************************)
(* The remote controller's app around its control agent: the key inventory *)
(* and the runtime that drives it, the map and the video, the media        *)
(* library, the gimbal and the wayline upload, on one UI thread.           *)
(***************************************************************************)
EXTENDS RcMedia, RcPayload, RcKeys, RcScreens

rcVars == <<posted, mediaVars, payloadVars, keysVars, screenVars>>

RcInit == UiInit /\ MediaInit /\ PayloadInit /\ KeysInit /\ ScreensInit

RcStep ==
  \/ MediaStep /\ UNCHANGED <<payloadVars, keysVars, screenVars>>
  \/ (GimbalStep \/ WaylineStep) /\ UNCHANGED <<mediaVars, keysVars, screenVars>>
  \/ KeysStep /\ UNCHANGED <<mediaVars, payloadVars, screenVars>>
  \/ ScreensStep /\ UNCHANGED <<mediaVars, payloadVars, keysVars>>

===============================================================================
