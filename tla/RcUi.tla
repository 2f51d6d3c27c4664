---------------------------------- MODULE RcUi ----------------------------------
(***************************************************************************)
(* What the parts of the remote controller's app around the control agent  *)
(* share: one UI thread, which runs the callbacks of the screens one after *)
(* another, and the queue of what runOnUiThread posts to it from the       *)
(* threads of DJI's MSDK.  A callback of the MSDK is one step of its own   *)
(* thread unless a module says otherwise.                                  *)
(***************************************************************************)
EXTENDS Budget

VARIABLE posted  \* runnables the UI thread has not run yet

uiVars == <<left, posted>>

UiInit == posted = <<>>

\* Runnables are records [to: the screen, by: its instance, ...].
Post(runnables) == posted' = posted \o runnables

Unheard(screen, instance) ==
  \A i \in 1 .. Len(posted) : posted[i].to # screen \/ posted[i].by # instance

===============================================================================
