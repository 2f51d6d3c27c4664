-------------------------------- MODULE RcPayload --------------------------------
(***************************************************************************)
(* What the operator of the RC does to the payload by hand: nudging the    *)
(* gimbal (CameraGimbalController) and loading a wayline file onto the     *)
(* aircraft (WaylineMissionController).                                    *)
(***************************************************************************)
EXTENDS RcUi

CONSTANTS
  Names,        \* names of wayline files
  NoName,
  MaxCommands,  \* bound: gimbal commands under way at once
  MaxVersions   \* bound: contents a wayline file may have

ASSUME PayloadAssumption ==
  NoName \notin Names /\ MaxCommands \in Nat \ {0} /\ MaxVersions \in Nat \ {0}

VARIABLES
  gimbal,   \* CameraGimbalController: started, stops posted with a delay; and a history
            \* flag: its snapshot has shown that a stop failed since it last rested
  commands, \* RotateBySpeed commands the MSDK has not carried out yet
  answers,  \* results on their way to the callbacks
  turning,  \* the gimbal turns
  wayline,  \* WaylineMissionController: the selection, its state, is an upload running
  kmz,      \* contents of the wayline files on the RC; 0 = no such file
  push      \* the file MSDK is sending to the aircraft

gimbalVars == <<gimbal, commands, answers, turning>>
waylineVars == <<wayline, kmz, push>>
payloadVars == <<gimbalVars, waylineVars>>

NoSelection == [file |-> NoName, state |-> "idle", uploading |-> FALSE]

PayloadInit ==
  /\ gimbal = [started |-> FALSE, delayed |-> 0, warned |-> FALSE]
  /\ commands = <<>> /\ answers = <<>> /\ turning = FALSE
  /\ wayline = NoSelection
  /\ kmz = [n \in Names |-> 0]
  /\ push = NoName

\* start (and addListener, which calls it): the camera's flags are listened to.
StartGimbal ==
  /\ ~gimbal.started
  /\ gimbal' = [gimbal EXCEPT !.started = TRUE]
  /\ UNCHANGED <<commands, answers, turning, waylineVars, uiVars>>

\* nudgeGimbal
Nudge ==
  /\ Spend("gimbal") /\ Len(commands) + Len(answers) < MaxCommands
  /\ commands' = Append(commands, "nudge")
  /\ UNCHANGED <<gimbal, answers, turning, waylineVars, posted>>

\* The MSDK carries a command out or refuses it.
CarriedOut(ok) ==
  /\ commands # <<>> /\ (ok \/ left["gimbal"] > 0)
  /\ left' = IF ok THEN left ELSE [left EXCEPT !["gimbal"] = @ - 1]
  /\ commands' = Tail(commands)
  /\ answers' = Append(answers, <<Head(commands), ok>>)
  /\ turning' = IF ok THEN Head(commands) = "nudge" ELSE turning
  /\ gimbal' = [gimbal EXCEPT !.warned = @ /\ turning']
  /\ UNCHANGED <<waylineVars, posted>>

\* Mutant of StopsLater: a controller that has been stopped posts nothing any more.
StopsWhileStarted(cmd, ok) == IF cmd = "nudge" /\ ok /\ gimbal.started THEN 1 ELSE 0

\* onSuccess of the nudge posts the stop with a delay.
StopsLater(cmd, ok) == IF cmd = "nudge" /\ ok THEN 1 ELSE 0

\* callback
Answered ==
  /\ answers # <<>>
  /\ answers' = Tail(answers)
  /\ gimbal' = [gimbal EXCEPT !.warned = @ \/ (turning /\ Head(answers) = <<"stop", FALSE>>),
                              !.delayed = @ + StopsLater(Head(answers)[1], Head(answers)[2])]
  /\ UNCHANGED <<commands, turning, waylineVars, uiVars>>

\* The posted stop runs: stopGimbal.
StopDue ==
  /\ gimbal.delayed > 0
  /\ gimbal' = [gimbal EXCEPT !.delayed = @ - 1]
  /\ commands' = Append(commands, "stop")
  /\ UNCHANGED <<answers, turning, waylineVars, uiVars>>

\* stop: the posted stops are removed and one is sent now.  Nothing in the app calls
\* it today.
StopGimbal ==
  /\ Spend("gimbal") /\ gimbal.started
  /\ gimbal' = [gimbal EXCEPT !.started = FALSE, !.delayed = 0]
  /\ commands' = Append(commands, "stop")
  /\ UNCHANGED <<answers, turning, waylineVars, posted>>

GimbalStep == StartGimbal \/ Nudge \/ (\E ok \in BOOLEAN : CarriedOut(ok)) \/ Answered \/ StopDue \/ StopGimbal

-----------------------------------------------------------------------------

\* importKmz: the file is copied over one of the same name, also while it is being
\* pushed, and becomes the selection unless the copy fails or is empty.
Import(n) ==
  /\ Spend("wayline") /\ kmz[n] < MaxVersions
  /\ kmz' = [kmz EXCEPT ![n] = @ + 1]
  /\ \/ wayline' = [wayline EXCEPT !.file = n, !.state = "selected"]
     \/ UNCHANGED wayline
  /\ UNCHANGED <<push, gimbalVars, posted>>

\* uploadSelected
Upload ==
  /\ Spend("wayline") /\ wayline.file # NoName /\ ~wayline.uploading
  /\ wayline' = [wayline EXCEPT !.state = "uploading", !.uploading = TRUE]
  /\ push' = wayline.file
  /\ UNCHANGED <<kmz, gimbalVars, posted>>

UploadProgress ==
  /\ push # NoName
  /\ wayline' = [wayline EXCEPT !.state = "uploading"]
  /\ UNCHANGED <<kmz, push, gimbalVars, uiVars>>

\* onSuccess, onFailure
Uploaded(state) ==
  /\ push # NoName
  /\ wayline' = [wayline EXCEPT !.state = state, !.uploading = FALSE]
  /\ push' = NoName
  /\ UNCHANGED <<kmz, gimbalVars, uiVars>>

\* clearSelection does nothing while an upload runs.
MayClear(w) == ~w.uploading

ClearSelection ==
  /\ Spend("wayline") /\ MayClear(wayline)
  /\ kmz' = [n \in Names |-> IF n = wayline.file THEN 0 ELSE kmz[n]]
  /\ wayline' = NoSelection
  /\ UNCHANGED <<push, gimbalVars, posted>>

WaylineStep ==
  \/ \E n \in Names : Import(n)
  \/ Upload \/ UploadProgress \/ (\E s \in {"uploaded", "error"} : Uploaded(s)) \/ ClearSelection

-----------------------------------------------------------------------------

\* A gimbal that was nudged comes to rest, unless the operator is shown that the
\* stop failed, however nudges and stops overlap: once every command is carried out
\* and answered and no stop is posted, it does not turn unwarned.  What is pending runs
\* out, as a stop posts nothing.  (nudgeGimbal 95-135, stop 181-186)
GimbalRests == commands = <<>> /\ answers = <<>> /\ gimbal.delayed = 0 => ~turning \/ gimbal.warned

===============================================================================
