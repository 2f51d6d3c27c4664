-------------------------------- MODULE RcScreens --------------------------------
(***************************************************************************)
(* The map and the live video of the RC app (MapActivity, VideoActivity)   *)
(* and the telemetry sources they listen to.  A source tells its listeners *)
(* on the MSDK's thread; the screen posts what it was told to the UI       *)
(* thread, where it may run after the screen has been destroyed.           *)
(***************************************************************************)
EXTENDS RcUi, SequencesExt

CONSTANTS
  Places,      \* positions
  Nowhere,     \* no valid position
  MaxPath,     \* MAX_FLIGHT_PATH_POINTS
  Cameras,     \* camera positions
  MainCamera,  \* LEFT_OR_MAIN
  NoCamera,
  MaxSurfaces, \* bound: surfaces the window system hands out
  MaxOpened    \* bound: times each screen is opened

ASSUME ScreensAssumption ==
  /\ Nowhere \notin Places /\ MainCamera \in Cameras /\ NoCamera \notin Cameras
  /\ MaxPath \in Nat \ {0} /\ MaxSurfaces \in Nat /\ MaxOpened \in Nat

VARIABLES
  source,    \* the last position each source has
  map,       \* MapActivity: its instance, markers, flight path
  sensors,   \* SensorInventorySource: the cameras that are connected
  video,     \* VideoActivity: its instance, surface and selection
  alive,     \* surfaces that exist
  made,      \* surfaces made so far
  streams,   \* CameraStreamManager: which camera it draws on which surface
  settings   \* setValue calls for the stream source: instances that wait for an answer

mapVars == <<source, map>>
videoVars == <<sensors, video, alive, made, streams, settings>>
screenVars == <<mapVars, videoVars>>

Drawn == {"aircraft", "rc", "rtk"}
Blank == [k \in Drawn |-> Nowhere]

ScreensInit ==
  /\ source = Blank
  /\ map = [by |-> 0, open |-> FALSE, ready |-> FALSE, marker |-> Blank, path |-> <<>>, last |-> Nowhere, line |-> <<>>]
  /\ sensors = {}
  /\ video = [by |-> 0, open |-> FALSE, surface |-> 0, sized |-> FALSE, camera |-> MainCamera, options |-> <<MainCamera>>]
  /\ alive = {} /\ made = 0
  /\ streams = [s \in 1 .. MaxSurfaces |-> NoCamera]
  /\ settings = {}

-----------------------------------------------------------------------------
\* The map.

\* isValidCoordinate
Positions == Places \cup {Nowhere}

TellMap(k, p) ==
  IF map.open THEN Post(<<[to |-> "map", by |-> map.by, what |-> k, at |-> p]>>) ELSE UNCHANGED posted

\* A source takes over a new position and tells the map, if it listens.
Moved(k, p) ==
  /\ Spend("map") /\ source[k] # p
  /\ source' = [source EXCEPT ![k] = p]
  /\ TellMap(k, p)
  /\ UNCHANGED <<map, videoVars>>

\* redrawFlightPath
Redraw(m) == IF ~m.ready THEN m ELSE [m EXCEPT !.line = IF Len(m.path) < 2 THEN <<>> ELSE m.path]

\* appendFlightPath: a point that has not moved is not added, the oldest goes.
AppendFlightPath(m, p) ==
  IF m.last = p THEN m
  ELSE LET path == Append(m.path, p) IN
       Redraw([m EXCEPT !.last = p, !.path = IF Len(path) > MaxPath THEN Tail(path) ELSE path])

\* renderAircraft keeps the marker of an aircraft that has no position any more;
\* renderRemoteController and renderRtk remove theirs.
Render(m, k, p) ==
  IF ~m.ready \/ (k = "aircraft" /\ p = Nowhere) THEN m
  ELSE LET marked == [m EXCEPT !.marker[k] = p] IN
       IF k = "aircraft" THEN AppendFlightPath(marked, p) ELSE marked

RenderAll(m) == Render(Render(Render(m, "aircraft", source["aircraft"]), "rc", source["rc"]), "rtk", source["rtk"])

\* onCreate: the listeners are told at once, when there is no map yet.
OpenMap ==
  /\ Spend("map") /\ ~map.open /\ map.by < MaxOpened
  /\ map' = [by |-> map.by + 1, open |-> TRUE, ready |-> FALSE, marker |-> Blank, path |-> <<>>, last |-> Nowhere, line |-> <<>>]
  /\ UNCHANGED <<source, videoVars, posted>>

\* Mutant of Styled: the map waits for the next position.
StyledEmpty(m) == [m EXCEPT !.ready = TRUE]

\* Once the style is loaded the map shows what the sources have by then.
Styled(m) == RenderAll([m EXCEPT !.ready = TRUE])

StyleLoaded ==
  /\ map.open /\ ~map.ready
  /\ map' = Styled(map)
  /\ UNCHANGED <<source, videoVars, uiVars>>

ClearPath ==
  /\ Spend("map") /\ map.open
  /\ map' = Redraw([map EXCEPT !.path = <<>>, !.last = Nowhere])
  /\ UNCHANGED <<source, videoVars, posted>>

\* onDestroy
CloseMap ==
  /\ map.open
  /\ map' = [map EXCEPT !.open = FALSE]
  /\ UNCHANGED <<source, videoVars, uiVars>>

MapRuns(r) ==
  /\ map' = IF r.by = map.by THEN Render(map, r.what, r.at) ELSE map
  /\ UNCHANGED <<source, videoVars>>

-----------------------------------------------------------------------------
\* The video.

\* refreshOptions: the selection moves to a camera that is there.
RefreshOptions(v, cameras) ==
  LET options == IF cameras = {} THEN <<MainCamera>> ELSE SetToSeq(cameras) IN
  [v EXCEPT !.options = options, !.camera = IF Contains(options, @) THEN @ ELSE options[1]]

\* mutate, publish
TellVideo(cameras) ==
  /\ sensors' = cameras
  /\ IF video.open THEN Post(<<[to |-> "video", by |-> video.by, what |-> "sensors", cameras |-> cameras]>>) ELSE UNCHANGED posted

\* A camera is connected or disconnected.
SensorsChange(cameras) ==
  /\ Spend("video") /\ cameras # sensors
  /\ TellVideo(cameras)
  /\ UNCHANGED <<video, alive, made, streams, settings, mapVars>>

OpenVideo ==
  /\ Spend("video") /\ ~video.open /\ video.by < MaxOpened
  /\ video' = RefreshOptions([video EXCEPT !.by = @ + 1, !.open = TRUE, !.surface = 0, !.sized = FALSE, !.camera = MainCamera], sensors)
  /\ UNCHANGED <<sensors, alive, made, streams, settings, mapVars, posted>>

\* bindSurface puts the screen's surface on the camera that is selected now.
Bind(v) ==
  streams' = IF v.surface = 0 \/ ~v.sized THEN streams ELSE [streams EXCEPT ![v.surface] = v.camera]

\* surfaceCreated: the window has a surface while the screen is shown.
SurfaceCreated ==
  /\ video.open /\ video.surface = 0 /\ made < MaxSurfaces
  /\ made' = made + 1
  /\ alive' = alive \cup {made'}
  /\ video' = [video EXCEPT !.surface = made']
  /\ UNCHANGED <<sensors, streams, settings, mapVars, uiVars>>

SurfaceChanged ==
  /\ video.open /\ video.surface # 0 /\ ~video.sized
  /\ video' = [video EXCEPT !.sized = TRUE]
  /\ Bind(video')
  /\ UNCHANGED <<sensors, alive, made, settings, mapVars, uiVars>>

Release(s) == streams' = IF s = 0 THEN streams ELSE [streams EXCEPT ![s] = NoCamera]

SurfaceDestroyed ==
  /\ video.open /\ video.surface # 0
  /\ Release(video.surface)
  /\ alive' = alive \ {video.surface}
  /\ video' = [video EXCEPT !.surface = 0, !.sized = FALSE]
  /\ UNCHANGED <<sensors, made, settings, mapVars, uiVars>>

\* A camera is picked in the spinner.
SelectCamera(c) ==
  /\ Spend("video") /\ video.open /\ Contains(video.options, c) /\ c # video.camera
  /\ video' = [video EXCEPT !.camera = c]
  /\ UNCHANGED <<sensors, alive, made, streams, settings, mapVars, posted>>

\* applySelection
Apply ==
  /\ Spend("video") /\ video.open /\ video.by \notin settings
  /\ settings' = settings \cup {video.by}
  /\ UNCHANGED <<sensors, video, alive, made, streams, mapVars, posted>>

\* setValue succeeds, at whatever time, or fails.
SourceSet(by) ==
  /\ settings' = settings \ {by}
  /\ Post(<<[to |-> "video", by |-> by, what |-> "applied"]>>) \/ UNCHANGED posted
  /\ UNCHANGED <<sensors, video, alive, made, streams, mapVars, left>>

\* "Bild einpassen", "Bild füllen"
Fit ==
  /\ video.open /\ Bind(video)
  /\ UNCHANGED <<sensors, video, alive, made, settings, mapVars, uiVars>>

\* onDestroy, perhaps before the window takes the surface away.
Forgets(v) == [v EXCEPT !.open = FALSE, !.surface = 0]

CloseVideo ==
  /\ video.open
  /\ Release(video.surface)
  /\ video' = Forgets(video)
  /\ UNCHANGED <<sensors, alive, made, settings, mapVars, uiVars>>

\* The window's surface goes when its screen is gone; the screen is not told.
SurfaceGone(s) ==
  /\ s \in alive /\ ~(video.open /\ video.surface = s)
  /\ alive' = alive \ {s}
  /\ UNCHANGED <<sensors, video, made, streams, settings, mapVars, uiVars>>

\* A runnable of an older instance finds its own surface gone.
VideoRuns(r) ==
  /\ IF r.by # video.by THEN UNCHANGED <<video, streams>>
     ELSE IF r.what = "sensors" THEN video' = RefreshOptions(video, r.cameras) /\ UNCHANGED streams
     ELSE Bind(video) /\ UNCHANGED video
  /\ UNCHANGED <<sensors, alive, made, settings, mapVars>>

-----------------------------------------------------------------------------

\* The UI thread runs what was posted first.
UiRuns ==
  /\ posted # <<>> /\ posted' = Tail(posted)
  /\ LET r == Head(posted) IN IF r.to = "map" THEN MapRuns(r) ELSE VideoRuns(r)
  /\ UNCHANGED left

ScreensStep ==
  \/ \E k \in Drawn, p \in Positions : Moved(k, p)
  \/ OpenMap \/ StyleLoaded \/ ClearPath \/ CloseMap
  \/ (\E c \in SUBSET Cameras : SensorsChange(c)) \/ (\E c \in Cameras : SelectCamera(c))
  \/ OpenVideo \/ SurfaceCreated \/ SurfaceChanged \/ SurfaceDestroyed \/ Apply \/ Fit \/ CloseVideo
  \/ (\E by \in settings : SourceSet(by)) \/ (\E s \in alive : SurfaceGone(s))
  \/ UiRuns

-----------------------------------------------------------------------------

\* Once everything that was posted to it has run, a loaded map marks the position of
\* every source, whenever the style was loaded and whatever came before that; only an
\* aircraft without a position keeps its old marker.  The flight path that is drawn is
\* the one that is kept, it ends at the aircraft's marker and never repeats a point
\* (MapActivity 189-226, 343-379).
MapCatchesUp ==
  /\ map.open /\ map.ready /\ Unheard("map", map.by) =>
       \A k \in Drawn : map.marker[k] = source[k] \/ (k = "aircraft" /\ source[k] = Nowhere)
  /\ map.line = IF Len(map.path) < 2 THEN <<>> ELSE map.path
  /\ map.path # <<>> => Last(map.path) = map.marker["aircraft"] /\ map.last = Last(map.path)
  /\ \A i \in 1 .. Len(map.path) - 1 : map.path[i] # map.path[i + 1]

===============================================================================
