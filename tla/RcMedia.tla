--------------------------------- MODULE RcMedia ---------------------------------
(***************************************************************************)
(* The media library of the RC app: MediaLibraryController and the screen  *)
(* MediaActivity, which starts it in onCreate and stops it in onDestroy.   *)
(* When one screen is opened while another closes, onDestroy of the old    *)
(* one may come after onCreate of the new one.  The MSDK answers enable,   *)
(* list pulls and downloads when it likes, also after a stop.              *)
(***************************************************************************)
EXTENDS RcUi

CONSTANTS
  MediaFiles,    \* files on the camera, by index
  Chunks,        \* pieces in which the camera sends a file
  MaxScreens,    \* bound: MediaActivity instances alive at once
  MaxDownloads   \* bound: downloads in one behaviour

ASSUME MediaAssumption ==
  /\ Chunks \in Nat \ {0} /\ MaxScreens \in Nat \ {0} /\ MaxDownloads \in Nat

VARIABLES
  screens,    \* MediaActivity instances alive
  library,    \* MediaLibraryController: its fields and what its snapshot shows
  manager,    \* MSDK: is the list listener registered, calls without an answer
  downloads,  \* every pull of a file, in order
  disk        \* what the file of the RC with the name of a camera file contains

mediaVars == <<screens, library, manager, downloads, disk>>

\* Content no file on the RC has: there is no such file.
Gone == << <<>> >>
NoLibrary == [active |-> FALSE, enabled |-> FALSE, byIndex |-> {}, items |-> {}, current |-> 0, output |-> 0, saved |-> 0]

MediaInit ==
  /\ screens = 0
  /\ library = NoLibrary
  /\ manager = [listening |-> FALSE, enables |-> 0, pulls |-> 0]
  /\ downloads = <<>>
  /\ disk = [f \in MediaFiles |-> Gone]

\* start does nothing while the library is active.
Start ==
  IF library.active THEN UNCHANGED <<library, manager>>
  ELSE /\ library' = [library EXCEPT !.active = TRUE]
       /\ manager' = [manager EXCEPT !.listening = TRUE, !.enables = @ + 1]

\* stop
Stop ==
  IF ~library.active THEN UNCHANGED <<library, manager, downloads>>
  ELSE /\ downloads' = [d \in DOMAIN downloads |->
                          IF d = library.current THEN [downloads[d] EXCEPT !.left = TRUE] ELSE downloads[d]]
       /\ manager' = [manager EXCEPT !.listening = FALSE]
       /\ library' = NoLibrary

OpenScreen ==
  /\ Spend("media") /\ screens < MaxScreens
  /\ screens' = screens + 1
  /\ Start
  /\ UNCHANGED <<downloads, disk, posted>>

\* refresh
Pull(m) == IF library.active THEN [m EXCEPT !.pulls = @ + 1] ELSE m

Refresh ==
  /\ screens > 0 /\ Spend("media")
  /\ manager' = Pull(manager)
  /\ UNCHANGED <<screens, library, downloads, disk, posted>>

Enabled ==
  /\ manager.enables > 0
  /\ library' = [library EXCEPT !.enabled = TRUE]
  /\ manager' = Pull([manager EXCEPT !.enables = @ - 1])
  /\ UNCHANGED <<screens, downloads, disk, posted, left>>

EnableFailed ==
  /\ manager.enables > 0 /\ Spend("media")
  /\ manager' = [manager EXCEPT !.enables = @ - 1, !.listening = FALSE]
  /\ library' = [library EXCEPT !.active = FALSE, !.enabled = FALSE, !.byIndex = {}]
  /\ UNCHANGED <<screens, downloads, disk, posted>>

\* stateListener: the list is up to date.
Listed ==
  /\ manager.pulls > 0
  /\ manager' = [manager EXCEPT !.pulls = @ - 1]
  /\ library' = IF manager.listening THEN [library EXCEPT !.byIndex = MediaFiles, !.items = MediaFiles] ELSE library
  /\ UNCHANGED <<screens, downloads, disk, posted, left>>

\* The operator taps a file in the list.
Tapped(f) == screens > 0 /\ f \in library.items

Pulling == {d \in 1 .. Len(downloads) : ~downloads[d].ended}

\* Mutant of MayDownload: a second download may begin before the first has ended.
MayDownloadMore(f) == f \in library.byIndex

\* media_download_in_progress, media_file_not_found
MayDownload(f) == library.current = 0 /\ f \in library.byIndex

\* download: the file on the RC is emptied and pulled from the start.  "alone" notes
\* that no pull that a stop left behind is still running.
Download(f) ==
  /\ Tapped(f) /\ MayDownload(f)
  /\ Spend("media") /\ Len(downloads) < MaxDownloads
  /\ downloads' = Append(downloads, [file |-> f, got |-> 0, ended |-> FALSE, left |-> FALSE, alone |-> Pulling \ {library.current} = {}])
  /\ library' = [library EXCEPT !.current = Len(downloads'), !.output = Len(downloads'), !.saved = 0]
  /\ disk' = [disk EXCEPT ![f] = <<>>]
  /\ UNCHANGED <<screens, manager, posted>>

\* onRealtimeDataUpdate writes to whatever output is open now; what goes to a file
\* that was deleted is lost.
Received(d) ==
  /\ d \in Pulling /\ downloads[d].got < Chunks
  /\ downloads' = [downloads EXCEPT ![d].got = @ + 1]
  /\ LET open == downloads[library.output].file
         piece == <<downloads[d].file, downloads[d].got + 1>>
     IN disk' = IF library.output = 0 \/ disk[open] = Gone THEN disk ELSE [disk EXCEPT ![open] = Append(@, piece)]
  /\ UNCHANGED <<screens, library, manager, posted, left>>

\* onFinish
Finished(d) ==
  /\ d \in Pulling /\ downloads[d].got = Chunks
  /\ downloads' = [downloads EXCEPT ![d].ended = TRUE]
  /\ library' = [library EXCEPT !.current = 0, !.output = 0, !.saved = d]
  /\ UNCHANGED <<screens, manager, disk, posted, left>>

\* onFailure
Failed(d) ==
  /\ d \in Pulling
  /\ downloads' = [downloads EXCEPT ![d].ended = TRUE]
  /\ library' = [library EXCEPT !.current = 0, !.output = 0]
  /\ disk' = [disk EXCEPT ![downloads[d].file] = Gone]
  /\ UNCHANGED <<screens, manager, posted, left>>

\* A pull that was told to stop may also end without a callback.
Dropped(d) ==
  /\ d \in Pulling /\ downloads[d].left
  /\ downloads' = [downloads EXCEPT ![d].ended = TRUE]
  /\ UNCHANGED <<screens, library, manager, disk, posted, left>>

CloseScreen ==
  /\ screens > 0
  /\ screens' = screens - 1
  /\ Stop
  /\ UNCHANGED <<disk, posted, left>>

MediaStep ==
  \/ OpenScreen \/ Refresh \/ Enabled \/ EnableFailed \/ Listed \/ CloseScreen
  \/ \E f \in MediaFiles : Download(f)
  \/ \E d \in Pulling : Received(d) \/ Finished(d) \/ Failed(d) \/ Dropped(d)

-----------------------------------------------------------------------------

Whole(f) == [i \in 1 .. Chunks |-> <<f, i>>]

\* A file that the screen calls saved contains all of its data and nothing else, if
\* its download was not stopped and began when no stopped one was still running.
\* (download 148-189, onRealtimeDataUpdate, onFinish and onFailure share one output.)
SavedIsWhole ==
  LET d == library.saved IN
  d # 0 /\ downloads[d].alone /\ ~downloads[d].left => disk[downloads[d].file] = Whole(downloads[d].file)

===============================================================================
