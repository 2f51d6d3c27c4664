SPECIFICATION Spec
CONSTANTS
  Budgets <- MCBudgets
  MediaFiles = {f1, f2}
  Chunks = 2
  MaxScreens = 2
  MaxDownloads = 3
  Names = {n1, n2}
  NoName = NoName
  MaxCommands = 3
  MaxVersions = 2
  Inventory <- MCInventory
  Places = {p1, p2}
  Nowhere = Nowhere
  MaxPath = 2
  Cameras = {c1, c2}
  MainCamera = c1
  NoCamera = NoCamera
  MaxSurfaces = 2
  MaxOpened = 2
  Assets = {a1, a2}
  Placed = {a1}
  MaxIngests = 3
  Pairs = {"p1", "p2"}
  NoPair = NoPair
  Aircraft = {d1}
  RtkMissions = {m1}
  NoMission = NoMission
  MaxTransitions = 2
  MaxShown = 2
  MaxHistory = 2
  Thermal = {d1}
  Viewers = {v1, v2}
  NoViewer = NoViewer
  MaxOffers = 1
  FirstOf <- MCFirstOf
  Configured = NoPair
  Routes = {r1}
  NoRoute = NoRoute
 
INVARIANT ConnectedIsHeard
INVARIANT MapCatchesUp
INVARIANT ServedIsStored
INVARIANT ConsoleIsCurrent
INVARIANT LayersFollow
INVARIANT WorkspaceFollows
INVARIANT LinkIsShown
INVARIANT GimbalRests
CHECK_DEADLOCK FALSE
