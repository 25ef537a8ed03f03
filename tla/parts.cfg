SPECIFICATION Spec
CONSTANTS
  None = None
  Freed = Freed
  w1 = w1
  w2 = w2
  w3 = w3
  Win = {w1, w2, w3}
  Manager <- MCManager
  IconMgrs <- MCIconMgrs
  NWorkSpaces = 2
  columns <- MCcolumns
  Name = {1, 2}
  SortIconMgr = TRUE
  ManagerSessions <- MCManagerSessions
  NoColormap = NoColormap
  root = root
  o1 = o1
  o2 = o2
  sub = sub
  Client = {o1, o2}
  Sub = {sub}
  Colormap = {1, 2, 3}
  Default = 1
  List <- MCList
  maxCmaps = 2
  Installable = 1
  ColormapSessions <- MCColormapSessions
  MaxActs = 3
  Monitors <- MCMonitors
  Margins <- MCMargins
  Places <- MCPlaces
  frame_bw = 1
  Nobody = Nobody
  NoIcon = NoIcon
  Plain = Plain
  IWin = {w1, w2, w3}
  RegionWorkSpace = {1, 2}
  IconRegions <- MCIconRegions
  WindowRegions <- MCWindowRegions
  FrameSize <- MCFrameSize
  Names = {1, 2, 3}
  TitleWidth <- MCTitleWidth
  FirstName <- MCFirstName
  LaterNames <- MCLaterNames
  FirstOcc <- MCFirstOcc
  LaterOcc <- MCLaterOcc
  Pattern <- MCPattern
  ImageSize <- MCImageSize
  TitleHeight = 1
  Leader <- MCLeader
  IconWindow <- MCNoSizes
  FarAway = {}
  Spots <- MCSpots
  RegionSessions <- MCRegionSessions
  GWin = {w1, w2, w3}
  Hints <- MCHints
  Size <- MCSize
  TitleBar = 3
  MaxWindow <- MCMaxWindow
  MoveGrid <- MCMoveGrid
  MovePackResistance = 10
  GeometrySessions <- MCGeometrySessions
  Part = {"managers", "colormaps", "layout", "regions", "geometry"}
INVARIANTS EntriesAgree SearchesEnd CountsAgree TopColormapIsInstalled UnzoomRestores PlacesAreApart PlacesAreFreed SizesAreLegal ResizeKeepsASide
PROPERTIES InstallingEnds StripesAreWhole LayoutGetsReady WindowsStayVisible PackingKeepsApart
CHECK_DEADLOCK FALSE
