SPECIFICATION Spec
CONSTANTS
  None = None
  main = main
  dialog = dialog
  other = other
  Client = {main, other}
  NumVScreens = 2
  NumWorkspaces = 3
  TransientFor <- Nobody
  Group <- Nobody
  InitialState <- MainNormal
  Configured <- Anywhere
  Desktop <- OtherElsewhere
  TransientHasOccupation = FALSE
  RestartPreviousState = TRUE
  NoIcon = {other}
  StartSqueezed = {}
  WarpCursor = {other}
  WarpOnDeIconify = {}
  DontSetInactive = {}
  UnmapByMovingFarAway = {}
  VScreenMaps <- TwoMaps
  WarpUnmapped = TRUE
  AutoPopup = {}
  Sessions = {{"names", "iconify", "warp", "occupation", "occupy", "workspaces", "withdraw", "destroy", "restart"}, {"squeeze", "iconify", "workspaces", "restart", "occupation"}, {"background", "iconify", "withdraw", "restart"}}
INVARIANTS
  OnScreenIffOccupies
  FlagsTellTheTruth
  PropertiesTell
  ClientsAreServed
PROPERTIES
  RestartKeepsWindows
  ClientsSurvive
  BackgroundComesBack
CHECK_DEADLOCK FALSE
