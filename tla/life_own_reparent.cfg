SPECIFICATION Spec
CONSTANTS
  None = None
  main = main
  dialog = dialog
  other = other
  Client = {main}
  NumVScreens = 1
  NumWorkspaces = 2
  TransientFor <- Nobody
  Group <- Nobody
  InitialState <- MainNormal
  Configured <- Anywhere
  Desktop <- Anywhere
  TransientHasOccupation = FALSE
  RestartPreviousState = TRUE
  NoIcon = {}
  StartSqueezed = {}
  WarpCursor = {}
  WarpOnDeIconify = {}
  DontSetInactive = {}
  UnmapByMovingFarAway = {}
  VScreenMaps <- FirstRun
  WarpUnmapped = TRUE
  AutoPopup = {}
  Sessions = {{"withdraw", "hurry"}}
PROPERTIES
  ClientsSurvive
CHECK_DEADLOCK FALSE
