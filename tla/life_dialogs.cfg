SPECIFICATION Spec
CONSTANTS
  None = None
  main = main
  dialog = dialog
  other = other
  Client = {main, dialog, other}
  NumVScreens = 1
  NumWorkspaces = 2
  TransientFor <- DialogOfMain
  Group <- GroupOfDialog
  InitialState <- NoHints
  Configured <- Anywhere
  Desktop <- Anywhere
  TransientHasOccupation = FALSE
  RestartPreviousState = TRUE
  NoIcon = {}
  StartSqueezed = {}
  WarpCursor = {}
  WarpOnDeIconify = {other}
  DontSetInactive = {main}
  UnmapByMovingFarAway = {dialog}
  VScreenMaps <- FirstRun
  WarpUnmapped = TRUE
  AutoPopup = {main}
  Sessions = {{"names", "occupy", "iconify", "warp", "occupation", "dialogs", "workspaces", "withdraw"}, {"hurry", "workspaces", "withdraw", "remap", "destroy"}, {"popup", "iconify", "workspaces", "destroy"}}
INVARIANTS
  DeadAreForgotten
PROPERTIES
  DialogsFollow
CHECK_DEADLOCK FALSE
