\* An icon, a dialog in the window group, fullscreen, both ends of the priority
\* range, and sibling restacking.  ctwm may abort here, and then stops.
SPECIFICATION Spec
CONSTANTS
  None = None
  Foreign = Foreign
  main = main
  dialog = dialog
  other = other
  third = third
  icon = icon
  Win = {main, other}
  Icon = {icon}
  WinOf <- IconOfMain
  TransientFor <- OtherDialogOfMain
  Group <- GroupOfMain
  WType <- AllNormal
  DefaultPriority <- DefaultZero
  DefaultSwitching <- NoSwitching
  Preferences <- NoPrefs
  UserPriorities <- ZeroAndInvalid
  UserDeltas <- Extremes
  Togglable = {}
  Switchable = {}
  Zooms = {"xfullscreen"}
  Zoomable = {main}
  StackModeWins = {other}
  ClientFlags = {}
  InputWins = {main}
  RaiseOnResize = TRUE
INVARIANTS TypeOK ListIsAStack
CHECK_DEADLOCK FALSE
