\* A window, its dialog and another window; priorities, priority switching and
\* preferences that change.
SPECIFICATION FairSpec
CONSTANTS
  None = None
  Foreign = Foreign
  main = main
  dialog = dialog
  other = other
  third = third
  icon = icon
  Win = {main, dialog, other}
  Icon = {}
  WinOf <- NoIcons
  TransientFor <- DialogOfMain
  Group <- NoGroups
  WType <- AllNormal
  DefaultPriority <- DefaultZero
  DefaultSwitching <- NoSwitching
  Preferences <- SwitchingPrefs
  UserPriorities <- One
  UserDeltas = {}
  Togglable = {main}
  Switchable = {other}
  Zooms = {}
  Zoomable = {}
  StackModeWins = {}
  ClientFlags = {}
  InputWins = {}
  RaiseOnResize = TRUE
INVARIANTS PriorityAscends
PROPERTIES MovesReachTheirEnd TransientsMoveAlong HandlersReturn
