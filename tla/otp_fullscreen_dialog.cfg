\* The dialog of a fullscreen window keeps the FULLSCREEN it inherited.
SPECIFICATION Spec
CONSTANTS
  None = None
  Foreign = Foreign
  main = main
  dialog = dialog
  other = other
  third = third
  icon = icon
  Win = {main, dialog, other}
  Icon = {}
  WinOf <- NoIcons
  TransientFor <- DialogOfMain
  Group <- NoGroups
  WType <- AllNormal
  DefaultPriority <- DefaultZero
  DefaultSwitching <- NoSwitching
  Preferences <- DockPrefs
  UserPriorities = {}
  UserDeltas = {}
  Togglable = {}
  Switchable = {}
  Zooms = {"fullscreen"}
  Zoomable = {main}
  StackModeWins = {}
  ClientFlags = {}
  InputWins = {main, other}
  RaiseOnResize = TRUE
INVARIANTS NoAbort
