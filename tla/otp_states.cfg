\* EWMH states, fullscreen and focus among windows without dialogs, and a dock.
SPECIFICATION Spec
CONSTANTS
  None = None
  Foreign = Foreign
  main = main
  dialog = dialog
  other = other
  third = third
  icon = icon
  Win = {main, other, third}
  Icon = {}
  WinOf <- NoIcons
  TransientFor <- NoTransients
  Group <- NoGroups
  WType <- OtherIsDock
  DefaultPriority <- DefaultZero
  DefaultSwitching <- NoSwitching
  Preferences <- DockPrefs
  UserPriorities = {}
  UserDeltas = {}
  Togglable = {}
  Switchable = {}
  Zooms = {"fullscreen", "zoom"}
  Zoomable = {main}
  StackModeWins = {}
  ClientFlags = {"BELOW"}
  InputWins = {main, other}
  RaiseOnResize = TRUE
INVARIANTS NoAbort StashIsCurrent
PROPERTIES ImplementsLayers
