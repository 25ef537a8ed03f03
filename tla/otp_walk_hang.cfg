\* Two dialogs of a window whose priority is set to what it is.
SPECIFICATION FairSpec
CONSTANTS
  None = None
  Foreign = Foreign
  main = main
  dialog = dialog
  other = other
  third = third
  icon = icon
  Win = {main, dialog, third}
  Icon = {}
  WinOf <- NoIcons
  TransientFor <- TwoDialogsOfMain
  Group <- NoGroups
  WType <- AllNormal
  DefaultPriority <- DefaultZero
  DefaultSwitching <- NoSwitching
  Preferences <- NoPrefs
  UserPriorities <- Zero
  UserDeltas = {}
  Togglable = {}
  Switchable = {}
  Zooms = {}
  Zoomable = {}
  StackModeWins = {}
  ClientFlags = {}
  InputWins = {}
  RaiseOnResize = TRUE
PROPERTIES HandlersReturn
