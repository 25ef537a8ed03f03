\* f.move chosen from the menu of a window.
CONSTANTS
  Window = {w}
  m1 = m1
  m2 = m2
  p1 = p1
  p2 = p2
  Menu = {m1, m2}
  MenuItems <- MCMenuItems
  PinnedOf <- MCPinnedOf
  Bound <- MCBound
  FunctionItems <- MCFunctionItems
  Button = {left}
  None = None
  Place = {a, b}
  StayUpMenus = FALSE
  GrabServer = TRUE
  OpaqueMove = TRUE
  OpaqueResize = FALSE
  HasMoveDelta = FALSE
  MAXMENUDEPTH = 2
  Uses = {}
SPECIFICATION Spec
INVARIANTS FrameIsWhereItIsShown
CHECK_DEADLOCK FALSE
