\* Menus, opaque f.move and f.resize with an outline, on one window.
CONSTANTS
  Window = {w}
  m1 = m1
  m2 = m2
  p1 = p1
  p2 = p2
  Menu = {m1, m2}
  MenuItems <- MCMenuItems
  PinnedOf <- MCPinnedOf
  Bound <- MCBound
  FunctionItems <- MCFunctionItems
  Button = {left, right}
  None = None
  Place = {a, b}
  StayUpMenus = FALSE
  GrabServer = TRUE
  OpaqueMove = TRUE
  OpaqueResize = FALSE
  HasMoveDelta = FALSE
  MAXMENUDEPTH = 2
  Uses = {"keys", "abort", "alt", "identify", "destroy"}
SPECIFICATION Spec
SYMMETRY MCSymmetry
INVARIANTS MenusAreTheChain DragEnds
PROPERTIES LastReleaseFrees AbortRestores
CHECK_DEADLOCK FALSE
