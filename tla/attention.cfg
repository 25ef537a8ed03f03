\* Three windows and two workspaces; focus under the pointer, with TitleFocus.
SPECIFICATION FairSpec
CONSTANTS
  None = None
  left = left
  right = right
  third = third
  Win = {left, right, third}
  FirstWindow <- ThreeWindows
  Point <- Places
  PartAt <- Where
  WarpPoint <- Middle
  WorkSpace = {1, 2}
  Occupation <- RightElsewhere
  Input = {left, right}
  DoesWmTakeFocus = {right}
  AutoRaise = {left, right}
  AutoLower = {left, third}
  WindowRing = {left, right, third}
  TitleFocus = TRUE
  SloppyFocus = FALSE
  ClickToFocus = FALSE
  SaveWorkspaceFocus = TRUE
  WarpUnmapped = TRUE
  WarpRingAnyWhere = TRUE
  RaiseOnWarp = TRUE
  Iconifiable = {left, right}
  Sessions = {{"move", "warpring", "iconify", "answer"}, {"move", "warpring", "ring", "workspace", "answer"}, {"move", "warpring", "iconify", "destroy", "hurry", "workspace"}, {"move", "focus", "unfocus", "press"}, {"move", "active", "iconify", "answer"}}
  MaxActs = 5
INVARIANTS NothingDangles FocusIsTrue FocusFollowsPointer
PROPERTIES AttentionSettles
CHECK_DEADLOCK FALSE
