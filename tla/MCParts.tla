------------------------------ MODULE MCParts ------------------------------
(***************************************************************************)
(* Components that do not meet are checked in one run: part tells which one *)
(* moves, the others stay as they were at their start.                      *)
(***************************************************************************)
EXTENDS Managers, Colormaps, Layout, Regions, Geometry

CONSTANTS w1, w2, w3, o1, o2, sub, Part

VARIABLE part

(***************************************************************************)
(* The icon managers and the colormaps.                                     *)
(***************************************************************************)

MCManager == <<"m", "n">>
MCIconMgrs == [w \in Win |-> IF w = w3 THEN "n" ELSE "m"]
MCcolumns == [m \in Mgr |-> IF m = "m" THEN 1 ELSE 2]
MCManagerSessions ==
  {{"occupy", "workspace"}, {"workspace", "focus"}, {"occupy", "name", "sort"}, {"destroy", "focus", "move"},
   {"destroy", "enter", "iconify", "movemapped"}, {"destroy", "occupy", "hide"}}

MCList ==
  {[o \in Client |-> <<>>], [o \in Client |-> <<o, sub>>],
   [o \in Client |-> IF o = o1 THEN <<sub, o2>> ELSE <<sub>>]}
MCColormapSessions ==
  {{"enter", "push"}, {"enter", "bump"},
   {"enter", "visibility", "property"}, {"enter", "set"}, {"enter", "install"},
   {"enter", "destroy"}}

(***************************************************************************)
(* The monitors: side by side, in steps, touching at a corner, overlapping, *)
(* apart, the same twice, one in another, from one corner, joined by a       *)
(* bridge.                                                                 *)
(***************************************************************************)

MCMonitors ==
  LET A(x0, y0, w, h) == RAreaNew(x0, y0, w, h)
  IN  {<<A(0, 0, 4, 4), A(4, 0, 4, 3)>>, <<A(0, 0, 3, 3), A(1, 3, 4, 3), A(5, 0, 3, 6)>>,
       <<A(0, 0, 4, 4), A(4, 4, 3, 3)>>, <<A(0, 0, 5, 4), A(1, 1, 5, 4)>>,
       <<A(0, 0, 3, 3), A(5, 0, 3, 3)>>, <<A(0, 0, 3, 3), A(0, 0, 3, 3)>>,
       <<A(0, 0, 6, 6), A(1, 1, 3, 3)>>, <<A(0, 0, 3, 3), A(0, 0, 4, 2)>>,
       <<A(0, 0, 3, 7), A(3, 2, 3, 3), A(6, 0, 3, 7)>>}
Margin(n) == [left |-> n, right |-> 0, top |-> 0, bottom |-> 0]
MCMargins == {Margin(0), Margin(1)}
MCPlaces ==
  {RAreaNew(x0, y0, 1, 2) : x0 \in {-3, 4}, y0 \in {0, 3, 9}}
    \cup {RAreaNew(0, 0, 1, 1), RAreaNew(5, 2, 3, 1)}

(***************************************************************************)
(* The regions: two for icons, filled from opposite corners, and one for    *)
(* windows.                                                                 *)
(***************************************************************************)

MCRegion(x0, grav1, grav2, step, wins_, just) ==
  [x |-> x0, y |-> 0, w |-> 4, h |-> 4, grav1 |-> grav1, grav2 |-> grav2,
   stepx |-> step, stepy |-> 1, wins |-> wins_, just |-> just]
MCIconRegions ==
  <<MCRegion(0, "north", "west", 1, {}, "left"), MCRegion(4, "south", "east", 2, {w2}, "center")>>
MCWindowRegions == <<MCRegion(0, "south", "west", 1, {w1, w2}, "left")>>
MCFrameSize == [w \in IWin |-> IF w = w1 THEN <<2, 3>> ELSE <<2, 2>>]
MCTitleWidth == <<2, 4, 3>>
MCPattern == <<"pat", Plain, "pit">>
MCFirstName == [w \in IWin |-> IF w = w3 THEN 2 ELSE 1]
MCLaterNames == [w \in IWin |-> IF w = w2 THEN {1, 2, 3} ELSE {}]
MCFirstOcc == [w \in IWin |-> IF w = w2 THEN {{1, 2}} ELSE {{1}}]
MCLaterOcc ==
  [w \in IWin |-> CASE w = w1 -> {{1}, {2}, {1, 2}} [] w = w2 -> {{1}, {2}} [] w = w3 -> {}]
MCImageSize == [k \in {"pat", "pit", Plain} |-> IF k = Plain THEN <<0, 0>> ELSE <<2, 1>>]
MCLeader == [w \in IWin |-> IF w = w3 THEN w1 ELSE Nobody]
MCNoSizes == [w \in {} |-> <<0, 0>>]
MCSpots == {<<0, 0>>, <<5, 1>>, <<9, 9>>}
MCRegionSessions ==
  {{"destroy", "drag"}, {"occupy"}, {"rename"}, {"shrink", "rename"},
   {"shrink", "occupy"}}

(***************************************************************************)
(* Sizes and places: a client with a minimum, a maximum and increments, one *)
(* without wishes, one with an aspect; monitors that touch, and some that   *)
(* do not share a row or a column.                                          *)
(***************************************************************************)

MCHints ==
  [w \in GWin |-> CASE w = w1 -> [min |-> <<8, 6>>, max |-> <<61, 50>>, inc |-> <<4, 3>>, gravity |-> <<-1, -1>>]
                    [] w = w2 -> [gravity |-> <<1, 1>>]
                    [] OTHER -> [base |-> <<2, 2>>, inc |-> <<5, 5>>, gravity |-> <<-1, 1>>,
                                 aspect |-> <<1, 2, 2, 1>>]]
MCSize == [w \in GWin |-> CASE w = w1 -> <<24, 18>> [] w = w2 -> <<20, 15>> [] OTHER -> <<17, 12>>]
MCMaxWindow == <<500, 500>>
MCMoveGrid == <<8, 5>>

MCTouching == <<RAreaNew(0, 0, 100, 80), RAreaNew(100, 0, 60, 50)>>
MCDiagonal == <<RAreaNew(0, 0, 60, 50), RAreaNew(70, 60, 60, 50)>>
MCSession ==
  [monitors |-> MCTouching, borders |-> Margin(0), bw |-> 1, uses |-> {"given"}, acts |-> 2,
   windows |-> <<w1, w2, w3>>, given |-> <<{<<5, 5>>, <<60, 40>>}, {<<5, 50>>, <<110, 10>>}, {<<40, 20>>}>>,
   pointers |-> {}, displacement |-> <<10, 10>>, DontMoveOff |-> FALSE, PackNewWindows |-> FALSE,
   OpaqueMove |-> TRUE, OpaqueResize |-> FALSE, AutoRelativeResize |-> FALSE,
   geometries |-> {}, changes |-> {}]
Using(u) == [MCSession EXCEPT !.uses = {"given"} \cup u]
MCGeometrySessions ==
  {[Using(u) EXCEPT !.bw = bw, !.acts = IF u = {"fill"} THEN 3 ELSE 2] :
     bw \in {0, 1}, u \in {{"pack", "jump"}, {"fill"}, {"vertical", "pack"}}}
  \cup
  {[Using({"changesize", "fill", "initsize"}) EXCEPT !.changes = {-9, 7}],
   [Using({"savegeometry", "restoregeometry", "changesize"}) EXCEPT !.acts = 3, !.changes = {7}],
   [Using({"savegeometry", "restoregeometry", "moveresize"}) EXCEPT !.acts = 3, !.geometries =
      {[says |-> {"x", "y", "width", "xnegative"}, x |-> -7, y |-> 90, width |-> 45, height |-> 10],
       [says |-> {"y", "height", "ynegative"}, x |-> 3, y |-> -3, width |-> 45, height |-> 90]}]}
  \cup
  {[Using({"move", "forcemove", "movepack"}) EXCEPT
      !.pointers = {-30, 50, 95} \X {-20, 13, 99},
      !.DontMoveOff = off, !.monitors = list, !.borders = Margin(4)] :
     off \in BOOLEAN, list \in {MCTouching, MCDiagonal}}
  \cup
  {[Using({"movepush"}) EXCEPT !.pointers = {2, 30, 95} \X {13, 46}, !.OpaqueMove = opaque] :
     opaque \in BOOLEAN}
  \cup
  {[Using({"resize", "menu resize"}) EXCEPT !.acts = 1, !.windows = <<w1, w3>>,
      !.pointers = {0, 8, 13, 28, 35, 150} \X {0, 7, 9, 20, 26, 44},
      !.AutoRelativeResize = auto, !.OpaqueResize = opaque] : auto \in BOOLEAN, opaque \in BOOLEAN}
  \cup
  {[MCSession EXCEPT !.uses = {"random"}, !.displacement = d, !.DontMoveOff = off] :
     d \in {<<10, 10>>, <<-30, 10>>, <<30, -10>>}, off \in BOOLEAN}
  \cup
  {[MCSession EXCEPT !.uses = {"asked", "given"}, !.pointers = {<<3, 7>>, <<70, 40>>, <<130, 60>>},
      !.PackNewWindows = pack, !.DontMoveOff = off] : pack \in BOOLEAN, off \in BOOLEAN}

(***************************************************************************)
(* One of them moves.                                                       *)
(***************************************************************************)

LayoutAtRest ==
  /\ layout = CHOOSE list \in Monitors : TRUE
  /\ making = [stage |-> "ready", monitors |-> layout, horiz |-> <<>>, work |-> <<>>]
  /\ bordered = [across |-> View(<<>>, <<>>), along |-> View(<<>>, <<>>)]
  /\ win = Placed(RAreaInvalid)

Init ==
  /\ part \in Part
  /\ part # "managers" => uses = CHOOSE u \in ManagerSessions : TRUE
  /\ part # "geometry" => ses = CHOOSE u \in GeometrySessions : TRUE
  /\ part # "regions" => does = CHOOSE u \in RegionSessions : TRUE
  /\ IF part = "layout" THEN LayoutInit ELSE LayoutAtRest
  /\ ManagersInit /\ RegionsInit /\ GeometryInit /\ ColormapsInit
  /\ part # "colormaps" => /\ x = ColormapsStarted([w \in Client \cup Sub |-> Default]).x
                           /\ user.uses = CHOOSE u \in ColormapSessions : TRUE

Next ==
  /\ UNCHANGED part
  /\ \/ /\ part = "managers" /\ ManagersNext
        /\ UNCHANGED <<colormapVars, layoutVars, regionVars, geoVars>>
     \/ /\ part = "colormaps" /\ ColormapsNext
        /\ UNCHANGED <<managerVars, layoutVars, regionVars, geoVars>>
     \/ /\ part = "layout" /\ LayoutNext
        /\ UNCHANGED <<managerVars, colormapVars, regionVars, geoVars>>
     \/ /\ part = "regions" /\ RegionsNext
        /\ UNCHANGED <<managerVars, colormapVars, layoutVars, geoVars>>
     \/ /\ part = "geometry" /\ GeometryNext
        /\ UNCHANGED <<managerVars, colormapVars, layoutVars, regionVars>>

partVars == <<part, managerVars, colormapVars, layoutVars, regionVars, geoVars>>

Spec == Init /\ [][Next]_partVars /\ ColormapsFair /\ LayoutFair

============================================================================
