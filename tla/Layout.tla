------------------------------- MODULE Layout -------------------------------
(***************************************************************************)
(* The layout of the monitors, and what zooming and moving ask of it.  The  *)
(* areas of the monitors are cut and joined until no two touch sideways,    *)
(* for the horizontal stripes, and once more for the vertical ones; struts  *)
(* crop the monitors, and all is done again.  Each cut is a step here: only *)
(* in that way the question whether it comes to an end can be asked.        *)
(***************************************************************************)
EXTENDS Integers, SequencesExt

CONSTANTS
  Monitors,      \* bound: lists of areas that a server may report
  Margins,       \* bound: the borders that struts may ask for
  Places,        \* bound: where windows are put
  frame_bw       \* the border of the window

RAreaNew(x0, y0, w, h) == [x |-> x0, y |-> y0, width |-> w, height |-> h]
RAreaInvalid == RAreaNew(-1, -1, -1, -1)
RAreaIsValid(a) == a.width >= 0 /\ a.height >= 0
RAreaX2(a) == a.x + a.width - 1
RAreaY2(a) == a.y + a.height - 1
RAreaArea(a) == a.width * a.height

Area == {a \in [x : Int, y : Int, width : Int, height : Int] : TRUE}
ZoomFunction ==
  {"xzoom", "zoom", "xhorizoom", "horizoom", "xfullzoom", "fullzoom", "xleftzoom", "leftzoom",
   "xrightzoom", "rightzoom", "xtopzoom", "topzoom", "xbottomzoom", "bottomzoom"}

ASSUME LayoutAssumption ==
  /\ Monitors \subseteq Seq(Area)
  /\ \A list \in Monitors : list # <<>> /\ \A i \in DOMAIN list :
       list[i].width > 0 /\ list[i].height > 0
  /\ Margins \subseteq [left : Nat, right : Nat, top : Nat, bottom : Nat]
  /\ \A a \in Places : a \in Area /\ a.width > 0 /\ a.height > 0
  /\ frame_bw \in Nat

VARIABLES
  layout,     \* Scr->Layout: the monitors
  bordered,   \* Scr->BorderedLayout, seen across and along
  making,     \* the layout in the making: what is being joined, and how far
  win         \* a window: its area, its zoom, what it had before

layoutVars == <<layout, bordered, making, win>>

\* The points of an area and of a list of areas.
Points(a) == (a.x .. RAreaX2(a)) \X (a.y .. RAreaY2(a))
Covered(list) == UNION {Points(list[i]) : i \in DOMAIN list}

RAreaIsIntersect(a, b) ==
  /\ RAreaX2(b) >= a.x /\ b.x <= RAreaX2(a)
  /\ RAreaY2(b) >= a.y /\ b.y <= RAreaY2(a)

RAreaIntersect(a, b) ==
  LET x1 == Max({a.x, b.x})
      y1 == Max({a.y, b.y})
  IN  IF RAreaIsIntersect(a, b)
      THEN RAreaNew(x1, y1, Min({RAreaX2(a), RAreaX2(b)}) - x1 + 1,
                            Min({RAreaY2(a), RAreaY2(b)}) - y1 + 1)
      ELSE RAreaInvalid

\* Those of a list that are in a set, in its order.
Kept(list, good) ==
  LET upto[n \in 0 .. Len(list)] ==
        IF n = 0 THEN <<>>
        ELSE IF list[n] \in good THEN Append(upto[n - 1], list[n]) ELSE upto[n - 1]
  IN  upto[Len(list)]

(***************************************************************************)
(* Joining areas.  Vertical is horizontal with x and y exchanged.           *)
(***************************************************************************)

Flip(a) == RAreaNew(a.y, a.x, a.height, a.width)
Flipped(list) == [i \in DOMAIN list |-> Flip(list[i])]

\* mutant: two that cannot be one are given back as they are.
StackedOrBoth(a, b) ==
  IF a.width # b.width \/ a.x # b.x THEN <<a, b>>
  ELSE CASE RAreaY2(b) + 1 = a.y -> <<RAreaNew(a.x, b.y, a.width, a.height + b.height)>>
         [] RAreaY2(a) + 1 = b.y -> <<RAreaNew(a.x, a.y, a.width, a.height + b.height)>>
         [] OTHER -> <<>>

\* One over the other, of the same width: one area.
Stacked(a, b) ==
  IF a.width # b.width \/ a.x # b.x THEN <<>>
  ELSE CASE RAreaY2(b) + 1 = a.y -> <<RAreaNew(a.x, b.y, a.width, a.height + b.height)>>
         [] RAreaY2(a) + 1 = b.y -> <<RAreaNew(a.x, a.y, a.width, a.height + b.height)>>
         [] OTHER -> <<>>

\* An area is added only if it has a height.
High(a) == IF a.height > 0 THEN <<a>> ELSE <<>>

\* mutant: what is below the common part is left out.
RAreaHorizontalUnionHead(a, b) ==
  LET top == IF a.y < b.y THEN a ELSE b
      bot == IF a.y < b.y THEN b ELSE a
      minx == Min({a.x, b.x})
      low == Min({RAreaY2(top), RAreaY2(bot)})
      above == RAreaNew(top.x, top.y, top.width, bot.y - top.y)
      both == RAreaNew(minx, bot.y, Max({RAreaX2(a), RAreaX2(b)}) - minx + 1, low - bot.y + 1)
  IN  IF RAreaX2(b) < a.x - 1 \/ b.x > RAreaX2(a) + 1 THEN <<>>
      ELSE IF RAreaY2(b) < a.y \/ b.y > RAreaY2(a) THEN Stacked(a, b)
      ELSE High(above) \o High(both)

\* What the areas become; nothing if they stay as they are.
RAreaHorizontalUnion(a, b) ==
  LET top == IF a.y < b.y THEN a ELSE b
      bot == IF a.y < b.y THEN b ELSE a
      minx == Min({a.x, b.x})
      low == Min({RAreaY2(top), RAreaY2(bot)})
      rest == IF RAreaY2(bot) < RAreaY2(top) THEN top ELSE bot
      above == RAreaNew(top.x, top.y, top.width, bot.y - top.y)
      both == RAreaNew(minx, bot.y, Max({RAreaX2(a), RAreaX2(b)}) - minx + 1,
                       low - Max({top.y, bot.y}) + 1)
      below == RAreaNew(rest.x, low + 1, rest.width, RAreaY2(rest) - low)
  IN  IF RAreaX2(b) < a.x - 1 \/ b.x > RAreaX2(a) + 1 THEN <<>>
      ELSE IF RAreaY2(b) < a.y \/ b.y > RAreaY2(a) THEN Stacked(a, b)
      ELSE High(above) \o High(both) \o High(below)

\* The lists that a sorted list becomes when an area takes its place in it.
Sorted(s, a) ==
  LET upTo(b, c) == b.x < c.x \/ (b.x = c.x /\ b.y <= c.y)
  IN  {InsertAt(s, k, a) : k \in {i \in 1 .. Len(s) + 1 : /\ \A j \in 1 .. i - 1 : upTo(s[j], a)
                                                        /\ \A j \in i .. Len(s) : upTo(a, s[j])}}

\* As qsort may leave a list: by x, by y where that is the same, and in any order
\* where both are.
RAreaListSortX(list) ==
  LET upto[n \in 0 .. Len(list)] ==
        IF n = 0 THEN {<<>>} ELSE UNION {Sorted(s, list[n]) : s \in upto[n - 1]}
  IN  upto[Len(list)]

Touching(list) ==
  {p \in (DOMAIN list) \X (DOMAIN list) :
     p[1] < p[2] /\ RAreaHorizontalUnion(list[p[1]], list[p[2]]) # <<>>}

\* The first pair gives way to what it becomes.
Refined(list) ==
  LET pair == CHOOSE p \in Touching(list) : \A q \in Touching(list) :
                p[1] < q[1] \/ (p[1] = q[1] /\ p[2] <= q[2])
  IN  RemoveAt(RemoveAt(list, pair[2]), pair[1])
        \o RAreaHorizontalUnion(list[pair[1]], list[pair[2]])

(***************************************************************************)
(* Questions to a layout.                                                   *)
(***************************************************************************)

\* Those of a list that an area meets.
RAreaListIntersect(list, a) == {b \in Range(list) : RAreaIsIntersect(b, a)}

RAreaListBigArea(list) ==
  LET x1 == Min({a.x : a \in Range(list)})
      y1 == Min({a.y : a \in Range(list)})
  IN  IF list = <<>> THEN RAreaInvalid
      ELSE RAreaNew(x1, y1, Max({RAreaX2(a) : a \in Range(list)}) - x1 + 1,
                            Max({RAreaY2(a) : a \in Range(list)}) - y1 + 1)

\* Of those of a list, the one that has most of an area, the first of several.
RAreaListBestTarget(list, mit, a) ==
  LET it(i) == RAreaIntersect(a, list[i])
      good == {i \in DOMAIN list : list[i] \in mit /\ RAreaIsValid(it(i))}
      best == {i \in good : \A j \in good : RAreaArea(it(j)) <= RAreaArea(it(i))}
  IN  IF good = {} THEN RAreaInvalid ELSE list[Min(best)]

\* mutant: the left side that is furthest left.
RAreaListMaxXLeft(mit) == IF mit = {} THEN 0 ELSE Min({a.x : a \in mit})

\* The left side that is furthest right, and so on; 0 if there is none.
RAreaListMaxX(mit) == IF mit = {} THEN 0 ELSE Max({a.x : a \in mit})
RAreaListMinX2(mit) == IF mit = {} THEN 0 ELSE Min({RAreaX2(a) : a \in mit})

\* An area beside the layout is taken to the nearest side of it: the horizontal
\* case of a layout [horiz, big], the vertical one with all of it flipped.
RecenterHorizontally(l, far) ==
  LET inside(v) == v >= l.big.y /\ v <= RAreaY2(l.big)
      y0 == CASE inside(far.y) \/ inside(RAreaY2(far)) -> far.y
              [] ~inside(far.y) /\ RAreaY2(far) < l.big.y -> l.big.y - far.height + 1
              [] OTHER -> RAreaY2(l.big)
  IN  RAreaListIntersect(l.horiz, RAreaNew(l.big.x, y0, l.big.width, far.height))

HorizontalIntersect(l, a) ==
  LET mit == RAreaListIntersect(l.horiz, a)
  IN  IF mit = {} THEN RecenterHorizontally(l, a) ELSE mit

\* RLayoutFindLeftRightEdges
Sides(mit) == <<RAreaListMaxX(mit), RAreaListMinX2(mit)>>
Edges(l, a) == Sides(HorizontalIntersect(l, a))

\* The monitors whose side is further out than that of the area, if any.
RLayoutFindMonitorLeftEdge(l, a) ==
  LET out == {m \in RAreaListIntersect(l.monitors, a) : m.x < a.x}
  IN  IF out = {} THEN Edges(l, a)[1] ELSE RAreaListMaxX(out)

RLayoutFindMonitorRightEdge(l, a) ==
  LET out == {m \in RAreaListIntersect(l.monitors, a) : RAreaX2(m) > RAreaX2(a)}
  IN  IF out = {} THEN Edges(l, a)[2] ELSE RAreaListMinX2(out)

Between(edges, a) == RAreaNew(edges[1], a.y, edges[2] - edges[1] + 1, a.height)
RLayoutFullHoriz(l, a) == Between(Edges(l, a), a)

\* What the horizontal questions to a layout see; the vertical ones see the same
\* flipped.  A layout has both: across and along.
View(list, stripes) == [monitors |-> list, horiz |-> stripes, big |-> RAreaListBigArea(list)]

RLayoutFullVert(l, a) == Flip(RLayoutFullHoriz(l.along, Flip(a)))

Larger(a, b) == IF RAreaArea(a) > RAreaArea(b) THEN a ELSE b

RLayoutFull(l, a) ==
  Larger(RLayoutFullVert(l, RLayoutFullHoriz(l.across, a)),
         RLayoutFullHoriz(l.across, RLayoutFullVert(l, a)))

RLayoutFull1(l, a) ==
  LET mit == RAreaListIntersect(l.across.monitors, a)
  IN  IF mit = {}
      THEN RAreaListBestTarget(l.across.horiz, RecenterHorizontally(l.across, a), a)
      ELSE RAreaListBestTarget(l.across.monitors, mit, a)

\* At the full width of the monitor.  (The lower end is that of the monitor moved
\* down to the area; f.horizoom does not use it.)
RLayoutFullHoriz1(target, a) ==
  LET y1 == Max({a.y, target.y})
  IN  RAreaNew(target.x, y1, target.width,
               Min({RAreaY2(a), y1 + target.height - 1}) - y1 + 1)

(***************************************************************************)
(* fullzoom.  The horizontal kinds; the vertical ones are flipped.          *)
(***************************************************************************)

Vertical ==
  [zoom |-> "horizoom", xzoom |-> "xhorizoom", topzoom |-> "leftzoom", xtopzoom |-> "xleftzoom",
   bottomzoom |-> "rightzoom", xbottomzoom |-> "xrightzoom"]

ValidOr(a, b) == IF RAreaIsValid(a) THEN a ELSE b

\* Its monitor, however the question is turned.
HorizontalZoom(l, target, func, a) ==
  LET part == RLayoutFullHoriz1(target, a)
      zoomed(final) == [a EXCEPT !.x = final.x, !.width = final.width - 2 * frame_bw]
      from(left) == [a EXCEPT !.x = left, !.width = @ + a.x - left]
      left == IF func = "xleftzoom" THEN Edges(l, a)[1] ELSE RLayoutFindMonitorLeftEdge(l, a)
      right == IF func = "xrightzoom" THEN Edges(l, a)[2] ELSE RLayoutFindMonitorRightEdge(l, a)
  IN  CASE func = "xhorizoom" -> zoomed(ValidOr(RLayoutFullHoriz(l, a), part))
        [] func = "horizoom" -> zoomed(part)
        [] func \in {"xleftzoom", "leftzoom"} -> from(left)
        [] func \in {"xrightzoom", "rightzoom"} ->
             [a EXCEPT !.width = right - a.x + 1 - 2 * frame_bw]

Inner(a) == RAreaNew(a.x, a.y, a.width - 2 * frame_bw, a.height - 2 * frame_bw)

FullZoom(l, target, func, a) ==
  Inner(IF func = "xfullzoom" THEN ValidOr(RLayoutFull(l, a), target) ELSE target)

\* ConstrainSize for a client with no wishes: a window has a size.
ConstrainSize(a) == [a EXCEPT !.width = Max({1, @}), !.height = Max({1, @})]

ZoomedArea(l, func, a) ==
  LET in(target) ==
        CASE func \in {"xfullzoom", "fullzoom"} -> FullZoom(l, target, func, a)
          [] func \in DOMAIN Vertical ->
               Flip(HorizontalZoom(l.along, Flip(target), Vertical[func], Flip(a)))
          [] OTHER -> HorizontalZoom(l.across, target, func, a)
  IN  ConstrainSize(in(RLayoutFull1(l, a)))

\* mutant: what is saved is what there was before the last zoom.
SavedLast(w) == w.area

\* What a zoom saves: nothing new while the window is zoomed already.
Saved(w) == IF w.zoomed = "none" THEN w.area ELSE w.save

fullzoom(l, w, func) ==
  IF w.zoomed = func THEN [w EXCEPT !.area = ConstrainSize(w.save), !.zoomed = "none"]
  ELSE [w EXCEPT !.save = Saved(w), !.zoomed = func, !.area = ZoomedArea(l, func, w.area)]

(***************************************************************************)
(* ConstrainByLayout, for a MoveOffResistance below zero.                   *)
(***************************************************************************)

\* With the border.
Outer(a) == RAreaNew(a.x, a.y, a.width + 2 * frame_bw, a.height + 2 * frame_bw)

ClipRight(l, a) == [a EXCEPT !.x = Min({@, Edges(l, a)[2] - a.width + 1})]
ClipLeft(l, a) == [a EXCEPT !.x = Max({@, Edges(l, a)[1]})]
ClipBottom(l, a) == Flip(ClipRight(l.along, Flip(a)))
ClipTop(l, a) == Flip(ClipLeft(l.along, Flip(a)))

ConstrainByLayout(l, a) ==
  ClipTop(l, ClipLeft(l.across, ClipRight(l.across, ClipBottom(l, a))))

(***************************************************************************)
(* The steps.                                                               *)
(***************************************************************************)

\* No borders: the layout as it is.
RAreaListCopyCropped(list, m) ==
  LET big == RAreaListBigArea(list)
      inner == RAreaNew(big.x + m.left, big.y + m.top,
                        big.width - m.left - m.right, big.height - m.top - m.bottom)
      cropped == [i \in DOMAIN list |-> RAreaIntersect(list[i], inner)]
  IN  IF \A side \in DOMAIN m : m[side] = 0 THEN list
      ELSE IF inner.width <= 0 \/ inner.height <= 0 THEN <<>>
      ELSE Kept(cropped, {a \in Range(cropped) : RAreaIsValid(a)})

RLayoutNew(list) ==
  [stage : {"horiz"}, monitors : {list}, horiz : {<<>>}, work : RAreaListSortX(list)]

Ready == making.stage = "ready"

Placed(a) == [area |-> a, zoomed |-> "none", save |-> a, home |-> a, dragged |-> FALSE]

LayoutInit ==
  /\ layout \in Monitors
  /\ making \in RLayoutNew(layout)
  /\ bordered = [across |-> View(<<>>, <<>>), along |-> View(<<>>, <<>>)]
  /\ win = Placed(RAreaInvalid)

\* Two areas of the list that touch are joined, and the list is sorted again.
Refine ==
  /\ ~Ready /\ Touching(making.work) # {}
  /\ \E refined \in {Refined(making.work)} : \E sorted \in RAreaListSortX(refined) :
       making' = [making EXCEPT !.work = sorted]
  /\ UNCHANGED <<layout, bordered, win>>

HorizontalDone ==
  /\ making.stage = "horiz" /\ Touching(making.work) = {}
  /\ \E sorted \in RAreaListSortX(Flipped(making.monitors)) :
       making' = [making EXCEPT !.stage = "vert", !.horiz = making.work, !.work = sorted]
  /\ UNCHANGED <<layout, bordered, win>>

VerticalDone ==
  /\ making.stage = "vert" /\ Touching(making.work) = {}
  /\ bordered' = [across |-> View(making.monitors, making.horiz),
                  along |-> View(Flipped(making.monitors), making.work)]
  /\ making' = [making EXCEPT !.stage = "ready", !.work = <<>>, !.horiz = <<>>]
  /\ UNCHANGED <<layout, win>>

\* A dock comes, changes or goes.  Bound: before the window comes.
EwmhRecalculateStrut ==
  /\ Ready /\ win.area = RAreaInvalid
  /\ \E m \in Margins : making' \in RLayoutNew(RAreaListCopyCropped(layout, m))
  /\ UNCHANGED <<layout, bordered, win>>

Place ==
  /\ Ready /\ win.zoomed = "none"
  /\ \E a \in Places : win' = Placed(a)
  /\ UNCHANGED <<layout, bordered, making>>

\* f.move, where DontMoveOff is set.
Move ==
  /\ Ready /\ win.zoomed = "none"
  /\ \E a \in Places :
       LET to == ConstrainByLayout(bordered, Outer(a))
       IN  win' = [Placed([a EXCEPT !.x = to.x, !.y = to.y]) EXCEPT !.dragged = TRUE]
  /\ UNCHANGED <<layout, bordered, making>>

Zoom ==
  /\ Ready /\ win.area # RAreaInvalid
  /\ \E func \in ZoomFunction : win' = fullzoom(bordered, win, func)
  /\ UNCHANGED <<layout, bordered, making>>

LayoutNext ==
  Refine \/ HorizontalDone \/ VerticalDone \/ EwmhRecalculateStrut \/ Place \/ Move \/ Zoom

\* The layout is made in one go.
LayoutFair == WF_layoutVars(Refine \/ HorizontalDone \/ VerticalDone)

LayoutSpec == LayoutInit /\ [][LayoutNext]_layoutVars /\ LayoutFair

(***************************************************************************)
(* Properties.                                                              *)
(***************************************************************************)

LayoutTypeOK ==
  /\ layout \in Monitors
  /\ \A view \in {bordered.across, bordered.along} :
       view \in [monitors : Seq(Area), horiz : Seq(Area), big : Area]
  /\ making \in [stage : {"horiz", "vert", "ready"}, monitors : Seq(Area), horiz : Seq(Area),
                 work : Seq(Area)]
  /\ win \in [area : Area, zoomed : ZoomFunction \cup {"none"}, save : Area, home : Area,
             dragged : BOOLEAN]
  /\ win.area = RAreaInvalid \/ (win.area.width > 0 /\ win.area.height > 0)

\* The areas from x1 to x2 of one row are there, and no wider.
Run(points, a) ==
  /\ Points(a) \subseteq points
  /\ \A y0 \in a.y .. RAreaY2(a) :
       <<a.x - 1, y0>> \notin points /\ <<RAreaX2(a) + 1, y0>> \notin points

\* However the monitors are cut and joined, no part of them is lost, and in the
\* end every stripe reaches from side to side wherever it is and no two overlap
\* (RAreaListHorizontalUnion, RAreaListVerticalUnion).
StripesAreWhole ==
  [][/\ making'.stage = making.stage /\ making'.work # making.work =>
          Covered(making'.work) = Covered(making.work)
     /\ making.stage = "vert" /\ making'.stage = "ready" =>
          \A view \in {bordered'.across, bordered'.along} :
            LET points == Covered(view.monitors)
                list == view.horiz
            IN  /\ Covered(list) = points
                /\ \A i \in DOMAIN list : Run(points, list[i])
                /\ \A i, j \in DOMAIN list :
                     i # j => ~RAreaIsIntersect(list[i], list[j])]_layoutVars

\* The cutting and joining ends, for monitors that overlap as well.
LayoutGetsReady == []<>Ready

\* What a zoom looked at: the border is forgotten on the sides that are not
\* zoomed.
Zoomed(func, a) ==
  CASE func \in {"xfullzoom", "fullzoom"} -> Outer(a)
    [] func \in DOMAIN Vertical -> [a EXCEPT !.height = @ + 2 * frame_bw]
    [] OTHER -> [a EXCEPT !.width = @ + 2 * frame_bw]

Visible(l, a) == Points(a) \subseteq Covered(l.across.monitors)
OnOneMonitor(l, a) == \E m \in Range(l.across.monitors) : Points(a) \subseteq Points(m)

\* A window of which all can be seen is zoomed to where all can be seen, by the
\* functions that cross monitors; by f.zoom, f.horizoom and f.fullzoom one that
\* a monitor has stays on one monitor.  (f.leftzoom and its kin look for the next
\* side of any monitor the window touches, and that may be in a gap.)
ZoomKeepsIt(func) ==
  LET seen == Zoomed(func, win'.area)
  IN  /\ func \in {"zoom", "horizoom", "fullzoom"} =>
           (OnOneMonitor(bordered, Outer(win.area)) => OnOneMonitor(bordered, seen))
      /\ func \in {"xzoom", "xhorizoom", "xfullzoom", "xleftzoom", "xrightzoom",
                   "xtopzoom", "xbottomzoom"} =>
           (Visible(bordered, Outer(win.area)) => Visible(bordered, seen))

\* Zooming keeps a window visible, and one that is dragged where no monitor is
\* stays in reach (fullzoom, ConstrainByLayout).
WindowsStayVisible ==
  [][/\ win'.zoomed # win.zoomed => ZoomKeepsIt(win'.zoomed)
     /\ win'.dragged /\ win'.area # win.area /\ {win.zoomed, win'.zoomed} = {"none"} =>
          Points(Outer(win'.area)) \cap Covered(bordered.across.monitors) # {}]_layoutVars

\* After any zooms, one upon the other and with docks coming and going, the
\* window comes back to where it was.
UnzoomRestores == LayoutTypeOK /\ (win.zoomed = "none" => win.area = win.home)
=============================================================================
