------------------------------ MODULE Geometry ------------------------------
(***************************************************************************)
(* Where windows are put and how large they are: the sizes a client allows, *)
(* the placing of new windows, f.pack, f.jump, f.fill, the moves that pack  *)
(* and push, f.initsize, f.moveresize, f.changesize, f.savegeometry and the *)
(* drag of a border.  The layout of the monitors is asked, as in Layout.    *)
(*                                                                          *)
(* A frame is an area without its border.  What is done in one direction is *)
(* said for the horizontal ones; the vertical ones are the same, flipped.   *)
(***************************************************************************)
EXTENDS Layout

CONSTANTS
  GWin,                \* the windows, and
  Hints,               \* their WM_NORMAL_HINTS: what is there, and gravity
  Size,                \* the size of the client when it comes
  TitleBar,            \* Scr->TitleHeight, for all windows
  MaxWindow,           \* Scr->MaxWindowWidth, MaxWindowHeight
  MoveGrid,            \* Scr->XMoveGrid, YMoveGrid
  MovePackResistance,
  GeometrySessions     \* bound: monitors, borders and settings, and what is done
                       \* there, where, and how often

Direction == {"left", "right", "top", "bottom"}
Forward == {"right", "bottom"}
HintKind == {"min", "base", "max", "inc", "aspect"}
MARGIN == 16 - 1
Pair == {v \in Int \X Int : TRUE}

ASSUME GeometryAssumption ==
  /\ \A w \in GWin : /\ DOMAIN Hints[w] \subseteq HintKind \cup {"gravity"}
                     /\ "gravity" \in DOMAIN Hints[w]
                     /\ Size[w] \in Pair /\ Size[w][1] > 0 /\ Size[w][2] > 0
  /\ TitleBar \in Nat /\ MovePackResistance \in Nat
  /\ MaxWindow \in Pair /\ MoveGrid \in (Nat \ {0}) \X (Nat \ {0})

VARIABLES
  ses,        \* the session: what was configured
  desk,       \* Scr->Layout and Scr->BorderedLayout
  order,      \* Scr->FirstWindow and those behind it
  frames,     \* of each window: its frame, its zoom, what was saved, and whether
              \* its size, or the one saved, was taken unchecked
  place,      \* PlaceX and PlaceY
  drag,       \* the resize that is going on
  gacts       \* how much was done

geoVars == <<ses, desk, order, frames, place, drag, gacts>>

Both(f(_)) == <<f(1), f(2)>>
Quotient(n, d) == IF n < 0 THEN -((-n) \div d) ELSE n \div d
Multiple(n, d) == Quotient(n, d) * d

(***************************************************************************)
(* Sizes.                                                                   *)
(***************************************************************************)

title_height == IF TitleBar = 0 THEN 0 ELSE TitleBar + ses.bw
Decoration == <<0, title_height>>

Hint(w, kinds, otherwise) ==
  LET there == SelectSeq(kinds, LAMBDA k : k \in DOMAIN Hints[w])
  IN  IF there = <<>> THEN otherwise ELSE Hints[w][there[1]]

MinSize(w) == Hint(w, <<"min", "base">>, <<1, 1>>)
BaseSize(w) == Hint(w, <<"base", "min">>, <<0, 0>>)
MaxSize(w) == Both(LAMBDA i : Min({MaxWindow[i], Hint(w, <<"max">>, MaxWindow)[i]}))
Increment(w) == Both(LAMBDA i : Max({1, Hint(w, <<"inc">>, <<1, 1>>)[i]}))

\* Too narrow for its height: wider, or if it cannot be, lower; then the other
\* way round.  aspect is <<min x, min y, max x, max y>>.
Wider(w, s) ==
  LET as == Hints[w].aspect
      inc == Increment(w)
      grow == Multiple(Quotient(as[1] * s[2], as[2]) - s[1], inc[1])
      shrink == Multiple(s[2] - Quotient(s[1] * as[2], as[1]), inc[2])
  IN  CASE as[1] * s[2] <= as[2] * s[1] -> s
        [] s[1] + grow <= MaxSize(w)[1] -> <<s[1] + grow, s[2]>>
        [] s[2] - shrink >= MinSize(w)[2] -> <<s[1], s[2] - shrink>>
        [] OTHER -> s

Higher(w, s) ==
  LET as == Hints[w].aspect
      inc == Increment(w)
      grow == Multiple(Quotient(s[1] * as[4], as[3]) - s[2], inc[2])
      shrink == Multiple(s[1] - Quotient(as[3] * s[2], as[4]), inc[1])
  IN  CASE as[3] * s[2] >= as[4] * s[1] -> s
        [] s[2] + grow <= MaxSize(w)[2] -> <<s[1], s[2] + grow>>
        [] s[1] - shrink >= MinSize(w)[1] -> <<s[1] - shrink, s[2]>>
        [] OTHER -> s

InRange(w, s) == Both(LAMBDA i : Min({MaxSize(w)[i], Max({MinSize(w)[i], s[i]})}))
OnGrid(w, s) ==
  Both(LAMBDA i : Multiple(s[i] - BaseSize(w)[i], Increment(w)[i]) + BaseSize(w)[i])

\* mutant: first the increments, then the limits.
GridFirst(w, f) ==
  LET s == InRange(w, OnGrid(w, <<f.width, f.height - title_height>>))
      sized == IF "aspect" \in DOMAIN Hints[w] THEN Higher(w, Wider(w, s)) ELSE s
  IN  [f EXCEPT !.width = sized[1], !.height = sized[2] + title_height]

\* ConstrainSize, of a frame.
Sized(w, f) ==
  LET s == OnGrid(w, InRange(w, <<f.width, f.height - title_height>>))
      sized == IF "aspect" \in DOMAIN Hints[w] THEN Higher(w, Wider(w, s)) ELSE s
  IN  [f EXCEPT !.width = sized[1], !.height = sized[2] + title_height]

(***************************************************************************)
(* Frames and what is around them.                                          *)
(***************************************************************************)

Frame(w) == frames[w].area
Bordered(f) == [f EXCEPT !.width = @ + 2 * ses.bw, !.height = @ + 2 * ses.bw]
Whole(w) == Bordered(Frame(w))
Others(w) == {Whole(t) : t \in Range(order) \ {w}}

Sideways(dir) == dir \in {"left", "right"}
Turn(dir, f) == IF Sideways(dir) THEN f ELSE Flip(f)
Seen(dir) == IF Sideways(dir) THEN desk.bordered.across ELSE desk.bordered.along

\* A frame that is off all monitors is brought back to the edge of one.
InReach(l, f) ==
  LET edges == Edges(l, f)
  IN  CASE f.x > edges[2] -> edges[2] - MARGIN
        [] f.x <= edges[2] /\ f.x + f.width + ses.bw < edges[1] -> edges[1] - f.width + MARGIN
        [] OTHER -> f.x

SetupFrame(f) ==
  [f EXCEPT !.x = InReach(desk.whole.across, f), !.y = InReach(desk.whole.along, Flip(f))]

\* The frame of a window becomes f; checked says that ConstrainSize saw it, or
\* that the size is as it was.
SetupWindow(w, f, checked) ==
  frames' = [frames EXCEPT ![w].area = SetupFrame(f), ![w].unchecked = ~checked]
Moved(w, f) == SetupWindow(w, f, ~frames[w].unchecked)

(***************************************************************************)
(* FindConstraint: how far a window may go.                                 *)
(***************************************************************************)

SameRows(f, t) == f.y < t.y + t.height /\ f.y + f.height > t.y

StopBefore(l, f, others) ==
  LET limit == RLayoutFindMonitorLeftEdge(l, f)
  IN  IF f.x < limit THEN -1
      ELSE Max({limit} \cup {t.x + t.width : t \in
                 {t \in others : f.x > t.x + t.width /\ SameRows(f, t)}})

\* mutant: a window that is over the next one does not see it.
StopAfterInside(l, f, others) ==
  LET limit == RLayoutFindMonitorRightEdge(l, f)
  IN  IF f.x + f.width > limit THEN -1
      ELSE Min({limit + 1} \cup {t.x : t \in
                 {t \in others : f.x + f.width < t.x /\ SameRows(f, t) /\ f.y >= t.y}})

\* (limit is the last point of the monitor: a window that reaches it is taken
\* for one that is beyond it.)
StopAfter(l, f, others) ==
  LET limit == RLayoutFindMonitorRightEdge(l, f)
  IN  IF f.x + f.width > limit THEN -1
      ELSE Min({limit + 1} \cup {t.x : t \in
                 {t \in others : f.x + f.width < t.x /\ SameRows(f, t)}})

FindConstraint(w, f, dir) ==
  LET others == {Turn(dir, t) : t \in Others(w)}
  IN  IF dir \in Forward THEN StopAfter(Seen(dir), Turn(dir, f), others)
      ELSE StopBefore(Seen(dir), Turn(dir, f), others)

\* A change of a frame along a direction.
Turned(dir, f, change(_)) == Turn(dir, change(Turn(dir, f)))

(***************************************************************************)
(* Packing, jumping, filling.                                               *)
(***************************************************************************)

\* Beside what stops it.
Packed(w, dir, cons) ==
  Turned(dir, Frame(w), LAMBDA t :
    [t EXCEPT !.x = IF dir \in Forward THEN cons - t.width - 2 * ses.bw ELSE cons])

Jumped(w, dir, cons, steps) ==
  LET far == steps * MoveGrid[IF Sideways(dir) THEN 1 ELSE 2]
  IN  Turned(dir, Frame(w), LAMBDA t :
        [t EXCEPT !.x = IF dir \in Forward
                        THEN Min({@ + far, cons - t.width - 2 * ses.bw})
                        ELSE Max({@ - far, cons})])

FilledBack(w, dir, cons) ==
  Sized(w, Turned(dir, Frame(w), LAMBDA t : [t EXCEPT !.x = cons, !.width = @ + t.x - cons]))

RootEnd(dir) ==
  IF Sideways(dir) THEN desk.root[1] - ses.borders.right ELSE desk.root[2] - ses.borders.bottom

\* f.fill right and bottom try twice.  now is the frame as it is by then; a size
\* that did not change (the new one is without the border, the old one with it)
\* is no reason to stop, but for the end of the screen: the window takes all the
\* room as it is, and what it then touches is not in its way any more.
FillTo(w, dir, now, cons) ==
  LET was == Turn(dir, Frame(w))
      room(f, end) == Turned(dir, f, LAMBDA t : [t EXCEPT !.width = end - was.x])
      pass(fits) ==
        [cons |-> cons, fits |-> fits, open |-> room(fits, cons),
         done |-> \/ fits.width # Whole(w).width \/ fits.height # Whole(w).height
                  \/ cons = RootEnd(dir)]
  IN  pass(Sized(w, room([Frame(w) EXCEPT !.x = now.x, !.y = now.y], cons - 2 * ses.bw)))

FillPass(w, dir, now) == FillTo(w, dir, now, FindConstraint(w, Bordered(now), dir))

FilledForward(w, dir) ==
  LET second(mid, two) ==
        IF two.cons = -1 THEN [to |-> mid, checked |-> FALSE, again |-> TRUE]
        ELSE [to |-> IF two.done THEN two.fits ELSE two.open,
              checked |-> two.done, again |-> TRUE]
      again(mid) == second(mid, FillPass(w, dir, mid))
      first(one) ==
        IF one.done THEN [to |-> one.fits, checked |-> TRUE, again |-> FALSE]
        ELSE again(SetupFrame(one.open))
  IN  first(FillPass(w, dir, Frame(w)))

Filled(w, dir, cons) ==
  IF dir \in Forward THEN FilledForward(w, dir)
  ELSE [to |-> FilledBack(w, dir, cons), checked |-> TRUE, again |-> FALSE]

\* Here a side that cannot be had (-1) is taken for a place: a window that reaches
\* the lower end becomes as low as it can be.
FilledVertically(w) ==
  LET was == Frame(w)
      top == FindConstraint(w, [Whole(w) EXCEPT !.y = @ + 1], "top")
      bottom == FindConstraint(w, Whole(w), "bottom")
      s == Sized(w, [was EXCEPT !.y = top, !.height = bottom - top - 2 * ses.bw])
  IN  [s EXCEPT !.y = Max({@, was.y + was.height - s.height})]

(***************************************************************************)
(* The grid, and moves that pack and push.  These frames have their border. *)
(***************************************************************************)

\* gravity is <<x, y>>, each -1, 0 or 1: GetGravityOffsets.
OnLine(at, size, g, border, grid) ==
  LET end == IF g = 1 THEN size ELSE 0
  IN  Multiple(at + end - border, grid) - end + border

TryToGrid(w, f) ==
  [f EXCEPT !.x = OnLine(@, f.width, Hints[w].gravity[1], ses.borders.left, MoveGrid[1]),
            !.y = OnLine(@, f.height, Hints[w].gravity[2], ses.borders.top, MoveGrid[2])]

\* Out of a little overlap.
OffSideways(f, t) ==
  CASE f.x + MovePackResistance > t.x + t.width -> [f EXCEPT !.x = t.x + t.width]
    [] f.x + MovePackResistance <= t.x + t.width
       /\ f.x + f.width < t.x + MovePackResistance -> [f EXCEPT !.x = t.x - f.width]
    [] OTHER -> f

Off(f, t) ==
  IF ~RAreaIsIntersect(f, t) THEN f
  ELSE IF OffSideways(f, t) # f THEN OffSideways(f, t)
  ELSE Flip(OffSideways(Flip(f), Flip(t)))

\* The monitors too, where there are several.
TryToPack(fs, w, f) ==
  LET l == desk.bordered.across
      others == SelectSeq(order, LAMBDA t : t # w)
  IN  FoldLeft(Off, f, (IF Len(l.horiz) > 1 THEN l.monitors ELSE <<>>)
                         \o [i \in DOMAIN others |-> Bordered(fs[others[i]])])

ConstrainByBorders(f) == ConstrainByLayout(desk.bordered, f)

\* Where a window that f overlaps is pushed to: the directions there are.
PushDirections(f, t, dirs) ==
  SelectSeq(<<"left", "right", "top", "bottom">>, LAMBDA d :
    LET at == Turn(d, f)
        it == Turn(d, t)
    IN  /\ d \in dirs
        /\ IF d \in Forward THEN at.x + at.width < it.x + MovePackResistance
           ELSE at.x + MovePackResistance > it.x + it.width)

PushedTo(f, t, d) ==
  Turned(d, t, LAMBDA it : [it EXCEPT !.x = IF d \in Forward THEN Turn(d, f).x + Turn(d, f).width
                                           ELSE Turn(d, f).x - it.width])

\* TryToPush: the windows that f overlaps, from the i-th on, make way, and push
\* others before they do, all in one direction.
RECURSIVE TryToPush(_, _, _, _, _)
TryToPush(fs, w, f, dirs, i) ==
  IF i > Len(order) THEN fs
  ELSE LET t == order[i]
           it == Bordered(fs[t])
           ways == PushDirections(f, it, dirs)
           to == PushedTo(f, it, Head(ways))
           pushed == TryToPush(fs, t, to, {Head(ways)}, 1)
           put == ConstrainByBorders(TryToPack(pushed, t, to))
       IN  IF t = w \/ ~RAreaIsIntersect(f, it) \/ ways = <<>> THEN TryToPush(fs, w, f, dirs, i + 1)
           ELSE TryToPush([pushed EXCEPT ![t] = SetupFrame([@ EXCEPT !.x = put.x, !.y = put.y])],
                          w, f, dirs, i + 1)

(***************************************************************************)
(* Where a new window goes.                                                 *)
(***************************************************************************)

\* RandomPlacement, along one axis: sz is the size with the title, i the axis.
Border(i) == <<<<ses.borders.left, ses.borders.right>>, <<ses.borders.top, ses.borders.bottom>>>>[i]
RandomPlace(i, sz) ==
  LET first == Border(i)[1] + 5
      last == desk.root[i] - sz - Border(i)[2] - 5
      back == ses.displacement[i] < 0
      start == IF place[1] >= 0 \/ place[2] >= 0 THEN place[i]
               ELSE IF back THEN last ELSE first
  IN  CASE ~back /\ start + sz > desk.root[i] - Border(i)[2] - 5 -> first
        [] back /\ start < first -> last
        [] OTHER -> start

\* What is still beyond the end is put in the middle.
KeptOn(i, sz, at) ==
  IF ses.DontMoveOff /\ at + sz > desk.root[i]
  THEN Quotient(Max({0, desk.root[i] - sz - 2 * ses.bw}), 2) ELSE at

\* The frame of a client at a place; the border goes where its gravity says.
FrameOf(w, at, size) ==
  LET g == Hints[w].gravity
  IN  Sized(w, RAreaNew(at[1] - ses.bw - g[1] * ses.bw, at[2] - ses.bw - g[2] * ses.bw,
                        size[1], size[2] + title_height))

\* Some part of the window is on the screen.
SomePartSeen(f) ==
  LET xs == Edges(desk.bordered.across, f)
      ys == Edges(desk.bordered.along, Flip(f))
  IN  IF f.x > xs[2] \/ f.y > ys[2] \/ f.x + f.width <= xs[1] \/ f.y + f.height <= ys[1]
      THEN [f EXCEPT !.x = xs[1], !.y = ys[1]] ELSE f

Unplaced == [area |-> RAreaInvalid, zoomed |-> FALSE, save |-> RAreaInvalid,
             kept |-> RAreaInvalid, unchecked |-> FALSE,
             keptUnchecked |-> FALSE]

AddedAt(w, f) ==
  /\ order' = <<w>> \o order
  /\ frames' = [frames EXCEPT ![w] = [Unplaced EXCEPT !.area = SetupFrame(SomePartSeen(f))]]

\* Where the user puts the outline down: with Button1, or with Button3, which
\* takes what there is to the right and below.
Outline(w, at) ==
  LET f == TryToGrid(w, Bordered(RAreaNew(at[1], at[2], Size[w][1], Size[w][2] + title_height)))
      packed == IF ses.PackNewWindows THEN TryToPack([t \in GWin |-> Frame(t)], w, f) ELSE f
  IN  IF ses.DontMoveOff THEN ConstrainByBorders(packed) ELSE packed

\* (The width that is not cut has its borders in it when the size is constrained,
\* and gets them once more.)
ToTheEnd(w, f) ==
  LET right == RLayoutFindMonitorRightEdge(desk.bordered.across, f) - 2 * ses.bw
      bottom == RLayoutFindMonitorRightEdge(desk.bordered.along, Flip(f)) - 2 * ses.bw
  IN  Bordered(Sized(w, [f EXCEPT !.width = Min({@, right - f.x + 1}),
                                  !.height = bottom - f.y + 1]))

(***************************************************************************)
(* Dragging a border.  In drag.cur and drag.orig a frame is inside its      *)
(* border; drag.off is how far the pointer was from the side it took hold   *)
(* of, drag.edge what has to be crossed of the right and lower sides.       *)
(***************************************************************************)

NoDrag == [on |-> FALSE, cur |-> RAreaInvalid, orig |-> RAreaInvalid, clamp |-> {},
           off |-> <<0, 0>>, edge |-> 0, win |-> {}]
Inside(f) == [f EXCEPT !.x = @ + ses.bw, !.y = @ + ses.bw]
Outside(f) == [f EXCEPT !.x = @ - ses.bw, !.y = @ - ses.bw]

\* do_auto_clamp: which third of the window the pointer is in, along one axis.
Third(at, start, size) == Quotient(at - start, IF size < 3 THEN 1 ELSE size \div 3)
Grip(third, at, start, size, before, after) ==
  CASE third <= 0 -> [clamp |-> {before}, off |-> at - start]
    [] third >= 2 -> [clamp |-> {after}, off |-> at - start - size]
    [] OTHER -> [clamp |-> {}, off |-> 0]

\* The widths are unsigned: a place left of the screen is beyond every side.
UnsignedGE(m, n) == IF (m < 0) = (n < 0) THEN m >= n ELSE m < 0

\* DoResize along one axis, for the pointer at a place: the left side moves along,
\* or has been crossed; then the right one.
LeftDragged(d, orig, at) ==
  CASE d.before /\ d.width - (at - d.x) < 0 ->
         [d EXCEPT !.x = d.x + d.width, !.width = 0, !.before = FALSE, !.moved = TRUE]
    [] d.before /\ d.width - (at - d.x) >= 0 ->
         [d EXCEPT !.x = at, !.width = d.width - (at - d.x), !.moved = TRUE]
    [] ~d.before /\ at <= d.x ->
         [d EXCEPT !.x = at, !.width = orig.x + orig.width - at, !.after = FALSE,
                   !.before = TRUE, !.off = 0, !.moved = TRUE]
    [] OTHER -> d

\* mutant: from the left side to the right one, but not back to where it was.
RightDraggedOnly(d, orig, at, edge) ==
  CASE d.after ->
         [d EXCEPT !.width = Max({0, at - d.x}), !.after = at >= d.x, !.moved = TRUE]
    [] ~d.after /\ UnsignedGE(at, d.x + d.width - edge) ->
         [d EXCEPT !.width = 1 + at - d.x, !.before = FALSE, !.after = TRUE, !.off = 0, !.moved = TRUE]
    [] OTHER -> d

RightDragged(d, orig, at, edge) ==
  CASE d.after ->
         [d EXCEPT !.width = Max({0, at - d.x}), !.after = at >= d.x, !.moved = TRUE]
    [] ~d.after /\ UnsignedGE(at, d.x + d.width - edge) ->
         [d EXCEPT !.x = orig.x, !.width = 1 + at - orig.x, !.before = FALSE,
                   !.after = TRUE, !.off = 0, !.moved = TRUE]
    [] OTHER -> d

DragAxis(d, orig, at, edge) == RightDragged(LeftDragged(d, orig, at), orig, at, edge)

Axis(f, before, after, off) ==
  [x |-> f.x, width |-> f.width, before |-> before \in drag.clamp, after |-> after \in drag.clamp,
   off |-> off, moved |-> FALSE]

\* All of it.  The side opposite to the one that is held stays where it was.
Dragged(w, at) ==
  LET across == DragAxis(Axis(drag.cur, "left", "right", drag.off[1]), drag.orig,
                         at[1] - drag.off[1], drag.edge)
      along == DragAxis(Axis(Flip(drag.cur), "top", "bottom", drag.off[2]), Flip(drag.orig),
                        at[2] - drag.off[2], drag.edge)
      held == {dir \in Direction : CASE dir = "left" -> across.before [] dir = "right" -> across.after
                                     [] dir = "top" -> along.before [] dir = "bottom" -> along.after}
      s == Sized(w, RAreaNew(across.x, along.x, across.width, along.width))
  IN  IF ~across.moved /\ ~along.moved THEN drag
      ELSE [drag EXCEPT !.clamp = held, !.off = <<across.off, along.off>>,
              !.cur = [s EXCEPT !.x = IF "left" \in held THEN drag.orig.x + drag.orig.width - s.width ELSE @,
                                !.y = IF "top" \in held THEN drag.orig.y + drag.orig.height - s.height ELSE @]]

(***************************************************************************)
(* The steps.                                                               *)
(***************************************************************************)

\* The layout of a list of monitors, in one go; bound: rounds of refining.
Stripes(list) ==
  LET sorted(l) == CHOOSE s \in RAreaListSortX(l) : TRUE
  IN  FoldLeft(LAMBDA l, i : IF Touching(l) = {} THEN l ELSE sorted(Refined(l)),
               sorted(list), <<1, 2, 3, 4>>)
LayoutOf(list) ==
  [across |-> View(list, Stripes(list)), along |-> View(Flipped(list), Stripes(Flipped(list)))]

GeometryInit ==
  /\ ses \in GeometrySessions
  /\ LET big == RAreaListBigArea(ses.monitors)
     IN  desk = [whole |-> LayoutOf(ses.monitors),
                 bordered |-> LayoutOf(RAreaListCopyCropped(ses.monitors, ses.borders)),
                 root |-> <<RAreaX2(big) + 1, RAreaY2(big) + 1>>]
  /\ order = <<>>
  /\ frames = [w \in GWin |-> Unplaced]
  /\ place = <<-1, -1>>
  /\ drag = NoDrag
  /\ gacts = [n |-> 0, did |-> "none", win |-> {}]

\* Bound: each session does some of it to some windows, and so often.
Does(func, w) ==
  /\ ~drag.on /\ func \in ses.uses /\ gacts.n < ses.acts /\ w \in Range(order)
  /\ Len(order) = Len(ses.windows)
  /\ gacts' = [n |-> gacts.n + 1, did |-> func, win |-> {w}]
Comes(w) ==
  /\ Len(order) < Len(ses.windows) /\ w = ses.windows[Len(order) + 1]
  /\ UNCHANGED <<ses, desk, drag, gacts>>

GivenPlace(w) ==
  /\ Comes(w) /\ "given" \in ses.uses
  /\ \E at \in ses.given[Len(order) + 1] :
       AddedAt(w, FrameOf(w, IF Hints[w].gravity[2] < 0 THEN at
                             ELSE <<at[1], at[2] - title_height>>, Size[w]))
  /\ UNCHANGED place

PlacedAtRandom(w) ==
  /\ Comes(w) /\ "random" \in ses.uses
  /\ LET sz == <<Size[w][1], Size[w][2] + title_height>>
         start == Both(LAMBDA i : RandomPlace(i, sz[i]))
         at == Both(LAMBDA i : KeptOn(i, sz[i], start[i]))
     IN  /\ place' = IF start[1] - at[1] < 15 \/ start[2] - at[2] < 15
                     THEN Both(LAMBDA i : start[i] + ses.displacement[i]) ELSE start
         /\ AddedAt(w, ConstrainByBorders(FrameOf(w, at, Size[w])))

PlacedByUser(w) ==
  /\ Comes(w) /\ "asked" \in ses.uses
  /\ \E at \in ses.pointers :
       \E f \in {Outline(w, at), ToTheEnd(w, Outline(w, at))} :
         AddedAt(w, FrameOf(w, <<f.x, f.y>>, <<f.width - 2 * ses.bw,
                                               f.height - 2 * ses.bw - title_height>>))
  /\ UNCHANGED place

Pack(w) ==
  /\ Does("pack", w)
  /\ \E dir \in Direction :
       LET cons == FindConstraint(w, Whole(w), dir)
       IN  cons # -1 /\ Moved(w, Packed(w, dir, cons))
  /\ UNCHANGED <<ses, desk, order, place, drag>>

Jump(w) ==
  /\ Does("jump", w)
  /\ \E dir \in Direction, steps \in {1, 3} :
       LET cons == FindConstraint(w, Whole(w), dir)
       IN  cons # -1 /\ Moved(w, Jumped(w, dir, cons, steps))
  /\ UNCHANGED <<ses, desk, order, place, drag>>

\* gacts tells the second tries from the first.
FilledWith(w, filled) ==
  /\ SetupWindow(w, filled.to, filled.checked)
  /\ gacts' = [n |-> gacts.n + 1, win |-> {w}, did |-> IF filled.again THEN "refill" ELSE "fill"]

Fill(w) ==
  /\ ~drag.on /\ "fill" \in ses.uses /\ gacts.n < ses.acts /\ Len(order) = Len(ses.windows)
  /\ w \in Range(order)
  /\ \E dir \in Direction :
       LET cons == FindConstraint(w, Whole(w), dir)
       IN  cons # -1 /\ FilledWith(w, Filled(w, dir, cons))
  /\ UNCHANGED <<ses, desk, order, place, drag>>

FillVertically(w) ==
  /\ Does("vertical", w)
  /\ frames' =
       IF frames[w].zoomed
       THEN [frames EXCEPT ![w].area = SetupFrame(Sized(w, frames[w].save)), ![w].zoomed = FALSE,
                           ![w].unchecked = FALSE]
       ELSE [frames EXCEPT ![w].area = SetupFrame(FilledVertically(w)), ![w].zoomed = TRUE,
                           ![w].save = Frame(w), ![w].unchecked = FALSE]
  /\ UNCHANGED <<ses, desk, order, place, drag>>

\* To the size it came with; where its gravity is right or below, that end stays.
initsize(w) ==
  /\ Does("initsize", w)
  /\ LET f == Sized(w, [Frame(w) EXCEPT !.width = Size[w][1], !.height = Size[w][2] + title_height])
         shift == Both(LAMBDA i : IF Hints[w].gravity[i] # 1 THEN 0
                                  ELSE <<Frame(w).width - f.width, Frame(w).height - f.height>>[i])
     IN  SetupWindow(w, [f EXCEPT !.x = @ + shift[1], !.y = @ + shift[2]], TRUE)
  /\ UNCHANGED <<ses, desk, order, place, drag>>

\* A geometry: what it says, and from which end.
moveresize(w) ==
  /\ Does("moveresize", w)
  /\ \E g \in ses.geometries :
       LET f == Sized(w, [Frame(w) EXCEPT !.width = IF "width" \in g.says THEN g.width ELSE @,
                            !.height = IF "height" \in g.says THEN g.height + title_height ELSE @])
           from(end, root, size) == IF end \in g.says THEN root - size ELSE 0
       IN  SetupWindow(w,
             [f EXCEPT !.x = IF "x" \in g.says THEN g.x + from("xnegative", desk.root[1], f.width) ELSE @,
                       !.y = IF "y" \in g.says THEN g.y + from("ynegative", desk.root[2], f.height) ELSE @],
             TRUE)
  /\ UNCHANGED <<ses, desk, order, place, drag>>

\* By so much at one side, the client's wishes or not; the place moves by as much
\* even where the size cannot.
ChangeSize(w) ==
  /\ Does("changesize", w)
  /\ \/ \E dir \in Direction, change \in ses.changes :
          LET least == IF Sideways(dir) THEN 1 ELSE title_height + 1
          IN  SetupWindow(w, Turned(dir, Frame(w), LAMBDA t :
                [t EXCEPT !.width = Max({least, @ + change}),
                          !.x = IF dir \in Forward THEN @ ELSE @ - change]), FALSE)
     \/ SetupWindow(w, [Frame(w) EXCEPT !.width = Size[w][1],
                         !.height = Max({Size[w][2], title_height + 1}) + title_height], FALSE)
  /\ UNCHANGED <<ses, desk, order, place, drag>>

savegeometry(w) ==
  /\ Does("savegeometry", w)
  /\ frames' = [frames EXCEPT ![w].kept = Frame(w), ![w].keptUnchecked = frames[w].unchecked]
  /\ UNCHANGED <<ses, desk, order, place, drag>>

restoregeometry(w) ==
  /\ Does("restoregeometry", w) /\ frames[w].kept # RAreaInvalid
  /\ SetupWindow(w, frames[w].kept, ~frames[w].keptUnchecked)
  /\ UNCHANGED <<ses, desk, order, place, drag>>

\* f.move and its kin, put down with the pointer at a place.
movewindow(w) ==
  /\ \E func \in {"move", "forcemove", "movepack", "movepush"} :
       /\ Does(func, w)
       /\ \E at \in ses.pointers :
            LET kept == ses.DontMoveOff /\ func # "forcemove"
                grid == IF kept THEN TryToGrid(w, [Whole(w) EXCEPT !.x = at[1], !.y = at[2]])
                        ELSE [Whole(w) EXCEPT !.x = at[1], !.y = at[2]]
                areas == [t \in GWin |-> Frame(t)]
                pushed == IF func = "movepush" /\ ses.OpaqueMove
                          THEN TryToPush(areas, w, grid, Direction, 1) ELSE areas
                packed == IF func \in {"movepack", "movepush"} THEN TryToPack(pushed, w, grid) ELSE grid
                to == IF kept THEN ConstrainByBorders(packed) ELSE packed
            IN  frames' = [t \in GWin |->
                  [frames[t] EXCEPT !.area =
                     IF t = w THEN SetupFrame([pushed[t] EXCEPT !.x = to.x, !.y = to.y])
                     ELSE pushed[t]]]
  /\ UNCHANGED <<ses, desk, order, place, drag>>

\* By a border, or from a menu with the pointer in the middle.
StartResize(w) ==
  /\ \/ /\ Does("resize", w)
        /\ \E at \in Points(Whole(w)) \cap ses.pointers :
             LET f == Inside(Frame(w))
                 h == Grip(Third(at[1], f.x, f.width), at[1], f.x, f.width, "left", "right")
                 v == Grip(Third(at[2] - title_height, f.y, f.height),
                           at[2], f.y, f.height, "top", "bottom")
             IN  drag' = [NoDrag EXCEPT !.on = TRUE, !.win = {w}, !.edge = 1, !.cur = f, !.orig = f,
                            !.clamp = IF ses.AutoRelativeResize THEN h.clamp \cup v.clamp ELSE {},
                            !.off = IF ses.AutoRelativeResize THEN <<h.off, v.off>> ELSE @]
     \/ /\ Does("menu resize", w)
        /\ drag' = [NoDrag EXCEPT !.on = TRUE, !.win = {w}, !.cur = Inside(Frame(w)),
                                  !.orig = Inside(Frame(w))]
  /\ UNCHANGED <<ses, desk, order, frames, place>>

DoResize(w) ==
  /\ drag.on /\ drag.win = {w}
  /\ \E at \in ses.pointers : drag' = Dragged(w, at)
  /\ IF ses.OpaqueResize /\ drag' # drag THEN SetupWindow(w, Outside(drag'.cur), TRUE)
     ELSE UNCHANGED frames
  /\ UNCHANGED <<ses, desk, order, place, gacts>>

\* EndResize and MenuEndResize; the first forgets the zoom of a window that has
\* another size now (with OpaqueResize it has it already).
EndResize(w) ==
  /\ drag.on /\ drag.win = {w}
  /\ LET f == Sized(w, drag.cur)
         other == f.width # Frame(w).width \/ f.height # Frame(w).height
     IN  frames' = [frames EXCEPT ![w].area = SetupFrame(Outside(f)), ![w].unchecked = FALSE,
                                  ![w].zoomed = @ /\ ~(other /\ drag.edge = 1)]
  /\ drag' = NoDrag
  /\ UNCHANGED <<ses, desk, order, place, gacts>>

GeometryNext ==
  \E w \in GWin :
    \/ GivenPlace(w) \/ PlacedAtRandom(w) \/ PlacedByUser(w)
    \/ Pack(w) \/ Jump(w) \/ Fill(w) \/ FillVertically(w) \/ initsize(w) \/ moveresize(w)
    \/ ChangeSize(w) \/ savegeometry(w) \/ restoregeometry(w) \/ movewindow(w)
    \/ StartResize(w) \/ DoResize(w) \/ EndResize(w)

(***************************************************************************)
(* Properties.                                                              *)
(***************************************************************************)

WindowType ==
  [area : Area, zoomed : BOOLEAN, save : Area, kept : Area, unchecked : BOOLEAN,
   keptUnchecked : BOOLEAN]

GeometryTypeOK ==
  /\ ses \in GeometrySessions /\ Range(order) \subseteq GWin
  /\ frames \in [GWin -> WindowType] /\ place \in Pair
  /\ drag.on = (drag.win # {}) /\ drag.clamp \subseteq Direction
  /\ gacts.n \in 0 .. ses.acts /\ gacts.win \subseteq GWin

\* Whatever is done to a window, its client gets a size that it asked for: not
\* more than its maximum, not less than its minimum (or less by a part of an
\* increment), a whole number of increments over its base size; and to constrain
\* that size once more changes nothing.  Only f.changesize, and a second try of
\* f.fill, give other sizes (ConstrainSize and those who call it).
SizesAreLegal ==
  /\ GeometryTypeOK
  /\ \A w \in Range(order) :
       LET s == <<Frame(w).width, Frame(w).height - title_height>>
       IN  ~frames[w].unchecked =>
             /\ Sized(w, Frame(w)) = Frame(w)
             /\ \A i \in {1, 2} :
                  /\ s[i] <= MaxSize(w)[i] /\ s[i] > MinSize(w)[i] - Increment(w)[i]
                  /\ (s[i] - BaseSize(w)[i]) % Increment(w)[i] = 0

\* Packing, jumping and filling stop at what they meet: of two windows that are
\* apart (by more than an increment) none comes over the other.  Windows that
\* touch are not seen, a size that f.changesize made may be made larger, and an
\* aspect ratio changes the other side too (FindConstraint, packwindow, jump,
\* fillwindow).
PackingKeepsApart ==
  [][/\ gacts' # gacts
     /\ gacts'.did \in {"pack", "jump", "fill", "vertical"}
     => \A w \in gacts'.win :
          /\ ~frames[w].unchecked /\ "aspect" \notin DOMAIN Hints[w] /\ ~frames[w].zoomed
          => LET inc == Max(Range(Increment(w)))
                 f == Whole(w)
                 round == RAreaNew(f.x - inc, f.y - inc, f.width + 2 * inc, f.height + 2 * inc)
             IN  \A t \in Others(w) :
                   ~RAreaIsIntersect(round, t) =>
                      ~RAreaIsIntersect(Bordered(frames'[w].area), t)]_geoVars

\* However the pointer crosses the sides of a window that is resized, one of two
\* opposite sides is where it was (DoResize, MenuDoResize, do_auto_clamp).
ResizeKeepsASide ==
  LET kept(f, was) == f.x = was.x \/ f.x + f.width = was.x + was.width
  IN  drag.on => kept(drag.cur, drag.orig) /\ kept(Flip(drag.cur), Flip(drag.orig))
=============================================================================
