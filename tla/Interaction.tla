---------------------------- MODULE Interaction ----------------------------
(***************************************************************************)
(* What the user does with buttons, keys and the pointer: menus (menus.c),  *)
(* the functions bound to buttons and to menu items (functions.c) and those *)
(* that stay in a loop of their own until a button says that they are done, *)
(* f.move and f.resize (functions_win_moveresize.c, win_resize.c).          *)
(*                                                                          *)
(* ctwm has one thread, and a loop that waits for events calls the handlers *)
(* that the main loop calls.  The field `loops` is the stack of the loops   *)
(* that are running, with what is left to do when each of them ends.  The   *)
(* X server is there as the grabs it holds and what it shows.               *)
(***************************************************************************)
EXTENDS Integers, SequencesExt

CONSTANTS
  Window,
  Menu,            \* the menus of the configuration
  MenuItems,       \* of each, [func |-> ..., sub |-> a menu or None]
  PinnedOf,        \* the menu that f.pin makes of each
  Bound,           \* what a button is bound to, by context: items too
  FunctionItems,   \* what the user's function (f.function) consists of
  Button,
  None,
  Place,           \* where a frame may be
  StayUpMenus, GrabServer, OpaqueMove, OpaqueResize, HasMoveDelta,
  MAXMENUDEPTH,
  Uses             \* bound: what the user does besides choosing and dragging

MenuRoot == Menu \cup {PinnedOf[m] : m \in Menu}

Pinned(m) == m \notin Menu

Base(m) == IF Pinned(m) THEN CHOOSE b \in Menu : PinnedOf[b] = m ELSE m

Items(m) == MenuItems[Base(m)]

Func == {"nop", "title", "menu", "pin", "move", "resize", "delete", "beep",
         "deltastop", "function", "altkeymap", "altcontext", "identify", "exec"}

\* What can be chosen: a function, and the menu that f.menu is about.
Action == {a \in [func : Func, sub : Menu \cup {None}] : a.func = "menu" => a.sub \in Menu}

Context == {"none", "root", "title", "window", "alternate", "identify"}

Use == {"keys", "menu cancel", "menu move", "abort", "alt", "identify", "destroy"}

ASSUME InteractionAssumption ==
  /\ PinnedOf \in [Menu -> MenuRoot \ Menu]
  /\ \A m, n \in Menu : PinnedOf[m] = PinnedOf[n] => m = n
  /\ None \notin MenuRoot \cup Window /\ Place # {}
  /\ MenuItems \in [Menu -> Seq(Action)]
  /\ \A c \in DOMAIN Bound : Bound[c] \subseteq Action
  /\ FunctionItems \in Seq(Func \ {"function", "menu", "pin"})
  /\ \A i \in DOMAIN FunctionItems : FunctionItems[i] = "move" => i = 1
  /\ {StayUpMenus, GrabServer, OpaqueMove, OpaqueResize, HasMoveDelta} \subseteq BOOLEAN
  /\ MAXMENUDEPTH \in Nat \ {0}
  /\ Uses \subseteq Use

LoopType ==
  [ loop  : {"menu", "move", "resize", "center"},
    win   : Window \cup {None},
    title : BOOLEAN,             \* fromtitlebar
    orig  : Place \cup {None},   \* where the frame was
    now   : Place \cup {None},   \* what the outline shows
    rest  : Seq(Func),           \* items of the function still to be executed
    from  : {"press", "release", "key", "enter"} ]  \* the handler it is called by

VARIABLE ui

UiType ==
         [ active  : Seq(MenuRoot),              \* ActiveMenu and its prev chain
           depth   : Nat,                        \* MenuDepth
           mapped  : [MenuRoot -> {"never", "unmapped", "mapped"}],
           up      : [MenuRoot -> BOOLEAN],      \* the window is mapped
           entered : [MenuRoot -> BOOLEAN],
           item    : Nat,                        \* ActiveItem, 0 for NULL
           rootFn  : Func \cup {None},           \* RootFunction
           context : Context,
           pressed : Button \cup {None},         \* ButtonPressed, None for -1
           cancel  : BOOLEAN,
           drag    : Window \cup {None},         \* DragWindow
           resize  : Window \cup {None},         \* ResizeWindow
           win     : Window \cup {None},         \* ButtonWindow
           moved   : BOOLEAN,                    \* WindowMoved
           fromWin : BOOLEAN,  \* menuFromFrameOrWindowOrTitlebar
           reset   : BOOLEAN,                    \* func_reset_cursor
           altkey  : BOOLEAN,                    \* AlternateKeymap
           altctx  : BOOLEAN,                    \* AlternateContext
           info    : BOOLEAN,                    \* InfoWindow.mapped
           size    : BOOLEAN,                    \* SizeWindow is mapped
           quiet   : BOOLEAN,  \* EnterNotify and LeaveNotify are not handled
           pointer : BOOLEAN, keyboard : BOOLEAN, server : BOOLEAN,  \* grabs
           frame   : [Window -> Place],          \* frame_x, frame_y and so on
           shown   : [Window -> Place],          \* where the server has it
           zoomed  : [Window -> BOOLEAN],
           managed : SUBSET Window,
           gone    : SUBSET Window,  \* destroyed, and ctwm has still to hear of it
           loops   : Seq(LoopType),
           held    : SUBSET Button,
           at      : MenuRoot \cup Window \cup {"root"} ]  \* under the pointer

TypeOK == ui \in UiType

Init ==
  ui = [ active |-> <<>>, depth |-> 0,
         mapped |-> [m \in MenuRoot |-> IF Pinned(m) THEN "never" ELSE "unmapped"],
         up |-> [m \in MenuRoot |-> FALSE], entered |-> [m \in MenuRoot |-> FALSE],
         item |-> 0, rootFn |-> None, context |-> "none", pressed |-> None,
         cancel |-> FALSE, drag |-> None, resize |-> None, win |-> None,
         moved |-> FALSE, fromWin |-> FALSE, reset |-> FALSE, altkey |-> FALSE,
         altctx |-> FALSE, info |-> FALSE, size |-> FALSE, quiet |-> FALSE,
         pointer |-> FALSE, keyboard |-> FALSE, server |-> FALSE,
         frame |-> [w \in Window |-> CHOOSE p \in Place : TRUE],
         shown |-> [w \in Window |-> CHOOSE p \in Place : TRUE],
         zoomed |-> [w \in Window |-> FALSE], managed |-> Window, gone |-> {},
         loops |-> <<>>, held |-> {}, at |-> "root" ]

-----------------------------------------------------------------------------
(***************************************************************************)
(* Menus and the grabs that come with them.                                 *)
(***************************************************************************)
ActiveMenu(u) == IF u.active = <<>> THEN None ELSE Last(u.active)

ActiveItem(u) == IF u.item = 0 THEN None ELSE Items(ActiveMenu(u))[u.item]

PutAway(u, ms) ==
  [u EXCEPT !.up = [m \in MenuRoot |-> m \notin ms /\ @[m]],
            !.mapped = [m \in MenuRoot |-> IF m \in ms THEN "unmapped" ELSE @[m]]]

HideMenu(u, m) == PutAway(u, {m})

\* mutant: only the last menu is put away
PopDownMenuLast(u) ==
  IF u.active = <<>> THEN u
  ELSE LET h == IF Pinned(ActiveMenu(u)) THEN u ELSE HideMenu(u, ActiveMenu(u))
       IN  [h EXCEPT
              !.active = <<>>, !.item = 0, !.depth = 0, !.keyboard = FALSE,
              !.fromWin = @ \/ u.context \in {"window", "title"}]

PopDownMenu(u) ==
  IF u.active = <<>> THEN u
  ELSE [PutAway(u, {m \in Menu : \E i \in DOMAIN u.active : u.active[i] = m}) EXCEPT
          !.active = <<>>, !.item = 0, !.depth = 0, !.keyboard = FALSE,
          !.fromWin = @ \/ u.context \in {"window", "title"}]

\* Menus that are not empty; one that is mapped cannot be popped up once more.
CanPopUp(u, m) ==
  /\ Len(Items(m)) > 0
  /\ Pinned(m) \/ u.mapped[m] # "mapped"

\* What PopUpMenu does when it returns true.
PoppedUp(u, m) ==
  LET s == [u EXCEPT !.active = Append(@, m), !.depth = @ + 1,
                     !.mapped[m] = "mapped", !.up[m] = TRUE]
  IN  IF Pinned(m) THEN [s EXCEPT !.entered[m] = TRUE]
      ELSE [s EXCEPT !.entered[m] = FALSE, !.pointer = TRUE, !.keyboard = TRUE]

PopUpMenu(u, m) == IF CanPopUp(u, m) THEN PoppedUp(u, m) ELSE u

InMenu(u) == \E i \in DOMAIN u.loops : u.loops[i].loop = "menu"

Loop(loop, w, title, orig, from) ==
  [loop |-> loop, win |-> w, title |-> title, orig |-> orig, now |-> orig,
   rest |-> <<>>, from |-> from]

(***************************************************************************)
(* UpdateMenu reads events until there is no menu.  With fromWin set it     *)
(* reads none, and handles the last one again: a press puts the menu away,  *)
(* a key or an entry changes nothing and the loop goes round for ever.  The *)
(* loops that run inside one another end together.                          *)
(***************************************************************************)
UpdateMenu(u, from) ==
  IF InMenu(u) THEN u
  ELSE IF u.fromWin /\ from = "press" THEN [PopDownMenu(u) EXCEPT !.fromWin = FALSE]
  ELSE [u EXCEPT !.loops = Append(@, Loop("menu", None, FALSE, None, from))]

\* do_menu for a button, do_key_menu for a key.
do_menu(u, m, from) ==
  LET s == [u EXCEPT !.server = @ \/ (GrabServer /\ from = "press")]
  IN  IF CanPopUp(s, m) THEN UpdateMenu(PopUpMenu(s, m), from) ELSE s

\* f.pin: a toggle.
PinFunction(u) ==
  LET m == ActiveMenu(u)
      p == PinnedOf[m]
  IN  CASE m = None -> u
        [] m # None /\ Pinned(m) -> PopDownMenu(HideMenu(u, m))
        [] m # None /\ ~Pinned(m) /\ u.mapped[p] = "mapped" -> u
        [] OTHER -> PopDownMenu([u EXCEPT !.up[p] = TRUE, !.mapped[p] = "mapped"])

-----------------------------------------------------------------------------
(***************************************************************************)
(* Functions.                                                               *)
(***************************************************************************)
\* Those that need a window: which one is asked for if there is none.
should_defer(f) == f \in {"move", "resize", "delete", "identify"}

DeferExecution(u, f) == [u EXCEPT !.pointer = TRUE, !.rootFn = f]

\* movewindow up to its loop.  Only an outline without a delta starts to drag.
MoveFunction(u, w, ctx, from) ==
  LET p == PopDownMenu(u)
  IN  [p EXCEPT !.quiet = TRUE, !.size = TRUE, !.pointer = TRUE,
                !.server = @ \/ GrabServer \/ ~OpaqueMove,
                !.drag = IF ~OpaqueMove /\ ~HasMoveDelta THEN w ELSE None,
                !.at = IF p.fromWin THEN w ELSE @,
                !.loops = Append(@, Loop("move", w, ctx = "title" /\ from = "press",
                                         u.shown[w], from))]

\* f.resize, by StartResize or from a menu by resizeFromCenter.
ResizeFunction(u, w, ctx, from) ==
  LET center == InMenu(u) /\ u.context \in {"window", "title", "root"}
      s == [PopDownMenu(u) EXCEPT
              !.quiet = TRUE, !.size = TRUE, !.pointer = TRUE,
              !.server = @ \/ ~OpaqueResize,
              !.loops = Append(@, Loop(IF center THEN "center" ELSE "resize", w,
                                       ctx = "title" /\ from = "press",
                                       u.shown[w], from))]
  IN  IF center THEN [s EXCEPT !.at = w]
      ELSE [s EXCEPT !.resize = w, !.reset = FALSE]

\* The function table: what the handler of f does to window w.
Dispatch(u, f, w, ctx, from) ==
  CASE f = "pin" -> PinFunction(u)
    [] f = "move" -> MoveFunction(u, w, ctx, from)
    [] f = "resize" -> ResizeFunction(u, w, ctx, from)
    [] f = "delete" -> IF w = None THEN u ELSE [u EXCEPT !.gone = @ \cup {w}]
    [] f = "exec" -> [PopDownMenu(u) EXCEPT
                        !.server = @ /\ ~GrabServer, !.pointer = FALSE]
    [] f = "identify" -> [u EXCEPT !.info = TRUE]
    [] f = "altkeymap" -> [u EXCEPT !.altkey = TRUE, !.pointer = TRUE,
                                    !.keyboard = TRUE, !.reset = FALSE]
    [] f = "altcontext" -> [u EXCEPT !.altctx = TRUE, !.pointer = TRUE,
                                     !.keyboard = TRUE, !.reset = FALSE]
    [] OTHER -> u

\* The pointer is let go unless a button is down or a loop has been entered.
Finished(u) ==
  IF u.reset /\ u.pressed = None THEN [u EXCEPT !.pointer = FALSE, !.reset = FALSE]
  ELSE u

\* One that has entered a loop finishes when the loop ends.
FinishedUnlessLooping(u, d) ==
  IF Len(d.loops) > Len(u.loops) THEN d ELSE Finished(d)

Waits(f) == f \notin {"deltastop", "altkeymap", "altcontext"}

\* EF_main of anything but a list.
Execute(u, f, w, ctx, from) ==
  LET s == [u EXCEPT !.rootFn = None]
      grabbed == [s EXCEPT !.pointer = @ \/ Waits(f), !.reset = Waits(f)]
  IN  IF u.cancel \/ f \in {"nop", "title"} THEN s
      ELSE IF should_defer(f) /\ ctx \in {"root", "alternate"} THEN DeferExecution(s, f)
      ELSE FinishedUnlessLooping(u, Dispatch(grabbed, f, w, ctx, from))

(***************************************************************************)
(* f.function: the items in order, up to an f.deltastop if the window was   *)
(* moved.  What follows an item that loops waits for the loop to end.       *)
(***************************************************************************)
ExecuteItem(u, a, f, w, ctx, from) ==
  LET top == Len(a.s.loops)
  IN  IF a.stop THEN a
      ELSE IF top > Len(u.loops) THEN [a EXCEPT !.s.loops[top].rest = Append(@, f)]
      ELSE IF f = "deltastop" /\ a.s.moved THEN [a EXCEPT !.stop = TRUE]
      ELSE [a EXCEPT !.s = Execute(a.s, f, w, ctx, from)]

ExecuteItems(u, fs, w, ctx, from) ==
  LET upto[n \in 0 .. Len(fs)] ==
        IF n = 0 THEN [s |-> u, stop |-> FALSE]
        ELSE ExecuteItem(u, upto[n - 1], fs[n], w, ctx, from)
  IN  upto[Len(fs)].s

ExecuteFunction(u, f, w, ctx, from) ==
  LET s == [u EXCEPT !.rootFn = None, !.pointer = TRUE, !.reset = TRUE]
      defers == \E i \in DOMAIN FunctionItems : should_defer(FunctionItems[i])
  IN  IF f # "function" THEN Execute(u, f, w, ctx, from)
      ELSE IF u.cancel THEN [u EXCEPT !.rootFn = None]
      ELSE IF defers /\ ctx \in {"root", "alternate"} THEN DeferExecution(s, f)
      ELSE FinishedUnlessLooping(u, ExecuteItems(s, FunctionItems, w, ctx, from))

-----------------------------------------------------------------------------
(***************************************************************************)
(* Buttons.  b is the button, ctx the context of the place it is pressed    *)
(* at, bound what it is bound to there.                                     *)
(***************************************************************************)
\* A second button: what is being done is given up.
CancelPress(u) ==
  LET back == IF OpaqueMove /\ u.drag # None /\ ~u.fromWin
              THEN [u EXCEPT !.shown[u.drag] = Last(u.loops).orig] ELSE u
  IN  [back EXCEPT !.cancel = TRUE, !.size = FALSE, !.resize = None,
                   !.drag = None, !.pointer = TRUE]

\* A function waits for a window: the one under the pointer, or a bell.  A press
\* that f.altcontext had sent to the root is one in the window there.
RootFunctionPress(u) ==
  LET ctx == IF u.context = "title" THEN "title" ELSE "window"
      s == ExecuteFunction([u EXCEPT !.context = ctx], u.rootFn, u.at, ctx, "press")
  IN  IF u.at \in u.managed THEN [s EXCEPT !.rootFn = None]
      ELSE [u EXCEPT !.rootFn = None]

BoundPress(u, w, bound) ==
  LET s == [u EXCEPT !.win = w, !.altkey = FALSE,
                     !.pointer = @ /\ ~u.altkey, !.keyboard = @ /\ ~u.altkey]
      f == [s EXCEPT !.rootFn = None]
  IN  IF s.context \in {"none", "identify"} THEN s
      ELSE IF bound.func = "menu" THEN do_menu(f, bound.sub, "press")
      ELSE ExecuteFunction(f, bound.func, w, f.context, "press")

\* Where the button goes: the context, and the window if there is one.
PressContext(u, ctx) ==
  CASE u.altctx -> "alternate"
    [] ~u.altctx /\ u.at \in u.managed -> ctx
    [] ~u.altctx /\ u.at \notin u.managed /\ u.altkey -> "none"
    [] OTHER -> "root"

AltContextGiven(u, ctx) ==
  [u EXCEPT !.context = PressContext(u, ctx), !.altctx = FALSE,
            !.pointer = @ /\ ~u.altctx, !.keyboard = @ /\ ~u.altctx]

PressWindow(u) == IF u.at \in u.managed /\ ~u.altctx THEN u.at ELSE None

HandleButtonPress(u, b, ctx, bound) ==
  LET a == ActiveMenu(u)
      v == IF a # None /\ u.rootFn # None /\ u.at # a THEN PopDownMenu(u) ELSE u
      x == [v EXCEPT !.pressed = b]
      y == AltContextGiven(x, ctx)
  IN  IF a # None /\ ~Pinned(a) /\ u.at # a THEN PopDownMenu(u)
      ELSE IF v.pressed # None /\ ~v.info THEN CancelPress(v)
      ELSE IF ActiveMenu(x) # None /\ Pinned(ActiveMenu(x))
           THEN [x EXCEPT !.context = "root"]
      ELSE IF x.resize # None \/ x.drag # None \/ ActiveMenu(x) # None THEN x
      ELSE IF y.rootFn # None THEN RootFunctionPress(y)
      ELSE BoundPress(y, PressWindow(x), bound)

(***************************************************************************)
(* A release ends a drag, chooses the item of a menu, and lets go of the    *)
(* grabs if it was the last button.                                         *)
(***************************************************************************)
EndDrag(u) ==
  IF u.drag = None THEN u
  ELSE [u EXCEPT !.frame[u.drag] = Last(u.loops).now,
                 !.shown[u.drag] = Last(u.loops).now, !.drag = None]

EndResize(u) ==
  LET w == u.resize
      new == Last(u.loops).now
  IN  IF w = None THEN u
      ELSE [u EXCEPT !.size = FALSE, !.resize = None,
                     !.zoomed[w] = @ /\ new = u.frame[w],
                     !.frame[w] = new, !.shown[w] = new]

\* mutant: with another button down, the release is the last all the same
LastReleaseFirst(u, b) ==
  IF u.altkey \/ u.altctx \/ u.rootFn # None THEN [u EXCEPT !.pressed = None]
  ELSE IF u.cancel /\ u.held \ {b} = {} THEN [u EXCEPT !.pressed = None, !.cancel = FALSE]
  ELSE [u EXCEPT !.pointer = FALSE, !.server = FALSE, !.quiet = FALSE]

\* b is the button of the event that ctwm saw last, not always the one that
\* called the handler: a function may have waited for others.
LastRelease(u, b) ==
  LET busy == u.rootFn # None \/ u.resize # None \/ u.drag # None
      alt == u.altkey \/ u.altctx
  IN  IF alt \/ busy THEN [u EXCEPT !.pressed = None]
      ELSE IF u.held \ {b} # {} THEN u
      ELSE [u EXCEPT !.pointer = FALSE, !.server = FALSE, !.quiet = FALSE,
                     !.pressed = None, !.cancel = FALSE]

\* What is left to do when the chosen function has been executed.
AfterChoice(u, b) ==
  LastRelease(PopDownMenu([u EXCEPT !.context = "none", !.win = None]), b)

ChooseItem(u) ==
  LET i == ActiveItem(u)
      s == IF i.func \in {"move", "delete"} THEN [u EXCEPT !.pressed = None] ELSE u
      p == IF i.func \in {"pin", "menu"} THEN s ELSE PopDownMenu(s)
  IN  ExecuteFunction(p, i.func, u.win, u.context, "release")

Chosen(s, c, b) == IF Len(c.loops) > Len(s.loops) THEN c ELSE AfterChoice(c, b)

ReleaseInMenu(s, b) ==
  LET a == ActiveMenu(s)
      stays == /\ StayUpMenus
               /\ IF s.item = 0 THEN ~s.entered[a] ELSE ActiveItem(s).func = "title"
  IN  IF a = None \/ s.rootFn # None THEN LastRelease(s, b)
      ELSE IF stays THEN [s EXCEPT !.pressed = None]
      ELSE IF s.item = 0 THEN LastRelease(PopDownMenu(s), b)
      ELSE Chosen(s, ChooseItem(s), b)

HandleButtonRelease(u, b) ==
  LET i == IF u.info /\ u.context = "identify"
           THEN [u EXCEPT !.info = FALSE, !.context = "none"] ELSE u
  IN  ReleaseInMenu(EndResize(EndDrag(i)), b)

-----------------------------------------------------------------------------
(***************************************************************************)
(* Keys: in a menu, and those that a function is bound to.                  *)
(***************************************************************************)
Let(u) == [u EXCEPT !.pointer = FALSE]

KeyInMenu(u, k) ==
  LET i == ActiveItem(u)
      p == IF i.func = "pin" THEN u ELSE PopDownMenu(u)
  IN  CASE i = None -> Let(PopDownMenu(u))
        [] i # None /\ i.func \in {"nop", "title"} -> u
        [] i # None /\ i.func = "menu" /\ k = "return" ->
             PopDownMenu(ExecuteFunction(u, "menu", u.win, u.context, "key"))
        [] i # None /\ i.func = "menu" /\ k = "right" ->
             do_menu([u EXCEPT !.item = 0], i.sub, "key")
        [] OTHER -> ExecuteFunction(p, i.func, u.win, u.context, "key")

EscapeMenu(u) ==
  LET a == ActiveMenu(u)
  IN  CASE Pinned(a) -> u
        [] ~Pinned(a) /\ u.depth = 1 -> Let(PopDownMenu(u))
        [] OTHER -> [u EXCEPT !.up[a] = FALSE]  \* and the pointer is warped

KeyDone(e) == IF e.altkey \/ e.altctx THEN e ELSE Let(e)

BoundKey(u, bound) ==
  LET y == AltContextGiven(u, "window")
      w == PressWindow(u)
      z == [y EXCEPT !.altkey = FALSE,
                     !.pointer = @ /\ ~y.altkey, !.keyboard = @ /\ ~y.altkey]
  IN  CASE z.context = "none" \/ bound.func \in {"move", "resize"} -> z
        [] z.context # "none" /\ bound.func = "menu" ->
             do_menu([z EXCEPT !.win = w], bound.sub, "key")
        [] OTHER -> KeyDone(ExecuteFunction(z, bound.func, w, z.context, "key"))

HandleKeyPress(u, k, bound) ==
  LET s == [u EXCEPT !.info = FALSE]
  IN  CASE s.active # <<>> /\ k = "escape" -> EscapeMenu(s)
        [] s.active # <<>> /\ k # "escape" -> KeyInMenu(s, k)
        [] OTHER -> BoundKey(s, bound)

-----------------------------------------------------------------------------
(***************************************************************************)
(* The pointer enters and leaves menus.                                     *)
(***************************************************************************)
LeaveMenu(u) ==
  IF u.active # <<>> /\ Pinned(ActiveMenu(u)) /\ u.at = ActiveMenu(u) /\ ~u.quiet
  THEN PopDownMenu(u) ELSE u

\* The menus above m are put away, and entry i is the active one.
BackTo(u, m, i) ==
  LET n == CHOOSE j \in DOMAIN u.active : u.active[j] = m
      s == PutAway(u, {u.active[j] : j \in n + 1 .. Len(u.active)})
  IN  [s EXCEPT !.active = SubSeq(@, 1, n), !.depth = @ - (Len(u.active) - n),
                !.item = i, !.pointer = @ /\ ~Pinned(m)]

EnterMenu(u, m, i) ==
  LET s == [u EXCEPT !.entered[m] = TRUE]
  IN  IF u.quiet \/ ~u.up[m] THEN u
      ELSE IF u.active = <<>> /\ Pinned(m) /\ u.rootFn = None
           THEN UpdateMenu([PopUpMenu(u, m) EXCEPT !.context = "root"], "enter")
      ELSE IF u.rootFn = None /\ m \in ToSet(u.active) THEN BackTo(s, m, i)
      ELSE s

\* UpdateMenu after a movement.  right: in the last third of the entry.
MenuMotion(u, i, right) ==
  LET a == ActiveMenu(u)
      s == [u EXCEPT !.item = IF u.at = a THEN i ELSE 0]
      sub == ActiveItem(s).sub
  IN  IF u.active = <<>> \/ ~InMenu(u) \/ Last(u.loops).loop # "menu" THEN u
      ELSE IF ~u.entered[a] THEN u
      ELSE IF /\ s.item # 0 /\ ActiveItem(s).func = "menu" /\ right
              /\ s.depth < MAXMENUDEPTH /\ CanPopUp(s, sub)
           THEN [PopUpMenu(s, sub) EXCEPT !.item = 0]
      ELSE s

-----------------------------------------------------------------------------
(***************************************************************************)
(* The loops.  When one ends, what is left of the function is executed and  *)
(* the handler it was called by goes on; then the loop below looks whether  *)
(* it should end too.  b is the button of the event seen last.              *)
(***************************************************************************)
AfterRest(u, e, b) ==
  LET l == Last(u.loops)
      d == IF l.loop = "menu" THEN e ELSE Finished(e)
  IN  IF Len(e.loops) = Len(u.loops) THEN e
      ELSE IF l.from = "release" THEN AfterChoice(d, b)
      ELSE d

EndLoop(u, b) ==
  LET l == Last(u.loops)
      below == [u EXCEPT !.loops = Front(@)]
  IN  AfterRest(u, ExecuteItems(below, l.rest, l.win, "window", l.from), b)

\* UpdateMenu looks after each event whether there is still a menu.
MenuLoopEnds(u) ==
  /\ u.loops # <<>>
  /\ Last(u.loops).loop = "menu"
  /\ u.active = <<>> \/ u.cancel

AfterLoop(u, b) ==
  IF MenuLoopEnds(u) THEN EndLoop([u EXCEPT !.fromWin = FALSE], b) ELSE u

EndLoops(u, b) == AfterLoop(EndLoop(u, b), b)

(***************************************************************************)
(* f.move: an event other than the movement of the pointer.  A press gives  *)
(* a drag up, unless the function was chosen from a menu of the window: it  *)
(* then puts the frame down, without SetupWindow.                           *)
(***************************************************************************)
\* mutant: an opaque move is not undone
GivenUpThere(u, l) ==
  [u EXCEPT !.drag = None, !.size = FALSE, !.pointer = TRUE, !.reset = FALSE]

GivenUp(u, l) ==
  [u EXCEPT !.drag = None, !.size = FALSE, !.pointer = TRUE, !.reset = FALSE,
            !.shown[l.win] = IF OpaqueMove THEN l.orig ELSE @]

\* mutant: the window stays the one that is dragged
PutDownDragged(u, l) ==
  [u EXCEPT !.size = FALSE, !.shown[l.win] = IF OpaqueMove THEN @ ELSE l.now]

PutDown(u, l) ==
  [u EXCEPT !.drag = None, !.size = FALSE,
            !.shown[l.win] = IF OpaqueMove THEN @ ELSE l.now]

MovePress(u, b) ==
  LET l == Last(u.loops)
      drags == ~u.fromWin /\ u.drag # None
      gone == [CancelPress(u) EXCEPT !.moved = FALSE, !.reset = FALSE]
  IN  CASE drags -> EndLoops(GivenUp(u, l), b)
        [] ~drags /\ l.title -> [u EXCEPT !.loops[Len(u.loops)].title = FALSE]
        [] u.fromWin /\ ~l.title -> EndLoops(PutDown(u, l), b)
        [] OTHER -> EndLoops(gone, b)

MoveRelease(u, b) ==
  IF u.fromWin THEN u ELSE EndLoops([HandleButtonRelease(u, b) EXCEPT !.size = FALSE], b)

MoveMotion(u, p) ==
  LET l == Last(u.loops)
  IN  [u EXCEPT !.drag = l.win, !.moved = TRUE, !.loops[Len(u.loops)].now = p,
                !.shown[l.win] = IF OpaqueMove THEN p ELSE @]

\* f.resize.  A frame that is resized opaquely is set up at once.
ResizeMotion(u, p) ==
  LET l == Last(u.loops)
      s == [u EXCEPT !.loops[Len(u.loops)].now = p, !.moved = @ \/ l.loop = "resize"]
  IN  IF OpaqueResize
      THEN [s EXCEPT !.frame[l.win] = p, !.shown[l.win] = p] ELSE s

ResizePress(u, b) ==
  IF Last(u.loops).title THEN [u EXCEPT !.loops[Len(u.loops)].title = FALSE]
  ELSE IF u.pressed = None THEN [u EXCEPT !.pressed = b]
  ELSE EndLoops(CancelPress(u), b)

ResizeRelease(u, b) == EndLoops(HandleButtonRelease(u, b), b)

CenterPress(u, b) ==
  LET l == Last(u.loops)
  IN  EndLoops([u EXCEPT !.size = FALSE, !.frame[l.win] = l.now, !.shown[l.win] = l.now], b)

-----------------------------------------------------------------------------
(***************************************************************************)
(* The user, the clients and the main loop.                                 *)
(***************************************************************************)
TopLoop == IF ui.loops = <<>> THEN "main" ELSE Last(ui.loops).loop

\* UpdateMenu waits for events only if fromWin is not set.
Reads == ~(TopLoop = "menu" /\ ui.fromWin)

\* An UpdateMenu that had already been waiting for the event looks at the menu.
AfterEvent(u, b) == IF TopLoop = "menu" THEN AfterLoop(u, b) ELSE u

\* The main loop forgets that the window was moved before it takes an event.
Taken == IF ui.loops = <<>> THEN [ui EXCEPT !.moved = FALSE] ELSE ui

BoundAt(ctx) == IF ctx \in DOMAIN Bound THEN Bound[ctx] ELSE {}

SecondButton ==
  ui.held # {} =>
    IF ui.active # <<>> /\ ui.at = ActiveMenu(ui) THEN "menu cancel" \in Uses
    ELSE "abort" \in Uses

Press(b) ==
  /\ b \notin ui.held
  /\ SecondButton
  /\ Reads
  /\ LET u == [Taken EXCEPT !.held = @ \cup {b}]
     IN  \/ /\ TopLoop \in {"main", "menu"}
            /\ \E ctx \in {"title", "window"} :
                 \E bound \in BoundAt(PressContext(u, ctx)) \cup
                              {[func |-> "nop", sub |-> None]} :
                    ui' = AfterEvent(HandleButtonPress(u, b, ctx, bound), b)
         \/ TopLoop = "move" /\ ui' = MovePress(u, b)
         \/ TopLoop = "resize" /\ ui' = ResizePress(u, b)
         \/ TopLoop = "center" /\ ui' = CenterPress(u, b)

Release(b) ==
  /\ b \in ui.held
  /\ Reads
  /\ LET up(u) == [u EXCEPT !.held = @ \ {b}]
     IN  \/ /\ TopLoop \in {"main", "menu"}
            /\ ui' = up(AfterEvent(HandleButtonRelease(Taken, b), b))
         \/ TopLoop = "move" /\ ui' = up(MoveRelease(ui, b))
         \/ TopLoop = "resize" /\ ui' = up(ResizeRelease(ui, b))
         \/ TopLoop = "center" /\ ui' = up(ui)

\* Bound: no key while a button is down or something is being given up.
Key(k) ==
  /\ "keys" \in Uses
  /\ Reads
  /\ ui.held = {} /\ ~ui.cancel
  /\ TopLoop \in {"main", "menu"}
  /\ \/ /\ ui.active # <<>>
        /\ k \in {"return", "right", "escape"}
        /\ ui' = AfterEvent(HandleKeyPress(Taken, k, [func |-> "nop", sub |-> None]), None)
     \/ /\ ui.active = <<>>
        /\ k = "bound"
        /\ \E bound \in BoundAt(PressContext(ui, "window")) :
             /\ bound.func # "function"
             /\ ui' = AfterEvent(HandleKeyPress(Taken, k, bound), None)

\* The pointer comes to p: a menu, where it is in entry i, a window or the root.
Point(p, i, right) ==
  /\ Reads
  /\ TopLoop \in {"main", "menu"}
  /\ LET left == [AfterEvent(LeaveMenu(Taken), None) EXCEPT !.at = p]
         there == IF p \in MenuRoot THEN AfterEvent(EnterMenu(left, p, i), None) ELSE left
     IN  ui' = MenuMotion(there, i, right)

PointAt ==
  \/ \E m \in MenuRoot : /\ ui.up[m]
                         /\ \E i \in 0 .. Len(Items(m)), right \in BOOLEAN : Point(m, i, right)
  \/ \E w \in ui.managed : ui.at # w /\ Point(w, 0, FALSE)
  \/ ui.at # "root" /\ Point("root", 0, FALSE)

Drag(p) ==
  \/ TopLoop = "move" /\ (ui.held # {} \/ ui.fromWin) /\ ui' = MoveMotion(ui, p)
  \/ TopLoop = "resize" /\ ui.held # {} /\ ui' = ResizeMotion(ui, p)
  \/ TopLoop = "center" /\ ui' = ResizeMotion(ui, p)

ClientDestroy(w) ==
  /\ "destroy" \in Uses
  /\ ui' = [ui EXCEPT !.gone = @ \cup {w}]

\* HandleDestroyNotify: none of the loops takes the event.
Destroyed(w) ==
  /\ w \in ui.gone
  /\ TopLoop = "main"
  /\ ui' = [Taken EXCEPT !.managed = @ \ {w}, !.gone = @ \ {w},
                         !.at = IF @ = w THEN "root" ELSE @]

Next ==
  \/ \E b \in Button : Press(b) \/ Release(b)
  \/ \E k \in {"return", "right", "escape", "bound"} : Key(k)
  \/ PointAt
  \/ \E p \in Place : Drag(p)
  \/ \E w \in ui.managed : ClientDestroy(w) \/ Destroyed(w)

Spec == Init /\ [][Next]_ui

-----------------------------------------------------------------------------
(***************************************************************************)
(* Properties.                                                              *)
(***************************************************************************)
Idle ==
  /\ ui.loops = <<>> /\ ui.held = {} /\ ui.active = <<>> /\ ui.rootFn = None
  /\ ~ui.altkey /\ ~ui.altctx

\* When the last button is released, no menu is up and no function waits for
\* a window, the pointer, the keyboard and the server are nobody's, crossings
\* are handled again, and nothing is left of what was given up.
LastReleaseFrees ==
  [][ui.held # {} /\ Idle' =>
       /\ ~ui'.pointer /\ ~ui'.keyboard /\ ~ui'.server /\ ~ui'.quiet
       /\ ui'.pressed = None /\ ~ui'.cancel]_ui

\* A second button pressed while a window is dragged brings it back to where
\* it was, and ctwm's idea of where that is has not changed.
AbortRestores ==
  [][TopLoop = "move" /\ ~ui.fromWin /\ ui.held # {} /\ Len(ui'.loops) < Len(ui.loops)
       /\ ui'.held # {} /\ ui.held \subseteq ui'.held =>
     LET l == Last(ui.loops)
     IN  ui'.shown[l.win] = l.orig /\ ui'.frame[l.win] = ui.frame[l.win]]_ui

\* The window that a menu was popped up for is there as long as UpdateMenu waits
\* for an item of it to be chosen.  (A pinned menu that is entered finds the
\* window of the last press, and a menu that Cancel has left up is not waited
\* for: neither window has to be there.)
MenuWindowIsThere ==
  ui.active # <<>> /\ ~Pinned(Head(ui.active)) /\ InMenu(ui) =>
    ui.win \in ui.managed \cup {None}

\* The menus on the screen are those of the chain that ActiveMenu begins and
\* those that are pinned, none of the chain twice, MenuDepth is its length, and
\* the window the chain is about is there.
MenusAreTheChain ==
  /\ TypeOK /\ MenuWindowIsThere
  /\ ui.depth = Len(ui.active) /\ IsInjective(ui.active)
  /\ \A m \in Menu : (m \in ToSet(ui.active)) = (ui.mapped[m] = "mapped")
  /\ \A m \in Menu : ui.up[m] => m \in ToSet(ui.active)
  /\ \A m \in MenuRoot \ Menu : ui.up[m] = (ui.mapped[m] = "mapped")

\* Whatever ends f.move or f.resize, no window stays the one that is dragged:
\* the next release of a button would move it.
DragEnds ==
  ui.loops = <<>> => ui.drag = None /\ ui.resize = None /\ ~ui.size

\* When nothing is being dragged the recorded place of a frame, by which all
\* the others are computed, is where the server shows it.
FrameIsWhereItIsShown ==
  ui.loops = <<>> => ui.frame = ui.shown

=============================================================================
