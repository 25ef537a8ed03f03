----------------------------- MODULE Attention -----------------------------
(***************************************************************************)
(* Which window has the user's attention: the focus, automatic raising and  *)
(* lowering, and the window ring.  ctwm learns of the pointer from Enter,   *)
(* Leave and Focus events, some of which it puts into the queue itself, and *)
(* each thing it does (raise, map, warp, focus) makes the server send more  *)
(* of them, which it handles later.                                         *)
(*                                                                          *)
(* The server is there as far as it decides on those events: which window   *)
(* is on top where the pointer is, and who has the input focus.             *)
(***************************************************************************)
EXTENDS Integers, SequencesExt

CONSTANTS
  Win,
  FirstWindow,      \* ctwm's list of them, as a sequence
  None,
  Point,            \* the places the pointer may be at
  PartAt,           \* which part of a window is there: see Part
  WarpPoint,        \* the middle of each window
  WorkSpace,
  Occupation,       \* of each window
  Input,            \* the windows with wmhints->input
  DoesWmTakeFocus,
  AutoRaise, AutoLower, WindowRing,
  TitleFocus, SloppyFocus, ClickToFocus,
  SaveWorkspaceFocus, WarpUnmapped, WarpRingAnyWhere, RaiseOnWarp,
  Iconifiable,      \* bound: the windows f.iconify is invoked on
  Sessions,         \* bound: what the user does, one set for each session
  MaxActs           \* bound: how often

Part == {"frame", "client", "none"}

Use == {"move", "ring", "warpring", "focus", "unfocus", "iconify", "workspace",
        "active", "destroy", "press", "answer", "hurry"}

UseOfWindow == {"ring", "focus", "iconify", "active", "press", "destroy"}

ASSUME AttentionAssumption ==
  /\ None \notin Win
  /\ FirstWindow \in Seq(Win) /\ IsInjective(FirstWindow) /\ Range(FirstWindow) = Win
  /\ PartAt \in [Point -> [Win -> Part]]
  \* at first the pointer is over none of them
  /\ \E p \in Point : \A w \in Win : PartAt[p][w] = "none"
  /\ WarpPoint \in [Win -> Point]
  /\ Occupation \in [Win -> (SUBSET WorkSpace) \ {{}}]
  /\ UNION {Iconifiable, Input, DoesWmTakeFocus, AutoRaise, AutoLower, WindowRing} \subseteq Win
  /\ {TitleFocus, SloppyFocus, ClickToFocus, SaveWorkspaceFocus, WarpUnmapped,
      WarpRingAnyWhere, RaiseOnWarp} \subseteq BOOLEAN
  /\ Sessions \subseteq SUBSET Use
  /\ MaxActs \in Nat

Maybe == Win \cup {None}

Area == [win : Win, part : {"frame", "client"}] \cup {[win |-> None, part |-> "root"]}

Root == [win |-> None, part |-> "root"]
FrameOf(w) == [win |-> w, part |-> "frame"]
ClientOf(w) == [win |-> w, part |-> "client"]

EventType ==
  [ type : {"Enter", "Leave", "FocusIn", "FocusOut"}, area : Area,
    detail : {"Ancestor", "Inferior", "Virtual", "Nonlinear", "NonlinearVirtual",
              "Pointer"},
    focus : BOOLEAN ]
  \cup [type : UseOfWindow, win : Win] \cup [type : {"warpring", "unfocus", "workspace"}, win : {None}]

VARIABLES
  x,      \* the server
  wm,     \* ctwm
  user    \* a record of the session: what the user does and how often

vars == <<x, wm, user>>

\* Windows in an order, each at most once.
WinSeq == {q \in SeqOf(Win, Cardinality(Win)) : IsInjective(q)}

ServerType ==
  [ stack  : WinSeq,            \* from the top
    point  : Point,
    focus  : Maybe,             \* None is PointerRoot
    asked  : Maybe,             \* who may still answer WM_TAKE_FOCUS
    dead   : SUBSET Win,        \* the clients that are gone
    queue  : Seq(EventType) ]

WmType ==
  [ Focus      : Maybe,
    FocusRoot  : BOOLEAN,
    isicon     : SUBSET Win,
    gone       : SUBSET Win,    \* what ctwm has forgotten
    ws         : WorkSpace,
    save_focus : [WorkSpace -> Maybe],
    enter_flag : BOOLEAN,
    leave_flag : BOOLEAN,
    enter_win  : Maybe,
    raise_win  : Maybe,
    leave_win  : Maybe,
    lower_win  : Maybe,
    ring       : WinSeq,
    RingLeader : Maybe ]

TypeOK ==
  /\ x \in ServerType
  /\ wm \in WmType
  /\ user \in [uses : Sessions, acts : 0 .. MaxActs]

\* The elements of a sequence that are in a set, in their order.
Kept(q, S) ==
  LET kept[i \in 0 .. Len(q)] ==
        IF i = 0 THEN <<>>
        ELSE IF q[i] \in S THEN Append(kept[i - 1], q[i]) ELSE kept[i - 1]
  IN  kept[Len(q)]

(***************************************************************************)
(* The server.  A state is a record [x, wm] here, so that steps compose.    *)
(***************************************************************************)

Viewable(s, w) ==
  w \notin s.wm.isicon \cup s.wm.gone /\ s.wm.ws \in Occupation[w]

\* Where the pointer is: in the topmost window that is there.
At(s) ==
  LET top == SelectInSeq(s.x.stack, LAMBDA w : Viewable(s, w)
                                               /\ PartAt[s.x.point][w] # "none")
      w == s.x.stack[top]
  IN  IF top = 0 THEN Root ELSE [win |-> w, part |-> PartAt[s.x.point][w]]

\* The field `focus` of a crossing event: the focus is there or around it.
HasFocus(s, a) == s.x.focus = None \/ a = ClientOf(s.x.focus)

Queue(s, events) == [s EXCEPT !.x.queue = @ \o events]

Crossing(s, type, area, detail) ==
  [type |-> type, area |-> area, detail |-> detail, focus |-> HasFocus(s, area)]

\* What the server sends when the pointer goes from one window into another;
\* leaving the root is nothing to ctwm.
Crossings(s, a, b) ==
  LET leave(area, detail) == Crossing(s, "Leave", area, detail)
      enter(area, detail) == Crossing(s, "Enter", area, detail)
      via(c, frame) == IF c.part = "client" THEN <<frame>> ELSE <<>>
  IN  IF a = b THEN <<>>
      ELSE
      CASE a.win = b.win -> IF a.part = "frame"
                            THEN <<leave(a, "Inferior"), enter(b, "Ancestor")>>
                            ELSE <<leave(a, "Ancestor"), enter(b, "Inferior")>>
        [] b = Root -> <<leave(a, "Ancestor")>>
                       \o via(a, leave(FrameOf(a.win), "Virtual"))
                       \o <<enter(b, "Inferior")>>
        [] a = Root -> via(b, enter(FrameOf(b.win), "Virtual"))
                       \o <<enter(b, "Ancestor")>>
        [] OTHER -> <<leave(a, "Nonlinear")>>
                    \o via(a, leave(FrameOf(a.win), "NonlinearVirtual"))
                    \o via(b, enter(FrameOf(b.win), "NonlinearVirtual"))
                    \o <<enter(b, "Nonlinear")>>

\* The pointer, the stack or the viewable windows have changed since s.
Crossed(s, t) == Queue(t, Crossings(t, At(s), At(t)))

FocusEvent(type, w, detail) ==
  [type |-> type, area |-> ClientOf(w), detail |-> detail, focus |-> FALSE]

\* The focus is set; in PointerRoot mode the client under the pointer has it.
Refocused(s, f) ==
  LET was == s.x.focus
      under == IF At(s).part = "client" THEN {At(s).win} ELSE {}
      out == IF was # None THEN <<FocusEvent("FocusOut", was, "Nonlinear")>>
             ELSE SetToSeq({FocusEvent("FocusOut", w, "Pointer") : w \in under})
      into == IF f # None THEN <<FocusEvent("FocusIn", f, "Nonlinear")>>
              ELSE SetToSeq({FocusEvent("FocusIn", w, "Pointer") : w \in under})
  IN  IF was = f THEN [s EXCEPT !.x.asked = None]
      ELSE Queue([s EXCEPT !.x.focus = f, !.x.asked = None], out \o into)

\* XSetInputFocus fails on a window that is not viewable.
CanFocus(s, w) == Viewable(s, w) /\ w \notin s.x.dead

XSetInputFocus(s, f) == IF f = None \/ CanFocus(s, f) THEN Refocused(s, f) ELSE s

\* Windows were unmapped or mapped between s and t: RevertToPointerRoot.
Remapped(s, t) ==
  LET u == Crossed(s, t)
  IN  IF u.x.focus # None /\ ~CanFocus(u, u.x.focus) THEN Refocused(u, None) ELSE u

XRaise(s, w) ==
  Crossed(s, [s EXCEPT !.x.stack = <<w>> \o RemoveFirst(@, w)])
XLower(s, w) ==
  Crossed(s, [s EXCEPT !.x.stack = Append(RemoveFirst(@, w), w)])
XWarpPointer(s, p) == Crossed(s, [s EXCEPT !.x.point = p])

(***************************************************************************)
(* What the handlers call.                                                  *)
(***************************************************************************)

\* mutant: the focus is set without telling the server.
SetFocusInWm(s, w) == [s EXCEPT !.wm.Focus = w]

SetFocus(s, w) ==
  IF SloppyFocus /\ w = None THEN s
  ELSE [XSetInputFocus(s, w) EXCEPT !.wm.Focus = w]

FocusOnRoot(s) ==
  [SetFocus(s, None) EXCEPT !.wm.FocusRoot = @ \/ ~ClickToFocus]

SendTakeFocusMessage(s, w) == [s EXCEPT !.x.asked = w]

\* XPutBackEvent: the next event.
Synthesise(s, type, w) ==
  [s EXCEPT !.x.queue = <<FocusEvent(type, w, "Pointer")>> \o @]

AutoRaiseWindow(s, w) ==
  [XRaise(s, w) EXCEPT !.wm.enter_win = None, !.wm.enter_flag = TRUE,
                       !.wm.raise_win = w]

AutoLowerWindow(s, w) ==
  [XLower(s, w) EXCEPT !.wm.enter_win = None, !.wm.enter_flag = FALSE,
                       !.wm.raise_win = None, !.wm.leave_win = None,
                       !.wm.leave_flag = TRUE, !.wm.lower_win = w]

SetRaiseWindow(s, w) ==
  [s EXCEPT !.wm.enter_flag = TRUE, !.wm.enter_win = None, !.wm.raise_win = w,
            !.wm.leave_win = None, !.wm.leave_flag = FALSE, !.wm.lower_win = None]

managed(s) == Win \ s.wm.gone

WindowIsOnRing(s, w) == w \in Range(s.wm.ring)

UnlinkWindowFromRing(s, w) ==
  LET r == RemoveFirst(s.wm.ring, w)
      \* Scr->Ring is the head; the next of it becomes the head
      ring == IF r = <<>> THEN None ELSE Head(r)
  IN  IF ~WindowIsOnRing(s, w) THEN s
      ELSE [s EXCEPT !.wm.ring = r,
                     !.wm.RingLeader = IF r = <<>> \/ @ = w THEN ring ELSE @]

\* It comes right after the head.
AddWindowToRing(s, w) ==
  [s EXCEPT !.wm.ring = IF @ = <<>> THEN <<w>> ELSE <<Head(@), w>> \o Tail(@)]

\* clicktofocus.c: the highlighted window, or the first that is mapped.
get_last_window(s) ==
  LET here == {w \in managed(s) : s.wm.ws \in Occupation[w]}
      first == SelectInSeq(FirstWindow, LAMBDA w : w \in here \ s.wm.isicon)
  IN  IF s.wm.Focus \in here THEN s.wm.Focus
      ELSE IF first = 0 THEN None ELSE FirstWindow[first]

set_last_window(s) ==
  IF ClickToFocus \/ SloppyFocus THEN SetFocus(s, get_last_window(s)) ELSE s

Raised(s, w, must_raise) ==
  IF w \in AutoRaise \/ must_raise THEN AutoRaiseWindow(s, w) ELSE s

\* WarpToWindow, to a window that is shown.
WarpHere(s, w, must_raise) ==
  SetFocus(XWarpPointer(Raised(s, w, must_raise), WarpPoint[w]), w)

\* The focus of the workspace that is left is kept, and given back to that
\* window if it is still to be seen there.
GotoWorkSpace(s, ws) ==
  LET saved == IF SaveWorkspaceFocus
               THEN [s EXCEPT !.wm.save_focus[s.wm.ws] = s.wm.Focus] ELSE s
      shown == Remapped(s, [saved EXCEPT !.wm.ws = ws])
      back == shown.wm.save_focus[ws]
      warped == IF ~SaveWorkspaceFocus \/ back = None THEN shown
                ELSE IF ws \in Occupation[back] THEN WarpHere(shown, back, FALSE)
                ELSE [shown EXCEPT !.wm.save_focus[ws] = None]
  IN  IF ws = s.wm.ws THEN s ELSE set_last_window(warped)

WarpToWindow(s, w, must_raise) ==
  LET up == Raised(s, w, must_raise)
      there == IF up.wm.ws \in Occupation[w] THEN up
               ELSE GotoWorkSpace(up, CHOOSE ws \in Occupation[w] : TRUE)
  IN  SetFocus(XWarpPointer(there, WarpPoint[w]), w)

DeIconify(s, w) ==
  Remapped(s, [s EXCEPT !.wm.isicon = @ \ {w},
                        !.x.stack = <<w>> \o RemoveFirst(@, w)])

(***************************************************************************)
(* The handlers.  Each is given the event after it has left the queue.      *)
(***************************************************************************)

\* Where in the queue the pointer leaves a.
LeavesOf(s, a) ==
  {i \in DOMAIN s.x.queue : s.x.queue[i].type = "Leave" /\ s.x.queue[i].area = a}

\* The pointer goes on, or comes back into the same window (HENQueueScanner).
MovesOn(s, a) ==
  LET leaves == LeavesOf(s, a)
  IN  leaves # {} /\ s.x.queue[Max(leaves)].detail # "Inferior"

\* mutant: as if there were no TitleFocus.
EnterFrameNoTitleFocus(s, e, w) ==
  IF w \in Input /\ e.focus THEN Synthesise(s, "FocusIn", w) ELSE s

EnterFrame(s, e, w) ==
  LET focused == IF w \in Input /\ TitleFocus THEN SetFocus(s, w) ELSE s
  IN  CASE TitleFocus /\ w \in DoesWmTakeFocus -> SendTakeFocusMessage(focused, w)
        [] ~TitleFocus /\ w \in Input /\ e.focus -> Synthesise(focused, "FocusIn", w)
        [] OTHER -> focused

EnterClient(s, e, w) ==
  LET told == IF e.focus THEN Synthesise(s, "FocusIn", w) ELSE s
  IN  IF TitleFocus \/ w \notin DoesWmTakeFocus THEN told
      ELSE SendTakeFocusMessage(IF w \in Input THEN SetFocus(told, w) ELSE told, w)

\* mutant: raises at once, although others are being raised.
EnterForRaiseAtOnce(s, w) ==
  IF w \in AutoRaise THEN AutoRaiseWindow([s EXCEPT !.wm.enter_win = w], w) ELSE s

EnterForRaise(s, w) ==
  CASE w \in AutoRaise ->
         LET t == [s EXCEPT !.wm.enter_win = w]
         IN  IF s.wm.enter_flag THEN t ELSE AutoRaiseWindow(t, w)
    [] w \notin AutoRaise /\ s.wm.enter_flag /\ s.wm.raise_win = w ->
         [s EXCEPT !.wm.enter_win = w]
    [] OTHER -> s

EnterForRing(s, w) ==
  IF WindowIsOnRing(s, w) /\ (~s.wm.enter_flag \/ s.wm.raise_win = s.wm.enter_win)
  THEN [s EXCEPT !.wm.RingLeader = w] ELSE s

HandleEnterNotify(s, e) ==
  LET w == e.area.win
      entered == IF s.wm.FocusRoot /\ ~MovesOn(s, e.area) /\ w \notin s.wm.isicon
                 THEN IF e.area.part = "frame" THEN EnterFrame(s, e, w)
                                               ELSE EnterClient(s, e, w)
                 ELSE s
  IN  CASE w = None -> IF s.wm.FocusRoot /\ s.x.focus # None THEN SetFocus(s, None) ELSE s
        [] w \in s.wm.gone -> s
        [] OTHER -> EnterForRing(EnterForRaise(entered, w), w)

\* The pointer leaves the frame for another window, and does not come back.
LeaveFrame(s, e, w) ==
  LET free == IF TitleFocus \/ w \in DoesWmTakeFocus THEN SetFocus(s, None) ELSE s
      back == \E i \in DOMAIN s.x.queue : /\ s.x.queue[i].type = "Enter"
                                          /\ s.x.queue[i].area = e.area
  IN  IF ~s.wm.FocusRoot \/ e.area.part # "frame" \/ back
         \/ e.detail \in {"Inferior", "Virtual", "NonlinearVirtual"} THEN s
      ELSE IF e.focus THEN Synthesise(free, "FocusOut", w) ELSE free

LeaveForLower(s, w) ==
  CASE w \in AutoLower ->
         LET t == [s EXCEPT !.wm.leave_win = w]
         IN  IF s.wm.leave_flag THEN t ELSE AutoLowerWindow(t, w)
    [] w \notin AutoLower /\ s.wm.leave_flag /\ s.wm.lower_win = w ->
         [s EXCEPT !.wm.leave_win = w]
    [] OTHER -> s

HandleLeaveNotify(s, e) ==
  LET w == e.area.win
      led == IF s.wm.RingLeader = w /\ e.detail # "Inferior" /\ e.area.part # "client"
             THEN [s EXCEPT !.wm.RingLeader = None] ELSE s
  IN  IF w \in s.wm.gone THEN s ELSE LeaveForLower(LeaveFrame(led, e, w), w)

HandleFocusIn(s, w) ==
  IF w \in Input THEN [s EXCEPT !.wm.Focus = w] ELSE s

HandleFocusOut(s, w) ==
  IF s.wm.Focus = w /\ ~SloppyFocus THEN [s EXCEPT !.wm.Focus = None] ELSE s

\* Only the last focus event of the window counts (LastFocusEvent).
HandleFocusChange(s, e) ==
  LET w == e.area.win
      mine(f) == f.type \in {"FocusIn", "FocusOut"} /\ f.area = e.area
      at == SelectLastInSeq(s.x.queue, mine)
      last == IF at = 0 THEN e ELSE s.x.queue[at]
      rest == [s EXCEPT !.x.queue = Kept(@, {f \in Range(@) : ~mine(f)})]
  IN  CASE w \in s.wm.gone -> s
        [] w \notin s.wm.gone /\ last.type = "FocusIn" -> HandleFocusIn(rest, w)
        [] OTHER -> HandleFocusOut(rest, w)

\* mutant: only the ring is thought of.
remove_window_from_ringOnly(s, w) == UnlinkWindowFromRing(s, w)

remove_window_from_ring(s, w) ==
  LET not(v) == IF v = w THEN None ELSE v
  IN  UnlinkWindowFromRing(
        [s EXCEPT !.wm.enter_flag = @ /\ s.wm.enter_win # w,
                  !.wm.enter_win = not(@), !.wm.raise_win = not(@),
                  !.wm.leave_flag = @ /\ s.wm.leave_win # w,
                  !.wm.leave_win = not(@), !.wm.lower_win = not(@)], w)

HandleDestroyNotify(s, w) ==
  LET free == IF s.wm.Focus = w
              THEN FocusOnRoot([s EXCEPT !.wm.Focus = None]) ELSE s
      unsaved == IF SaveWorkspaceFocus
                 THEN [free EXCEPT !.wm.save_focus =
                         [ws \in WorkSpace |-> IF @[ws] = w THEN None ELSE @[ws]]]
                 ELSE free
      gone == Remapped(unsaved, [unsaved EXCEPT !.wm.gone = @ \cup {w}])
  IN  set_last_window(remove_window_from_ring(gone, w))

(***************************************************************************)
(* The functions.                                                           *)
(***************************************************************************)

\* f.warpring: the next window of the ring from `head` that can be shown.
NextOnRing(s, head, step) ==
  LET r == s.wm.ring
      n == Len(r)
      at == CHOOSE i \in 1 .. n : r[i] = head
      nth(k) == r[((at - 1 + k * step) % n) + 1]
      fits(w) == w \notin s.wm.isicon
                 /\ (WarpRingAnyWhere \/ s.wm.ws \in Occupation[w])
      good == {k \in 1 .. n - 1 : fits(nth(k))}
  IN  IF good = {} THEN head ELSE nth(CHOOSE k \in good : \A l \in good : k <= l)

WarpAlongRing(s, step) ==
  LET head == IF s.wm.RingLeader # None THEN s.wm.RingLeader
              ELSE IF s.wm.ring = <<>> THEN None ELSE Head(s.wm.ring)
      r == NextOnRing(s, head, step)
  IN  IF head = None THEN s
      ELSE IF r = head /\ s.wm.Focus # None /\ WindowIsOnRing(s, s.wm.Focus) THEN s
      ELSE WarpToWindow([s EXCEPT !.wm.RingLeader = r], r, TRUE)

\* f.ring puts a window on the ring or takes it off.
ring(s, w) ==
  IF WindowIsOnRing(s, w) THEN UnlinkWindowFromRing(s, w) ELSE AddWindowToRing(s, w)

\* f.focus
focus(s, w) ==
  CASE w \in s.wm.isicon -> s
    [] w \notin s.wm.isicon /\ ~s.wm.FocusRoot /\ s.wm.Focus = w -> FocusOnRoot(s)
    [] OTHER -> [SetFocus(s, w) EXCEPT !.wm.FocusRoot = FALSE]

Iconify(s, w) ==
  LET hidden == Remapped(s, [s EXCEPT !.wm.isicon = @ \cup {w}])
  IN  IF s.wm.Focus # w THEN hidden
      ELSE [SetFocus(hidden, None) EXCEPT !.wm.FocusRoot = @ \/ ~ClickToFocus]

iconify(s, w) == IF w \in s.wm.isicon THEN DeIconify(s, w) ELSE Iconify(s, w)

\* A pager's _NET_ACTIVE_WINDOW message.
Activate(s, w) ==
  LET up == IF w \in s.wm.isicon THEN DeIconify(s, w) ELSE s
  IN  SetFocus(IF RaiseOnWarp THEN AutoRaiseWindow(up, w) ELSE up, w)

\* A button pressed in a window.
ButtonPress(s, w) == IF ClickToFocus /\ w \in Input THEN SetFocus(s, w) ELSE s

Function(s, e) ==
  CASE e.type = "warpring" -> {WarpAlongRing(s, 1), WarpAlongRing(s, -1)}
    [] e.type = "unfocus" -> {FocusOnRoot(s)}
    [] e.type = "workspace" -> {GotoWorkSpace(s, ws) : ws \in WorkSpace}
    [] e.win \in s.wm.gone -> {s}
    [] e.win \notin s.wm.gone ->
       CASE e.type = "ring" -> {ring(s, e.win)}
         [] e.type = "focus" -> {focus(s, e.win)}
         [] e.type = "iconify" -> {iconify(s, e.win)}
         [] e.type = "active" -> {Activate(s, e.win)}
         [] e.type = "press" -> {ButtonPress(s, e.win)}
         [] e.type = "destroy" -> {HandleDestroyNotify(s, e.win)}
    [] OTHER -> {s}

(***************************************************************************)
(* The steps.                                                               *)
(***************************************************************************)

Init ==
  /\ x = [stack |-> FirstWindow, point |-> CHOOSE p \in Point : \A w \in Win : PartAt[p][w] = "none",
          focus |-> None, asked |-> None, dead |-> {}, queue |-> <<>>]
  /\ \E ws \in WorkSpace :
       wm = [Focus |-> None, FocusRoot |-> ~ClickToFocus, isicon |-> {}, gone |-> {},
             ws |-> ws, save_focus |-> [v \in WorkSpace |-> None],
             enter_flag |-> FALSE, leave_flag |-> FALSE,
             enter_win |-> None, raise_win |-> None,
             leave_win |-> None, lower_win |-> None,
             ring |-> Kept(FirstWindow, WindowRing),
             RingLeader |-> None]
  /\ \E uses \in Sessions : user = [uses |-> uses, acts |-> 0]

Now == [x |-> x, wm |-> wm]

Becomes(s) == x' = s.x /\ wm' = s.wm

\* DispatchEvent, for the events of the server.
Handle(type, handler(_, _)) ==
  /\ x.queue # <<>> /\ Head(x.queue).type = type
  /\ Becomes(handler([Now EXCEPT !.x.queue = Tail(@)], Head(x.queue)))
  /\ UNCHANGED user

Dispatch ==
  \/ Handle("Enter", HandleEnterNotify)
  \/ Handle("Leave", HandleLeaveNotify)
  \/ Handle("FocusIn", HandleFocusChange)
  \/ Handle("FocusOut", HandleFocusChange)
  \/ /\ x.queue # <<>> /\ Head(x.queue).type \in Use
     /\ \E s \in Function([Now EXCEPT !.x.queue = Tail(@)], Head(x.queue)) : Becomes(s)
     /\ UNCHANGED user

\* The head of the loop of HandleEvents, when no event is waiting: the windows
\* that the pointer has come to, or left, while others were raised or lowered.
Pending ==
  LET raised ==
        IF ~wm.enter_flag THEN Now
        ELSE IF wm.enter_win \notin {None, wm.raise_win}
             THEN AutoRaiseWindow(Now, wm.enter_win)
             ELSE [Now EXCEPT !.wm.enter_flag = FALSE]
  IN  IF ~raised.wm.leave_flag \/ raised.x.queue # <<>> THEN raised
      ELSE IF raised.wm.leave_win \notin {None, raised.wm.lower_win}
           THEN AutoLowerWindow(raised, raised.wm.leave_win)
           ELSE [raised EXCEPT !.wm.leave_flag = FALSE]

HandleEvents ==
  /\ x.queue = <<>>
  /\ wm.enter_flag \/ wm.leave_flag
  /\ Becomes(Pending)
  /\ UNCHANGED user

\* The user, pagers and clients, who wait for ctwm unless they are in a hurry.
\* Bound: they do not go on while many events are waiting.
Ready == IF "hurry" \in user.uses THEN Len(x.queue) <= 1
         ELSE x.queue = <<>> /\ ~wm.enter_flag /\ ~wm.leave_flag

Act(use) ==
  /\ use \in user.uses /\ user.acts < MaxActs /\ Ready
  /\ user' = [user EXCEPT !.acts = @ + 1]

Move ==
  /\ Act("move")
  /\ \E p \in Point \ {x.point} : Becomes(XWarpPointer(Now, p))

Invoke(use, w) ==
  /\ use \notin {"move", "destroy", "answer"}
  /\ Act(use)
  /\ use \in {"press", "focus"} => w = At(Now).win
  /\ use = "iconify" => w \in Iconifiable
  \* pagers send this for windows of the current workspace
  /\ use = "active" => wm.ws \in Occupation[w]
  /\ Becomes(Queue(Now, <<[type |-> use, win |-> w]>>))

ClientDestroy(w) ==
  /\ Act("destroy") /\ w \notin x.dead
  /\ LET dead == Remapped(Now, [Now EXCEPT !.x.dead = @ \cup {w}])
     IN  Becomes(Queue(dead, <<[type |-> "destroy", win |-> w]>>))

\* A client that was sent WM_TAKE_FOCUS sets the focus.
ClientAnswer ==
  /\ "answer" \in user.uses /\ x.asked # None
  /\ Becomes(XSetInputFocus(Now, x.asked))
  /\ UNCHANGED user

User ==
  \/ Move
  \/ \E use \in {"warpring", "unfocus", "workspace"} : Invoke(use, None)
  \/ \E use \in {"ring", "focus", "iconify", "active", "press"}, w \in managed(Now) :
       Invoke(use, w)
  \/ \E w \in Win : ClientDestroy(w)
  \/ ClientAnswer

Next == Dispatch \/ HandleEvents \/ User

Spec == Init /\ [][Next]_vars

\* The event loop goes on: weak fairness of it, with the condition under which
\* it is enabled written out, which TLC would be slow to find.
Busy == x.queue # <<>> \/ wm.enter_flag \/ wm.leave_flag

FairSpec == Spec /\ ([]<>~Busy \/ []<><<Dispatch \/ HandleEvents>>_vars)

(***************************************************************************)
(* Properties.                                                              *)
(***************************************************************************)

\* ctwm waits for the next event.
Settled == x.queue = <<>> /\ ~wm.enter_flag /\ ~wm.leave_flag

\* Whatever ctwm will look at or give the focus, raise, lower or warp to is a
\* window it still manages, although windows are destroyed between any two
\* events (HandleDestroyNotify, remove_window_from_ring), and the window from
\* which the ring is walked is on the ring (WarpAlongRing looks no further).
NothingDangles ==
  /\ TypeOK
  /\ {wm.Focus, wm.RingLeader, wm.enter_win, wm.raise_win, wm.leave_win, wm.lower_win}
       \cup Range(wm.save_focus) \cup Range(wm.ring) \subseteq managed(Now) \cup {None}
  /\ wm.RingLeader # None => WindowIsOnRing(Now, wm.RingLeader)

FocusAgrees ==
  \/ wm.Focus = x.focus
  \/ x.focus = None /\ wm.Focus = At(Now).win
  \/ wm.Focus = None /\ x.focus \notin Input

\* What ctwm believes to be the focus, highlights and stacks as such, is where
\* the keys go: the window that has it or, in PointerRoot mode, the client under
\* the pointer.  Crossing and focus events, those that ctwm makes up and its own
\* requests all tell it.  The exceptions are what takes the focus away from under
\* the pointer (f.focus, f.unfocus, pagers), after which HandleLeaveNotify does not
\* see the pointer leave the client for the root, and a pointer that is gone before
\* ctwm has handled its coming.
FocusIsTrue ==
  Settled /\ user.uses \cap {"hurry", "focus", "unfocus", "active"} = {} => FocusAgrees

\* If nobody fixes the focus, it is in the end the window under the pointer if
\* that takes input, and none if there is no window, however windows are moved
\* under the pointer, or the pointer to windows.
FocusFollowsPointer ==
  Settled /\ user.uses \cap {"hurry", "focus", "unfocus", "active"} = {} =>
    /\ At(Now).win \in Input => wm.Focus = At(Now).win
    /\ At(Now) = Root => wm.Focus = None

\* Raising and lowering windows under the pointer comes to an end.
AttentionSettles == []<>Settled

=============================================================================
