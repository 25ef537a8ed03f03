------------------------------ MODULE Windows ------------------------------
(***************************************************************************)
(* What ctwm keeps of each client window (TwmWindow), what the X server     *)
(* shows of it, and the operations that change both: occupation             *)
(* (occupation.c), virtual screens (vscreen.c), workspace changes           *)
(* (workspace_utils.c), iconification (win_iconify.c), squeezing            *)
(* (win_utils.c, win_ops.c) and taking a window over (add_window.c).        *)
(*                                                                          *)
(* The module has no variables.  Its operators take and return the record   *)
(* that LifeCycle keeps in its variable `wm`; those about one window take   *)
(* and return the record of that window.  Nothing is recursive.             *)
(***************************************************************************)
EXTENDS Integers, SequencesExt

CONSTANTS
  Client,                \* the windows of clients
  None,                  \* NULL, or a property that is not there
  NumVScreens,           \* virtual screens, in the order of Scr->vScreenList
  NumWorkspaces,
  TransientFor,          \* WM_TRANSIENT_FOR of a window, None if not transient
  Group,                 \* its window group, None if it names none
  InitialState,          \* the StateHint of its WM_HINTS, None if not given
  Configured,            \* the workspaces Occupy { } puts it in, if any
  Desktop,               \* those its client asks for by _NET_WM_DESKTOP, if any
  TransientHasOccupation,
  RestartPreviousState,  \* during startup; ctwm_main.c sets it afterwards
  NoIcon,                \* iconify_by_unmapping
  StartSqueezed,
  WarpCursor,
  WarpOnDeIconify,
  DontSetInactive,
  UnmapByMovingFarAway

VScreen == 1 .. NumVScreens
WorkSpace == 0 .. NumWorkspaces - 1     \* fullOccupation, as a set

ASSUME ScreenAssumption ==
  /\ NumVScreens \in Nat \ {0}
  /\ NumWorkspaces \in Nat
  /\ NumVScreens <= NumWorkspaces
  /\ None \notin Client \cup VScreen

ASSUME ClientAssumption ==
  /\ IsFiniteSet(Client)
  /\ TransientFor \in [Client -> Client \cup {None}]
  /\ Group \in [Client -> Client \cup {None}]
  /\ InitialState \in [Client -> {"Normal", "Iconic", None}]
  /\ Configured \in [Client -> SUBSET WorkSpace]
  /\ Desktop \in [Client -> SUBSET WorkSpace]
  /\ TransientHasOccupation \in BOOLEAN
  /\ RestartPreviousState \in BOOLEAN

WmState == {"Normal", "Iconic", "Inactive", "Withdrawn", None}

EventType ==
  {"MapRequest", "MapNotify", "Unmap", "Withdraw", "Reparent", "Destroy"}

Event(type, w) == [type |-> type, win |-> w]

WindowType ==
  [ managed    : BOOLEAN,          \* there is a TwmWindow for it
    mapped     : BOOLEAN,
    isicon     : BOOLEAN,
    icon_on    : BOOLEAN,
    icon       : BOOLEAN,          \* it has an icon window
    squeezed   : BOOLEAN,
    occupation : SUBSET WorkSpace,
    vs         : VScreen \cup {None},
    parent_vs  : VScreen \cup {None},
    savevs     : VScreen \cup {None},
    \* What the server knows, and the client.
    exists     : BOOLEAN,
    up         : BOOLEAN,          \* the client's window is mapped
    inFrame    : BOOLEAN,          \* its parent is the frame
    frame      : BOOLEAN,          \* the frame is mapped
    away       : BOOLEAN,          \* ... and has been moved far away
    root       : VScreen \cup {None},  \* the screen that holds the frame
    iconUp     : BOOLEAN,          \* the icon window is mapped
    state      : WmState,          \* the property WM_STATE
    prop       : SUBSET WorkSpace, \* the property WM_OCCUPATION
    asks       : BOOLEAN ]         \* the client has asked for it to be mapped

\* A window that ctwm knows nothing of.
Unmanaged ==
  [ managed |-> FALSE, mapped |-> FALSE, isicon |-> FALSE, icon_on |-> FALSE,
    icon |-> FALSE, squeezed |-> FALSE, occupation |-> {},
    vs |-> None, parent_vs |-> None, savevs |-> None,
    exists |-> TRUE, up |-> FALSE, inFrame |-> FALSE, frame |-> FALSE,
    away |-> FALSE, root |-> None, iconUp |-> FALSE,
    state |-> None, prop |-> {}, asks |-> FALSE ]

WmType ==
  [ win       : [Client -> WindowType],
    queue     : Seq([type : EventType, win : Client]),
    current   : [VScreen -> WorkSpace],     \* wsw->currentwspc
    currentvs : VScreen,
    occupyWin : Client \cup {None},         \* what f.occupy is asked about
    occupyUp  : BOOLEAN ]                   \* its window is mapped

managed(s) == {w \in Client : s.win[w].managed}

OCCUPY(r, ws) == ws \in r.occupation

(***************************************************************************)
(* Map requests of ctwm that it hears of again: the client's windows of W   *)
(* that are not mapped become so, and a MapNotify comes for each.           *)
(***************************************************************************)
MapNotifies(W) ==
  LET q == SetToSeq(W)
  IN  [i \in DOMAIN q |-> Event("MapNotify", q[i])]

XMapWindow(s, W) ==
  LET new == {w \in W : s.win[w].exists /\ ~s.win[w].up}
  IN  [s EXCEPT !.win = [w \in Client |->
                          IF w \in new THEN [s.win[w] EXCEPT !.up = TRUE]
                          ELSE s.win[w]],
                !.queue = @ \o MapNotifies(new)]

(***************************************************************************)
(* A reparenting of the client's window that ctwm hears of: a mapped window *)
(* is unmapped and mapped again by the server.                              *)
(***************************************************************************)
Reparentings(r, w) ==
  IF r.up THEN <<Event("Unmap", w), Event("Reparent", w), Event("MapNotify", w)>>
  ELSE <<Event("Reparent", w)>>

(***************************************************************************)
(* DisplayWin and Vanish: the record of window w, put on virtual screen v   *)
(* or taken off its screen.  Structure events are masked.                   *)
(***************************************************************************)
ReparentFrameAndIcon(r) ==
  IF r.vs = r.parent_vs THEN r
  ELSE [r EXCEPT !.parent_vs = r.vs, !.root = r.vs]

DisplayWin(v, w, r) ==
  LET here == [r EXCEPT !.vs = v]
      home == ReparentFrameAndIcon(here)
  IN  CASE r.vs # None -> r
        [] r.vs = None /\ ~r.mapped ->
             [home EXCEPT !.iconUp = @ \/ (r.isicon /\ r.icon_on /\ r.icon)]
        [] r.vs = None /\ r.mapped /\ w \in UnmapByMovingFarAway ->
             [here EXCEPT !.root = v, !.away = FALSE]
        [] OTHER ->
             [home EXCEPT !.up = r.exists /\ (@ \/ ~r.squeezed),
                          !.frame = TRUE, !.state = "Normal"]

\* mutant: the icon stays
VanishLeavesIcon(w, r) ==
  [r EXCEPT !.vs = None, !.up = @ /\ ~r.mapped, !.frame = @ /\ ~r.mapped,
            !.state = IF r.mapped THEN "Inactive" ELSE @]

\* mutant: WM_STATE is not updated
VanishSilently(w, r) ==
  [r EXCEPT !.vs = None, !.up = @ /\ ~r.mapped, !.frame = @ /\ ~r.mapped,
            !.iconUp = @ /\ ~(r.icon_on /\ r.icon)]

Vanish(w, r) ==
  LET gone == [r EXCEPT !.vs = None]
  IN  CASE w \in UnmapByMovingFarAway -> [gone EXCEPT !.away = TRUE]
        [] w \notin UnmapByMovingFarAway /\ r.mapped ->
             [gone EXCEPT !.up = FALSE, !.frame = FALSE,
                          !.state = IF w \in DontSetInactive THEN @ ELSE "Inactive"]
        [] OTHER -> [gone EXCEPT !.iconUp = @ /\ ~(r.icon_on /\ r.icon)]

\* The first virtual screen among V that shows a workspace of occ.
FirstShowing(s, V, occ) ==
  LET here == {v \in V : s.current[v] \in occ}
  IN  IF here = {} THEN None
      ELSE CHOOSE v \in here : \A u \in here : v <= u

DisplaySomewhere(s, V, w, r) ==
  LET v == FirstShowing(s, V, r.occupation)
  IN  IF r.vs # None \/ v = None THEN r ELSE DisplayWin(v, w, r)

(***************************************************************************)
(* GotoWorkSpace.  A workspace that some virtual screen shows is refused.   *)
(***************************************************************************)
\* mutant: a window that leaves a screen is not looked for on the others
SwitchedAway(s, v, ws, w) ==
  LET r == s.win[w]
      shown == IF OCCUPY(r, ws) THEN DisplayWin(v, w, r) ELSE r
  IN  IF shown.vs = v /\ ~OCCUPY(r, ws) THEN Vanish(w, shown) ELSE shown

Switched(s, v, ws, w) ==
  LET r == s.win[w]
      shown == IF OCCUPY(r, ws) THEN DisplayWin(v, w, r) ELSE r
  IN  IF shown.vs = v /\ ~OCCUPY(r, ws)
      THEN DisplaySomewhere(s, VScreen \ {v}, w, Vanish(w, shown))
      ELSE shown

GotoWorkSpace(s, v, ws) ==
  IF \E u \in VScreen : s.current[u] = ws THEN s
  ELSE [s EXCEPT !.win = [w \in Client |-> IF s.win[w].managed
                                           THEN Switched(s, v, ws, w)
                                           ELSE s.win[w]],
                 !.current[v] = ws]

\* WarpToWindow: the screen the pointer is on goes to a workspace of w.
WarpToWindow(s, w) ==
  LET occ == s.win[w].occupation
  IN  IF s.win[w].vs # None \/ occ = {} THEN s
      ELSE GotoWorkSpace(s, s.currentvs, CHOOSE ws \in occ : \A x \in occ : ws <= x)

(***************************************************************************)
(* Occupation.  Dialogs are the transients and group members of a window.   *)
(* ChangeOccupation calls itself for them, down to those that are where     *)
(* they should be already: Movers is the least set closed under that.       *)
(***************************************************************************)
Dialogs(s, w) ==
  {t \in managed(s) \ {w} : TransientFor[t] = w \/ Group[t] = w}

\* mutant: ChangeOccupation does not call itself for the dialogs of dialogs
MoversOnce(s, w, occ) ==
  {w} \cup IF TransientHasOccupation THEN {} ELSE Dialogs(s, w)

Movers(s, w, occ) ==
  LET astray == {t \in managed(s) : s.win[t].occupation # occ}
      closed(S) == \A u \in S : Dialogs(s, u) \cap astray \subseteq S
  IN  IF TransientHasOccupation THEN {w}
      ELSE {t \in astray : \A S \in SUBSET astray : w \in S /\ closed(S) => t \in S}

Moved(s, w, occ) ==
  LET r == [s.win[w] EXCEPT !.occupation = occ, !.prop = occ]
      off == r.vs # None /\ s.current[r.vs] \notin occ
  IN  DisplaySomewhere(s, VScreen, w, IF off THEN Vanish(w, r) ELSE r)

ChangeOccupation(s, w, occ) ==
  IF occ = {} \/ occ = s.win[w].occupation
  THEN [s EXCEPT !.win[w].prop = s.win[w].occupation]
  ELSE LET movers == Movers(s, w, occ)
       IN  [s EXCEPT !.win = [t \in Client |-> IF t \in movers
                                               THEN Moved(s, t, occ)
                                               ELSE s.win[t]]]

\* Whose occupation changes if the user asks for that of w: None if nobody's.
CanChangeOccupation(s, w) ==
  IF s.occupyUp /\ s.occupyWin # None THEN None
  ELSE IF TransientHasOccupation THEN w
  ELSE IF TransientFor[w] # None THEN None
  ELSE IF Group[w] \in managed(s) THEN Group[w] ELSE w

\* Also part of mapping a window listed in WarpOnDeIconify.
AddToWorkSpace(s, w, ws) ==
  LET l == CanChangeOccupation(s, w)
  IN  IF l = None THEN s
      ELSE IF OCCUPY(s.win[l], ws) THEN s
      ELSE ChangeOccupation(s, l, s.win[l].occupation \cup {ws})

(***************************************************************************)
(* Iconification.                                                           *)
(***************************************************************************)
Leader(s, w) ==
  LET l == IF TransientFor[w] # None THEN TransientFor[w] ELSE Group[w]
  IN  IF l \in managed(s) \ {w} THEN l ELSE None

UnmapTransients(s, w) ==
  [s EXCEPT !.win = [t \in Client |->
     IF t \in Dialogs(s, w)
     THEN [s.win[t] EXCEPT !.mapped = FALSE, !.up = FALSE, !.frame = FALSE,
                           !.iconUp = FALSE, !.state = "Iconic",
                           !.isicon = TRUE, !.icon_on = FALSE]
     ELSE s.win[t]]]

Iconify(s, w) ==
  LET l == Leader(s, w)
      iconify == w \notin NoIcon /\ ~(l # None /\ s.win[l].icon_on)
      u == UnmapTransients(s, w)
      r == s.win[w]
  IN  [u EXCEPT !.win[w] =
        [r EXCEPT !.icon = @ \/ iconify, !.iconUp = @ \/ (iconify /\ r.vs # None),
                  !.mapped = FALSE, !.up = FALSE, !.frame = FALSE,
                  !.state = "Iconic", !.isicon = TRUE, !.icon_on = iconify]]

\* ReMapOne of each of W.
\* mutant: squeezed windows are mapped too
ReMapSqueezed(s, W) ==
  LET m == XMapWindow(s, W)
  IN  [m EXCEPT !.win = [w \in Client |->
         IF w \in W
         THEN [m.win[w] EXCEPT !.mapped = TRUE, !.frame = TRUE,
                               !.state = "Normal", !.iconUp = FALSE,
                               !.isicon = FALSE, !.icon_on = FALSE]
         ELSE m.win[w]]]

\* mutant: WM_STATE is not updated
ReMapSilently(s, W) ==
  LET m == XMapWindow(s, {w \in W : ~s.win[w].squeezed})
  IN  [m EXCEPT !.win = [w \in Client |->
         IF w \in W
         THEN [m.win[w] EXCEPT !.mapped = TRUE, !.frame = TRUE, !.iconUp = FALSE,
                               !.isicon = FALSE, !.icon_on = FALSE]
         ELSE m.win[w]]]

ReMap(s, W) ==
  LET m == XMapWindow(s, {w \in W : ~s.win[w].squeezed})
  IN  [m EXCEPT !.win = [w \in Client |->
         IF w \in W
         THEN [m.win[w] EXCEPT !.mapped = TRUE, !.frame = TRUE,
                               !.state = "Normal", !.iconUp = FALSE,
                               !.isicon = FALSE, !.icon_on = FALSE]
         ELSE m.win[w]]]

ReMapTransients(s, w) ==
  ReMap(s, {t \in Dialogs(s, w) : TransientFor[t] = w \/ s.win[t].isicon})

DeIconify(s, w) ==
  LET m == ReMap(s, {w})
  IN  ReMapTransients(IF s.win[w].isicon /\ w \in WarpCursor
                      THEN WarpToWindow(m, w) ELSE m, w)

\* A toggle.  Squeezing masks the structure events, unsqueezing does not.
Squeeze(s, w) ==
  IF s.win[w].squeezed
  THEN LET u == [s EXCEPT !.win[w].squeezed = FALSE]
       IN  ReMapTransients(XMapWindow(u, IF u.win[w].isicon THEN {} ELSE {w}), w)
  ELSE UnmapTransients([s EXCEPT !.win[w].squeezed = TRUE, !.win[w].up = FALSE], w)

(***************************************************************************)
(* Taking a window over.  `starting` says that ctwm is not handling events  *)
(* yet.  The state a window should be in is what WM_STATE says if that is   *)
(* to be used, or its hint.  What GetWMState found stays in the variable    *)
(* where the hint does not replace it, the 0 of Withdrawn too.              *)
(***************************************************************************)
\* mutant: the state of icons is not used
StartStateNoIcons(r, w, starting) ==
  IF r.state \in {"Normal", "Inactive"} THEN r.state ELSE "Normal"

StartState(r, w, starting) ==
  LET previous == starting => RestartPreviousState
  IN  IF previous /\ r.state \in {"Normal", "Iconic", "Inactive"} THEN r.state
      ELSE IF InitialState[w] # None THEN InitialState[w]
      ELSE IF previous /\ r.state = "Withdrawn" THEN "Withdrawn"
      ELSE "Normal"

\* _NET_WM_DESKTOP is the client's until ctwm writes it, with WM_OCCUPATION.
EwmhGetOccupation(r, w) == IF r.prop # {} THEN r.prop ELSE Desktop[w]

\* mutant: the property is not used
StartOccupationAnew(s, w, starting) ==
  IF Configured[w] = {} THEN {s.current[s.currentvs]} ELSE Configured[w]

\* Where SetupOccupation finds that w should be.
StartOccupation(s, w, starting) ==
  LET l == IF TransientFor[w] # None THEN TransientFor[w] ELSE Group[w]
      previous == starting => RestartPreviousState
      told == IF previous /\ s.win[w].prop # {} THEN s.win[w].prop ELSE Configured[w]
      own == IF told # {} THEN told ELSE EwmhGetOccupation(s.win[w], w)
      occ == IF ~TransientHasOccupation /\ l \in managed(s)
             THEN s.win[l].occupation ELSE own
  IN  IF occ = {} THEN {s.current[s.currentvs]} ELSE occ

SetupOccupation(s, w, starting) ==
  LET r == s.win[w]
      occ == StartOccupation(s, w, starting)
      vs == IF s.current[s.currentvs] \in occ THEN s.currentvs
            ELSE FirstShowing(s, VScreen, occ)
      parent == IF vs = None THEN s.currentvs ELSE vs
      state == StartState(r, w, starting)
  IN  [r EXCEPT !.occupation = occ, !.prop = occ,
                !.vs = vs, !.parent_vs = parent, !.root = parent,
                !.state = CASE vs # None /\ state = "Inactive" -> "Normal"
                            [] vs = None /\ state = "Normal" -> "Inactive"
                            [] OTHER -> @]

\* mutant: it is not asked whether the window is still there
AddWindowBlindly(s, w, starting) ==
  [s EXCEPT !.win[w] = [SetupOccupation(s, w, starting) EXCEPT
                          !.managed = TRUE, !.inFrame = TRUE],
            !.queue = @ \o Reparentings(s.win[w], w)]

\* A window that went away in the meantime is not taken over.
AddWindow(s, w, starting) ==
  IF ~s.win[w].exists THEN s
  ELSE [s EXCEPT !.win[w] = [SetupOccupation(s, w, starting) EXCEPT
                               !.managed = TRUE, !.inFrame = TRUE],
                 !.queue = @ \o Reparentings(s.win[w], w)]

(***************************************************************************)
(* What is left of a window that ctwm forgets (HandleDestroyNotify): the    *)
(* frame is destroyed, and with it the client's window if that is in it.    *)
(***************************************************************************)
Forgotten(r) ==
  LET lives == r.exists /\ ~r.inFrame
  IN  [Unmanaged EXCEPT !.exists = lives, !.up = r.up /\ lives,
                        !.state = IF lives THEN r.state ELSE None,
                        !.prop = IF lives THEN r.prop ELSE {},
                        !.asks = r.asks /\ lives]

Forget(s, w) ==
  [s EXCEPT !.win[w] = Forgotten(@),
            !.occupyUp = @ /\ s.occupyWin # w,
            !.occupyWin = IF @ = w THEN None ELSE @]

(***************************************************************************)
(* RestoreWinConfig: the client's window goes back to the root.             *)
(***************************************************************************)
\* mutant: a window that is not mapped stays in its frame
ReparentToRootIfUp(s, w) ==
  IF ~s.win[w].up THEN s
  ELSE [s EXCEPT !.win[w].inFrame = FALSE,
                 !.queue = @ \o Reparentings(s.win[w], w)]

ReparentToRoot(s, w) ==
  IF ~s.win[w].exists THEN s
  ELSE [s EXCEPT !.win[w].inFrame = FALSE,
                 !.queue = @ \o Reparentings(s.win[w], w)]

RestoreWinConfig(s, w) ==
  ReparentToRoot(IF s.win[w].squeezed THEN Squeeze(s, w) ELSE s, w)

=============================================================================
