----------------------------- MODULE LifeCycle -----------------------------
(***************************************************************************)
(* The life of client windows under ctwm: clients map, withdraw and destroy *)
(* their windows, the X server queues events for ctwm, ctwm handles them in *)
(* order (event_handlers.c), users invoke functions, ctwm restarts.  What a *)
(* handler does to a window is in the module Windows.                       *)
(*                                                                          *)
(* ctwm is one thread: an action is one handler run to its end.  What makes *)
(* it hard is that an event tells of the past: when it is handled, other    *)
(* handlers have changed the window since, ctwm's own requests included.    *)
(***************************************************************************)
EXTENDS Windows

CONSTANTS
  VScreenMaps,  \* what _WM_CTWM_VSCREENMAP may say as ctwm starts
  WarpUnmapped,
  AutoPopup,    \* the windows AutoPopup { } lists
  Sessions      \* bound: what users and clients may do, one set for each session

Use == { "iconify", "popup", "warp", "occupation", "occupy", "dialogs", "names",
         "workspaces", "background", "squeeze", "withdraw", "remap", "destroy",
         "restart", "hurry" }

ASSUME LifeCycleAssumption ==
  /\ \A map \in VScreenMaps :
       /\ map \in Seq(WorkSpace)
       /\ Len(map) <= NumVScreens
  /\ WarpUnmapped \in BOOLEAN
  /\ AutoPopup \subseteq Client
  /\ Sessions \subseteq SUBSET Use

VARIABLES
  wm,          \* windows, events and screens, see WmType
  background,  \* the static variable of ShowBackground
  starting,    \* the mapped windows ctwm has still to take over as it starts
  kept,        \* a record of what the windows were before the restart
  uses         \* a record of the session, which does not change

vars == <<wm, background, starting, kept, uses>>

TypeOK ==
  /\ wm \in WmType
  /\ background \in BOOLEAN
  /\ starting \in SUBSET Client
  /\ kept \in [Client -> [isicon : BOOLEAN, occupation : SUBSET WorkSpace]]
  /\ uses \in Sessions

NothingKept == [w \in Client |-> [isicon |-> FALSE, occupation |-> {}]]

\* ConfigureWorkSpaceManager: the workspaces of the property, then the first ones.
StartWorkSpaces(map) ==
  [v \in VScreen |-> IF v <= Len(map) THEN map[v] ELSE v - Len(map) - 1]

Init ==
  /\ \E map \in VScreenMaps :
       wm = [ win       |-> [w \in Client |-> Unmanaged],
              queue     |-> <<>>,
              current   |-> StartWorkSpaces(map),
              currentvs |-> 1,
              occupyWin |-> None,
              occupyUp  |-> FALSE ]
  /\ background = FALSE
  /\ starting = {}
  /\ kept = NothingKept
  /\ uses \in Sessions

(***************************************************************************)
(* Clients.  A withdrawal is an unmapping that ctwm may hear of, and a      *)
(* synthetic UnmapNotify (ICCCM).  ctwm hears of the windows it manages.    *)
(***************************************************************************)
\* Bound: in a hurry they act while one event is still waiting.
Hurry == IF "hurry" \in uses THEN 1 ELSE 0

Free == starting = {} /\ Len(wm.queue) <= Hurry

Told(w, type) == IF wm.win[w].managed THEN <<Event(type, w)>> ELSE <<>>

ClientMap(w) ==
  LET r == wm.win[w]
  IN  /\ Free
      /\ r.exists /\ ~r.up
      /\ ~r.asks \/ "remap" \in uses
      /\ wm' = [wm EXCEPT !.win[w].asks = TRUE,
                          !.queue = Append(@, Event("MapRequest", w))]
      /\ UNCHANGED <<background, starting, kept, uses>>

ClientWithdraw(w) ==
  LET r == wm.win[w]
  IN  /\ Free /\ "withdraw" \in uses
      /\ r.exists /\ r.asks
      /\ wm' = [wm EXCEPT !.win[w].asks = FALSE,
                          !.win[w].up = FALSE,
                          !.queue = @ \o (IF r.up THEN Told(w, "Unmap") ELSE <<>>)
                                      \o <<Event("Withdraw", w)>>]
      /\ UNCHANGED <<background, starting, kept, uses>>

ClientDestroy(w) ==
  LET r == wm.win[w]
  IN  /\ Free /\ "destroy" \in uses
      /\ r.exists
      /\ wm' = [wm EXCEPT !.win[w].exists = FALSE, !.win[w].asks = FALSE,
                          !.win[w].up = FALSE, !.win[w].inFrame = FALSE,
                          !.win[w].state = None, !.win[w].prop = {},
                          !.queue = @ \o (IF r.up THEN Told(w, "Unmap") ELSE <<>>)
                                      \o Told(w, "Destroy")]
      /\ UNCHANGED <<background, starting, kept, uses>>

(***************************************************************************)
(* Events.                                                                  *)
(***************************************************************************)
Handling(type, w) ==
  /\ starting = {}
  /\ wm.queue # <<>>
  /\ Head(wm.queue) = Event(type, w)

Handled == [wm EXCEPT !.queue = Tail(@)]

\* What HandleMapRequest does to a window in the state it should start in.
MapInState(s, w, state, begin) ==
  LET r == s.win[w]
      here == s.current[s.currentvs]
      down == IF w \in StartSqueezed THEN Squeeze(s, w) ELSE XMapWindow(s, {w})
      warp == IF ~OCCUPY(r, here) /\ ~begin /\ w \in WarpOnDeIconify
              THEN AddToWorkSpace(s, w, here) ELSE s
      far == [warp EXCEPT !.win[w].mapped = TRUE]
      off == IF w \notin UnmapByMovingFarAway THEN far
             ELSE [XMapWindow(far, {w}) EXCEPT !.win[w].away = TRUE,
                                               !.win[w].frame = TRUE]
  IN  CASE state \in {"Normal", "Withdrawn"} ->
             [down EXCEPT !.win[w].frame = TRUE, !.win[w].state = "Normal",
                          !.win[w].mapped = TRUE]
        [] state = "Inactive" -> IF w \in StartSqueezed THEN Squeeze(off, w) ELSE off
        [] state = "Iconic" -> Iconify(s, w)

MapRequest(s, w, begin) ==
  LET a == IF s.win[w].managed THEN s ELSE AddWindow(s, w, begin)
      r == a.win[w]
      here == a.current[a.currentvs]
      warp == IF ~OCCUPY(r, here) /\ w \in WarpOnDeIconify
              THEN AddToWorkSpace(a, w, here) ELSE a
  IN  IF ~r.managed \/ r.squeezed THEN a
      ELSE IF ~r.isicon THEN MapInState(a, w, StartState(r, w, begin), begin)
      ELSE DeIconify(IF w \in StartSqueezed THEN Squeeze(warp, w) ELSE warp, w)

HandleMapRequest(w) ==
  /\ Handling("MapRequest", w)
  /\ wm' = MapRequest(Handled, w, FALSE)
  /\ UNCHANGED <<background, starting, kept, uses>>

\* XMapSubwindows maps the client's window too.
HandleMapNotify(w) ==
  LET s == Handled
      m == XMapWindow(s, IF s.win[w].inFrame THEN {w} ELSE {})
  IN  /\ Handling("MapNotify", w)
      /\ wm' = IF ~s.win[w].managed THEN s
               ELSE [m EXCEPT !.win[w].iconUp = FALSE, !.win[w].frame = TRUE,
                              !.win[w].mapped = TRUE, !.win[w].isicon = FALSE,
                              !.win[w].icon_on = FALSE]
      /\ UNCHANGED <<background, starting, kept, uses>>

(***************************************************************************)
(* A window that was unmapped is forgotten.  If a ReparentNotify for it is  *)
(* waiting, it is taken to have left the frame; ctwm's own tell the same.   *)
(***************************************************************************)
Withdraw(s, w) ==
  LET reparented == Contains(s.queue, Event("Reparent", w))
      out == [s EXCEPT !.win[w].state = "Withdrawn"]
  IN  Forget(IF reparented
             THEN [out EXCEPT !.queue = RemoveFirst(@, Event("Reparent", w))]
             ELSE RestoreWinConfig(ReparentToRoot(out, w), w), w)

\* mutant: an icon cannot be withdrawn
HandleUnmapNotifyMapped(type, w) ==
  /\ Handling(type, w)
  /\ wm' = IF wm.win[w].managed /\ wm.win[w].exists /\ wm.win[w].mapped
           THEN Withdraw(Handled, w) ELSE Handled
  /\ UNCHANGED <<background, starting, kept, uses>>

HandleUnmapNotify(type, w) ==
  LET r == wm.win[w]
  IN  /\ Handling(type, w)
      /\ wm' = IF /\ r.managed /\ r.exists
                  /\ r.mapped \/ r.isicon
               THEN Withdraw(Handled, w) ELSE Handled
      /\ UNCHANGED <<background, starting, kept, uses>>

HandleDestroyNotify(w) ==
  /\ Handling("Destroy", w)
  /\ wm' = IF wm.win[w].managed THEN Forget(Handled, w) ELSE Handled
  /\ UNCHANGED <<background, starting, kept, uses>>

\* Nobody handles these.
HandleReparentNotify(w) ==
  /\ Handling("Reparent", w)
  /\ wm' = Handled
  /\ UNCHANGED <<background, starting, kept, uses>>

(***************************************************************************)
(* Functions of the user, and messages of clients that ask for the same.    *)
(* They name a window ctwm manages.                                         *)
(***************************************************************************)
Invoked(use, w) == Free /\ use \in uses /\ w \in managed(wm)

Becomes(s) == wm' = s /\ UNCHANGED <<background, starting, kept, uses>>

\* f.iconify, on a window or an icon that is there to be clicked on.
IconifyFunction(w) ==
  /\ Invoked("iconify", w) /\ wm.win[w].vs # None
  /\ Becomes(IF wm.win[w].isicon THEN DeIconify(wm, w) ELSE Iconify(wm, w))

\* A client asks to be iconified (WM_CHANGE_STATE), wherever it is.
ChangeState(w) ==
  /\ Invoked("iconify", w) /\ ~wm.win[w].isicon
  /\ Becomes(Iconify(wm, w))

\* f.popup of the TwmWindows menu, _NET_ACTIVE_WINDOW, _NET_WM_MOVERESIZE.
Popup(w) ==
  /\ Invoked("popup", w)
  /\ Becomes(DeIconify(wm, w))

\* f.winwarp of the menu, f.warpto.
WarpTo(w) ==
  /\ Invoked("warp", w)
  /\ WarpUnmapped \/ wm.win[w].mapped
  /\ Becomes(WarpToWindow(IF wm.win[w].mapped THEN wm ELSE DeIconify(wm, w), w))

AutoPopupMaybe(s, w) ==
  IF w \notin AutoPopup THEN s
  ELSE IF ~OCCUPY(s.win[w], s.current[s.currentvs])
       THEN [s EXCEPT !.win[w].mapped = TRUE]
  ELSE IF s.win[w].mapped THEN s
  ELSE DeIconify(s, w)

\* A client changes the name of its window; if AutoOccupy is set and Occupy { }
\* knows the new name, to one of the workspaces occ.
NameChange(w, occ) ==
  /\ Invoked("names", w)
  /\ Becomes(AutoPopupMaybe(IF occ = {} THEN wm ELSE ChangeOccupation(wm, w, occ), w))

SqueezeFunction(w) ==
  /\ Invoked("squeeze", w) /\ wm.win[w].vs # None
  /\ Becomes(Squeeze(wm, w))

(***************************************************************************)
(* Functions on the occupation.  Those that ask CanChangeOccupation change  *)
(* that of the leader of a group in place of a member's.                    *)
(***************************************************************************)
Occupied(w) ==
  LET l == CanChangeOccupation(wm, w)
  IN  IF l = None THEN {} ELSE wm.win[l].occupation

ChangesTo(w, occ) ==
  LET l == CanChangeOccupation(wm, w)
  IN  /\ Invoked("occupation", w)
      /\ l # None
      /\ Becomes(ChangeOccupation(wm, l, occ))

AddTo(w, ws) ==
  /\ Invoked("occupation", w)
  /\ Becomes(AddToWorkSpace(wm, w, ws))

RemoveFromWorkSpace(w, ws) == ChangesTo(w, Occupied(w) \ {ws})

ToggleOccupation(w, ws) == ChangesTo(w, SymDiff(Occupied(w), {ws}))

\* Out of here (or into here, if it is not here) and into a neighbour.
MoveToNextWorkSpace(w) ==
  LET here == wm.current[wm.currentvs]
      next == IF here + 1 \in WorkSpace THEN here + 1 ELSE 0
  IN  ChangesTo(w, SymDiff(Occupied(w), {here}) \cup {next})

MoveToPrevWorkSpace(w) ==
  LET here == wm.current[wm.currentvs]
      prev == IF here = 0 THEN NumWorkspaces - 1 ELSE here - 1
  IN  ChangesTo(w, SymDiff(Occupied(w), {here}) \cup {prev})

OccupyAll(w) == ChangesTo(w, WorkSpace)

\* f.vanish, f.warphere, the property WM_OCCUPATION and _NET_WM_DESKTOP do not
\* ask, so that a dialog can be sent where its leader is not.
WMgrRemoveFromCurrentWorkSpace(w) ==
  LET here == wm.current[wm.currentvs]
  IN  /\ Invoked("dialogs", w)
      /\ OCCUPY(wm.win[w], here)
      /\ Becomes(ChangeOccupation(wm, w, wm.win[w].occupation \ {here}))

WMgrAddToCurrentWorkSpaceAndWarp(w) ==
  LET here == wm.current[wm.currentvs]
      added == IF OCCUPY(wm.win[w], here) THEN wm
               ELSE ChangeOccupation(wm, w, wm.win[w].occupation \cup {here})
  IN  /\ Invoked("dialogs", w)
      /\ WarpUnmapped \/ wm.win[w].mapped
      /\ Becomes(WarpToWindow(IF wm.win[w].mapped THEN added
                              ELSE DeIconify(added, w), w))

OccupationProperty(w, occ) ==
  /\ Invoked("dialogs", w)
  /\ Becomes(ChangeOccupation([wm EXCEPT !.win[w].prop = occ], w, occ))

NetWmDesktop(w, to) ==
  LET r == wm.win[w]
      left == IF r.vs = None THEN r.occupation
              ELSE r.occupation \ {wm.current[r.vs]}
  IN  /\ Invoked("dialogs", w)
      /\ Becomes(ChangeOccupation(wm, w, left \cup to))

(***************************************************************************)
(* The window of f.occupy: it is about one window, and stays up while other *)
(* events are handled.  It can be iconified like any other.                 *)
(***************************************************************************)
Occupy(w) ==
  LET l == CanChangeOccupation(wm, w)
  IN  /\ Invoked("occupy", w)
      /\ l # None
      /\ Becomes([wm EXCEPT !.occupyWin = l, !.occupyUp = TRUE])

OccupyHandleButtonEvent(ok, occ) ==
  /\ Free /\ wm.occupyWin # None /\ wm.occupyUp
  /\ LET s == IF ok THEN ChangeOccupation(wm, wm.occupyWin, occ) ELSE wm
     IN  Becomes([s EXCEPT !.occupyWin = None, !.occupyUp = FALSE])

OccupyWindowIconify ==
  /\ Free /\ wm.occupyWin # None
  /\ Becomes([wm EXCEPT !.occupyUp = ~@])

(***************************************************************************)
(* Workspaces and virtual screens.                                          *)
(***************************************************************************)
SwitchWorkSpace(v, ws) ==
  /\ Free /\ "workspaces" \in uses
  /\ \A u \in VScreen : wm.current[u] # ws   \* otherwise the bell rings
  /\ Becomes(GotoWorkSpace(wm, v, ws))

\* The pointer enters the root of another virtual screen.
EnterVScreen(v) ==
  /\ Free /\ "workspaces" \in uses
  /\ v # wm.currentvs
  /\ Becomes([wm EXCEPT !.currentvs = v])

\* mutant: it does not remember where windows were
ShowBackgroundForgets ==
  /\ Free /\ "background" \in uses /\ ~background
  /\ Becomes([wm EXCEPT !.win = [w \in Client |->
       IF wm.win[w].managed /\ wm.win[w].vs = wm.currentvs
       THEN Vanish(w, wm.win[w]) ELSE wm.win[w]]])

\* mutant: icons do not come back
ShowBackgroundOfIcons ==
  LET v == wm.currentvs
      hides(r) == ~background /\ r.managed /\ r.vs = v
      shows(r) == background /\ r.managed /\ r.savevs = v /\ r.mapped
  IN  /\ Free /\ "background" \in uses
      /\ wm' = [wm EXCEPT !.win = [w \in Client |->
                  LET r == wm.win[w]
                  IN  CASE hides(r) -> Vanish(w, [r EXCEPT !.savevs = v])
                        [] shows(r) -> DisplayWin(v, w, [r EXCEPT !.savevs = None])
                        [] OTHER -> [r EXCEPT !.savevs = IF background THEN None
                                                         ELSE @]]]
      /\ background' = ~background
      /\ UNCHANGED <<starting, kept, uses>>

\* ShowBackground remembers in a static variable that it has hidden windows, and
\* with each window on which screen it was.
ShowBackground ==
  LET v == wm.currentvs
      hides(r) == ~background /\ r.managed /\ r.vs = v
      shows(r) == background /\ r.managed /\ r.savevs = v
  IN  /\ Free /\ "background" \in uses
      /\ wm' = [wm EXCEPT !.win = [w \in Client |->
                  LET r == wm.win[w]
                  IN  CASE hides(r) -> Vanish(w, [r EXCEPT !.savevs = v])
                        [] shows(r) -> DisplayWin(v, w, [r EXCEPT !.savevs = None])
                        [] OTHER -> [r EXCEPT !.savevs = IF background THEN None
                                                         ELSE @]]]
      /\ background' = ~background
      /\ UNCHANGED <<starting, kept, uses>>

(***************************************************************************)
(* Restart: every client's window goes back to the root, squeezed ones      *)
(* unsqueezed, and the server maps them as the connection ends.  Events     *)
(* that are waiting are lost, and everything but the properties.  The new   *)
(* ctwm takes over the windows that are mapped, and then handles events.    *)
(***************************************************************************)
Restored(w) ==
  LET r == wm.win[w]
      shown == \E u \in managed(wm) :
                 /\ wm.win[u].squeezed /\ w \in Dialogs(wm, u)
                 /\ TransientFor[w] = u \/ r.isicon
  IN  IF ~r.managed THEN r
      ELSE [Forgotten([r EXCEPT !.inFrame = FALSE]) EXCEPT
              !.up = r.exists, !.state = IF r.exists /\ shown THEN "Normal" ELSE @]

DoRestart ==
  /\ Free /\ "restart" \in uses
  /\ wm' = [wm EXCEPT !.win = [w \in Client |-> Restored(w)],
                      !.queue = <<>>, !.currentvs = 1,
                      !.occupyWin = None, !.occupyUp = FALSE]
  /\ background' = FALSE
  /\ starting' = {w \in Client : wm'.win[w].up}
  /\ kept' = [w \in Client |-> [isicon |-> wm.win[w].isicon,
                                occupation |-> wm.win[w].occupation]]
  /\ UNCHANGED uses

\* The scan of the root's children in ctwm_main.c.
TakeOver(w) ==
  /\ w \in starting
  /\ wm' = MapRequest([wm EXCEPT !.win[w].up = FALSE], w, TRUE)
  /\ starting' = starting \ {w}
  /\ kept' = IF starting = {w} THEN NothingKept ELSE kept
  /\ UNCHANGED <<background, uses>>

Events ==
  \E w \in Client :
    \/ HandleMapRequest(w) \/ HandleMapNotify(w)
    \/ HandleUnmapNotify("Unmap", w) \/ HandleUnmapNotify("Withdraw", w)
    \/ HandleDestroyNotify(w) \/ HandleReparentNotify(w)

Clients ==
  \E w \in Client : ClientMap(w) \/ ClientWithdraw(w) \/ ClientDestroy(w)

Functions ==
  \E w \in Client :
    \/ IconifyFunction(w) \/ ChangeState(w) \/ Popup(w) \/ WarpTo(w)
    \/ SqueezeFunction(w) \/ Occupy(w)
    \/ \E occ \in SUBSET WorkSpace : NameChange(w, occ)

Occupations ==
  \/ \E w \in Client :
       \/ MoveToNextWorkSpace(w) \/ MoveToPrevWorkSpace(w) \/ OccupyAll(w)
       \/ WMgrRemoveFromCurrentWorkSpace(w) \/ WMgrAddToCurrentWorkSpaceAndWarp(w)
       \/ \E ws \in WorkSpace :
            \/ AddTo(w, ws) \/ RemoveFromWorkSpace(w, ws) \/ ToggleOccupation(w, ws)
       \/ \E to \in {{ws} : ws \in WorkSpace} \cup {WorkSpace} : NetWmDesktop(w, to)
       \/ \E occ \in SUBSET WorkSpace : OccupationProperty(w, occ)
  \/ \E ok \in BOOLEAN, occ \in SUBSET WorkSpace \ {{}} :
       OccupyHandleButtonEvent(ok, occ)
  \/ OccupyWindowIconify

Screens ==
  \/ \E v \in VScreen :
       EnterVScreen(v) \/ \E ws \in WorkSpace : SwitchWorkSpace(v, ws)
  \/ ShowBackground

Restarts == DoRestart \/ \E w \in Client : TakeOver(w)

Next == Events \/ Clients \/ Functions \/ Occupations \/ Screens \/ Restarts

Spec == Init /\ [][Next]_vars

\* The event loop goes on, and a starting ctwm with its scan; nothing is
\* assumed of clients and users.
FairSpec ==
  Spec /\ WF_vars(Events) /\ WF_vars(\E w \in Client : TakeOver(w))

(***************************************************************************)
(* Properties.                                                              *)
(***************************************************************************)

\* The screen a window is on, or was on when ShowBackground hid it.
Screen(r) == IF r.vs = None THEN r.savevs ELSE r.vs

\* No workspace is shown twice, and a window is on a virtual screen if and only
\* if it occupies a workspace that one shows, and then on one of those: through
\* every change of workspace and of occupation (GotoWorkSpace, ChangeOccupation,
\* SetupOccupation), whatever its dialogs and its icon do meanwhile.
OnScreenIffOccupies ==
  /\ \A u, v \in VScreen : wm.current[u] = wm.current[v] => u = v
  /\ \A w \in managed(wm) :
       LET r == wm.win[w]
       IN  IF Screen(r) = None THEN \A v \in VScreen : ~OCCUPY(r, wm.current[v])
           ELSE OCCUPY(r, wm.current[Screen(r)])

\* f.showbackground a second time brings back every window that the first time
\* took away, unless its client has withdrawn it meanwhile.
BackgroundComesBack ==
  [][background /\ ~background' =>
       \A w \in managed(wm) \cap managed(wm') : wm'.win[w].vs = Screen(wm.win[w])]_vars

\* ctwm has handled all events.
Settled == starting = {} /\ wm.queue = <<>>

\* f.occupy never refers to a window that is gone, however long its own window
\* stays up (WMapRemoveWindow).
OccupyWindowIsThere == wm.occupyWin \in managed(wm) \cup {None}

\* When all events are handled, what ctwm believes of a window (mapped, isicon,
\* icon_on, squeezed, vs, parent_vs) is what the server shows: its frame, its
\* own window and its icon are mapped if and only if they should be, and where.
\* At all times f.occupy has a window that is there, or none.
FlagsTellTheTruth ==
  /\ TypeOK /\ OccupyWindowIsThere
  /\ Settled => \A w \in managed(wm) :
       LET r == wm.win[w]
       IN  /\ r.mapped # r.isicon
           /\ r.frame = (r.mapped /\ r.vs # None)
           /\ r.up = (r.frame /\ ~r.squeezed)
           /\ r.iconUp = (r.isicon /\ r.icon_on /\ r.vs # None)
           /\ r.root = r.parent_vs
           /\ r.vs # None => r.root = r.vs

\* When all events are handled, WM_STATE and WM_OCCUPATION say of every window
\* what it is: they are all that a restart and the client know (SetMapStateProp
\* of seven callers, ChangeOccupation and SetupOccupation).
PropertiesTell ==
  Settled => \A w \in managed(wm) :
    LET r == wm.win[w]
    IN  /\ r.prop = r.occupation
        /\ r.state = IF r.isicon THEN "Iconic"
                     ELSE IF r.vs = None THEN "Inactive" ELSE "Normal"

\* Taking a window over again leaves it in the workspaces it was in, or brings a
\* dialog to those of its leader, and leaves it an icon if it was one
\* (SetupOccupation, HandleMapRequest, and the properties they find).
RestartKeepsWindows ==
  [][\A w \in Client :
       w \in starting /\ w \notin starting' /\ wm.win[w].prop # {} =>
         /\ wm'.win[w].isicon = kept[w].isicon
         /\ \/ wm'.win[w].occupation = kept[w].occupation
            \/ \E l \in managed(wm) : /\ w \in Dialogs(wm', l)
                                      /\ wm'.win[w].occupation = wm.win[l].occupation]_vars

\* Whenever the occupation of a window changes, the dialogs it has end up in the
\* same workspaces, and theirs too (the recursion of ChangeOccupation).
DialogsFollow ==
  [][~TransientHasOccupation =>
       \A w \in managed(wm), t \in managed(wm) :
         /\ t \in Dialogs(wm, w)
         /\ {w, t} \subseteq managed(wm')
         /\ wm'.win[w].occupation # wm.win[w].occupation
         => wm'.win[t].occupation = wm'.win[w].occupation]_vars

\* When all events are handled, ctwm manages the windows whose clients want them
\* mapped, and has let go of the others: those are neither framed nor mapped.
ClientsAreServed ==
  Settled => \A w \in Client :
    LET r == wm.win[w]
    IN  /\ r.exists /\ r.asks => r.managed /\ r.inFrame
        /\ r.exists /\ ~r.asks => ~r.managed /\ ~r.up /\ ~r.inFrame
        /\ ~r.exists => ~r.managed

\* Only its client destroys a window: forgetting one takes it out of its frame
\* before the frame is destroyed (HandleUnmapNotify).
ClientsSurvive ==
  [][\A w \in Client :
       wm.win[w].exists /\ ~wm'.win[w].exists => ClientDestroy(w)]_vars

\* A window that its client has destroyed is forgotten in the end, even if it
\* vanished while ctwm was taking it over.
DeadAreForgotten ==
  starting = {} /\ wm.queue = <<>> => \A w \in managed(wm) : wm.win[w].exists

=============================================================================
