# A formal model of ctwm

ctwm is an X11 window manager of the twm family: one process, one thread, an
event loop that dispatches X events and user functions to handlers, and a large
amount of state that the handlers share. This directory holds TLA+ modules
translated from its C sources, the configurations that model-check them with
TLC, and theorems about them that TLAPS checks.

What makes this program hard to test is not parallelism inside it. It is that

* the order of events is chosen by others (clients, the user, the X server), so
  any handler may find the state any other handler left;
* derived facts (which layer a window is in, which windows are shown, what the
  client was told) are computed from several pieces of state that different
  handlers change, and have to be brought up to date by whoever changes them;
* windows vanish while something still refers to them;
* some loops reorder the list they walk;
* a restart replaces the process and keeps nothing but window properties.

## Inventory

Paths are relative to `src/`. "Properties" says what makes the component correct.

| Component | State it keeps | Operations | Interacts with | Hard part | Properties |
|---|---|---|---|---|---|
| **Stacking** `otp.c` | the list of owls bottom to top; base priority, flags, switching of each; the stash property | raise, lower, raise-or-lower, tiny raise and lower, set/change/switch priority, sibling placement, add, remove, reassign icon, recompute preferences, restack, focus | everything that maps, raises, zooms, focuses; the X stacking order | effective priority is derived; loops over transients | the list ascends, owls are exactly those of managed windows, no assertion fails, loops end |
| **Focus** `win_ops.c`, `event_handlers.c`, `clicktofocus.c` | `Scr->Focus`, last focus of each workspace | `SetFocus`, FocusIn/Out, click-to-focus | stacking (fullscreen), workspaces, colormaps | focus window destroyed; late events | focus is a managed window or none |
| **Window life cycle** `add_window.c`, `event_handlers.c`, `ctwm_takeover.c` | `TwmWindow` list, `mapped`, `isicon`, `icon_on`, WM_STATE | MapRequest, MapNotify, UnmapNotify, DestroyNotify, reparenting, take-over | all | unmap by ctwm or by the client, destroy in between | flags agree with WM_STATE; nothing refers to a dead window |
| **Iconification** `win_iconify.c` | icon windows, transients taken along | Iconify, DeIconify, auto-squeeze | life cycle, icon managers, stacking | groups and transients with a will of their own | a transient is visible only with its leader |
| **Icons, regions** `icons.c`, `win_regions.c` | icon window, region entries (split rectangles) | place, redo, free, split, merge | iconification | fragments | placed icons do not overlap; freeing merges |
| **Zoom, resize** `win_resize.c` | `zoomed`, saved geometry | fullzoom, unzoom, EndResize | stacking flags, `_NET_WM_STATE` | toggles; zoom over zoom | flags agree with the zoom |
| **EWMH** `ewmh.c` | `_NET_WM_STATE`, client lists, desktops, struts, window types | client messages, property updates | stacking, workspaces, zoom | what clients set themselves | what is told is what is |
| **Workspaces** `occupation.c`, `workspace_*.c` | occupation bit sets, current workspace, saved window order | change occupation, go to workspace, occupy all | virtual screens, icon managers, focus | transients follow; map/unmap while walking the stack | shown iff it occupies the current workspace |
| **Virtual screens** `vscreen.c` | current workspace of each, window moved far away | display, vanish | workspaces, stacking | reparenting resets the X order | a window is on at most one |
| **Icon managers** `iconmgr.c` | lists of entries, active entry | add, remove, sort, pack, move | workspaces, focus | entry in two lists | both lists agree |
| **Window ring** `win_ring.c`, `functions_warp.c` | circular list, leader | add, remove, warp | life cycle | leader leaves | leader is on the ring; ring is a cycle |
| **Layout** `r_area*.c`, `r_layout.c` | none | union, split, neighbours, edges | zoom, placement, struts | off-by-one | areas covered exactly |
| **Colormaps** `colormaps.c` | installed lists, root push count | install, uninstall, push, pop | focus, menus | nesting, skipping | pops match pushes |
| **Event loop** `event_core.c`, `signals.c`, `animate.c` | signal flags, windows to raise/lower later | dispatch, auto-raise, restart | all | signals between checks | a request is served |
| **Functions, menus** `functions*.c`, `menus.c` | deferred function, chain of menus, grabs, the window dragged | execute, defer, pop up, pin, move, resize | all | loops that dispatch events inside loops | menus shown are those of the chain; nothing stays grabbed; an abort restores |
| **Placement** `add_window.c`, `functions_win_moveresize.c` | frame sizes and places | place, pack, push, fill, jump, change size | layout, regions | rounding, edges, order of checks | sizes are legal; windows stay in reach |
| **Session** `session.c`, **captive** `captive.c`, **window boxes** `windowbox.c` | | | | | optional parts |
| **Configuration** `parse*.c`, `gram.y`, `lex.l`, **drawing** `win_decorations.c`, `image*.c`, ... | | | | | data conversion and output; not modelled |

`PROJECT.json` lists each with its status, and under "hazards" the places where
things can go wrong, with the property that covers each or why none does.

## Modules

| Module | What it holds |
|---|---|
| `OtpStack` | constants (windows, icons, their hints), the record of the list, and the operators on it: priorities, places, removal, insertion |
| `Otp` | the state machine: one action per handler, and its properties |
| `OtpLayers` | the abstract promise: layers in order, and nothing of other clients moves |
| `MCOtp` | small instances of `Otp` for TLC |
| `OtpProofs` | theorems about `Otp`: types, the list, the stash; the list stays in order and no assertion fails, the refinement of `OtpLayers`, and where moves end |
| `Windows` | the record of a client window, what the X server shows of it, and the operations on both: occupation, virtual screens, workspaces, iconification, squeezing, take-over; no variables |
| `LifeCycle` | the state machine of clients, the event queue, ctwm's event handlers and functions, and restarts; its properties |
| `MCLifeCycle` | small instances of `LifeCycle` for TLC |
| `LifeCycleProofs` | theorems about `LifeCycle` |
| `SequenceFacts` | lemmas about numbers, finite sets, sequences and recursive functions |
| `Interaction` | buttons, keys and the pointer: menus, bound functions, f.function, deferred functions, the loops of f.move and f.resize that handle events themselves, and the grabs |
| `MCInteraction` | two menus, one in the other, for TLC |
| `InteractionProofs` | theorems about `Interaction` |
| `Attention` | focus, highlight, automatic raising and lowering, the focus saved for workspaces, the window ring and warps, with the crossing and focus events that the server sends |
| `MCAttention` | two or three windows, two of which overlap, for TLC |
| `AttentionProofs` | theorems about `Attention` |
| `Managers` | the icon managers: the two lists of every entry, sorting, packing, the entry that is current and the moves along entries |
| `ManagersProofs` | theorems about `Managers` |
| `Colormaps` | colormaps and their windows, counted; what is installed, what does not go together, the root's colormaps pushed |
| `ColormapsProofs` | theorems about `Colormaps` |
| `Layout` | areas and lists of areas, the stripes of a layout, its edges, struts, and the zooms that ask for them |
| `LayoutProofs` | theorems about `Layout` |
| `Regions` | icon and window regions: the entries they are split into, and the icons and windows that have them |
| `Geometry` | over `Layout`: the sizes a client allows, the place of a new window, packing, pushing, filling, jumping, f.initsize, f.moveresize, f.changesize, and the drag of a border |
| `MCParts` | small instances of the last five; a variable says which of them moves in a behaviour |

The components share `TwmWindow`, but few fields of it. `Geometry` extends `Layout`,
whose operators it asks; `LifeCycle` is `Windows` with events, clients and users.
`Otp` and `LifeCycle` are not composed: stacking does not depend on what is shown
(owls of hidden windows stay in the list), and nothing in `LifeCycle` depends on the order.
The workspace change walks the stacking list, but what it does to one window does not
depend on what it did to the others. `Attention` has its own small stack (who is on top at
a point), since crossings depend on it, and one workspace at a time; `Interaction` has
frames that are at one of two places. `MCParts` is no composition: its five parts do
not meet, and one run checks them in turn.

### Stacking: how the state corresponds to the code

| Model | Code |
|---|---|
| `otp.listed`, `otp.under[o]` | the doubly linked list: `under[o]` is the set of owls that following `below` from `o` meets. `NextUp` is `owl->above` |
| `otp.base`, `otp.flags` | `pri_base`, `pri_aflags` |
| `otp.focus` | `Scr->Focus` |
| `otp.managed` | what `GetTwmWindow()` finds (the window context) |
| `otp.small` | the transients whose area is under `TransientOnTop` percent of their window's; `Sizes` lets it change where a handler changes a size |
| `otp.ok` | FALSE once an `assert()` of `InsertOwlAbove` fails or `OtpCheckConsistency` calls `abort()`; nothing is enabled then |
| `switching`, `zoomed` | `owl->switching`, `twm_win->zoomed` |
| `stash` | the window property `XA_CTWM_OTP_AFLAGS`; outlives ctwm |
| `ewmh` | `ewmhFlags`, equal to the property `_NET_WM_STATE` |
| `job` | the local variables of the two loops over the transients of a window |

`Pri` is `OwlEffectivePriority`, `InsertOwl` is `InsertOwl` with
`OwlRightBelow` and `InsertOwlAbove`, `PutOver` the links that those and
`RaiseSmallTransientsOfAbove` set, `Checked` is `OtpCheckConsistency`,
`Move` is `RaiseOwl`/`LowerOwl` with `TryToSwitch`, `Companions` are what
may move with a window. Other actions carry the name of their handler.

Every handler is one action, since ctwm runs a handler to its end before it
reads another event. The exceptions are `TryToMoveTransientsOfTo` and the loop of
`OtpFocusWindowBE`: they walk the list while they reorder it, so that each turn
depends on what the earlier ones did. They are steps (`WalkStep`/`WalkEnd`,
`FocusStep`/`FocusEnd`), with every other action disabled (`Ready`).

Decisions a reader should know:

* Geometry is abstracted to choices: whether another owl obscures an owl
  (`RaiseLower`, the tiny moves), which transients are small.
* X refuses a request to stack a window next to itself, so `ForcePlacement` has
  the guard `w # x`.
* `RedoIcon` frees the icon, makes a new one and raises it. The actions
  `FreeIcon`, `AddIcon` and `Raise` do this in that order, with other handlers
  allowed between: an over-approximation.
* A withdrawn window comes back as a new one; its `XA_CTWM_OTP_AFLAGS` and
  `_NET_WM_STATE` outlive it, and the client may rewrite the latter (`AddWindow`).
  `ctwm` reads only ABOVE, BELOW (and SHADED) of the initial state.
* A restart is an `exec`; windows are taken over one after another by
  `AddWindow`, in any order.
* Virtual screens share one list; the model has one virtual screen. The X
  server's own order is not part of the model.

Bounds, all in the CONSTANTS of `Otp`: the arguments of the priority functions
(`UserPriorities`, `UserDeltas`), the owls they are invoked on (`Togglable`,
`Switchable`), the zoom functions and windows (`Zooms`, `Zoomable`), and the states
that clients set (`ClientFlags`). Priorities need no bound: the code clamps them.

### Windows: how the state corresponds to the code

| Model | Code |
|---|---|
| `wm.win[w]`, first part | `TwmWindow`: `mapped`, `isicon`, `icon_on`, `squeezed`, `occupation`, `vs`, `parent_vs`, `savevs`; `managed` says that there is one, `icon` that it has an icon window |
| `wm.win[w]`, second part | what the server knows: whether the client's window, the frame and the icon are mapped, whether the client's window is in the frame, which virtual screen holds the frame; the properties WM_STATE (`state`) and WM_OCCUPATION (`prop`); `asks`: the client's last request was to map it |
| `wm.queue` | events that ctwm has not read. `Unmap` is a real UnmapNotify, `Withdraw` the synthetic one of ICCCM |
| `wm.current`, `wm.currentvs` | `vs->wsw->currentwspc`, `Scr->currentvs` |
| `wm.occupyWin`, `wm.occupyUp` | `occupyWin`, and whether the window of f.occupy is mapped |
| `background` | the static variable of `ShowBackground` |
| `starting`, `kept` | the scan of the root's children at startup, and a record for the properties of what was before the restart |

An action is one handler run to its end; users, clients and ctwm take turns in any order.
Requests made with StructureNotify masked (`Vanish`, `DisplayWin`, `Iconify`, the
squeezing half of `Squeeze`) put nothing into the queue. Requests made without
(`ReMap`, the other half of `Squeeze`, reparenting) put what the server
sends: a MapNotify, and for a mapped window UnmapNotify, ReparentNotify, MapNotify.

Decisions a reader should know:

* `ChangeOccupation` calls itself for the dialogs of a window, and ends at those that
  are already there. `Movers` is the least set of windows closed under those calls; each
  changes independently of the others, so their order does not matter.
* ctwm writes _NET_WM_DESKTOP wherever it writes WM_OCCUPATION, so `prop` stands for both.
  `Desktop` is what a client sets itself of the former before it is first managed; it is
  asked after WM_OCCUPATION and the `Occupy { }` lists (`EwmhGetOccupation`).
* The arguments of functions are all workspaces and all sets of them. A new name
  (`NameChange`) may match any `Occupy { }` list.
* `Restored` and `TakeOver` are the two halves of a restart. The server maps the
  windows again as the connection ends (they are in the save set), and the new ctwm
  takes over those that are mapped, in any order. Events that are waiting are lost, a
  MapRequest too: ICCCM leaves the repetition to clients.
* Left out: geometry, the icon managers and the workspace map that mirror these states
  (the former have a module of their own), `f.occupy` grabbing the pointer, EWMH window
  types that are shown everywhere, a configuration without workspaces.
* The hidden state of `f.showbackground` does not go together with changes of occupation
  or workspace in the runs: it is left stale by them (see below).

Bound, in the CONSTANTS of `LifeCycle`: `Sessions`, a set of what users and clients do in
a behaviour; `Init` chooses one. Without `"hurry"` every event is handled before anybody
acts again, so what fails then needs no race; with it one event may wait while they act.

### Interaction: how the state corresponds to the code

`ui` is one record, whose fields carry the names of ctwm's globals (`TypeOK` says which):
`ActiveMenu` with its `prev` chain (`active`), `MenuDepth`, `RootFunction`, `Context`,
`ButtonPressed`, `Cancel`, `DragWindow`, `ResizeWindow`, `ButtonWindow`, `WindowMoved`,
`menuFromFrameOrWindowOrTitlebar` and others, and what the server knows: the menus that
are mapped (`up`), the grabs (`pointer`, `keyboard`, `server`), where frames are
(`shown`; `frame` is `frame_x` and its kin), what is under the pointer.

`UpdateMenu`, `movewindow`, `resize` and `resizeFromCenter` read events in loops of their
own and call the same handlers as the main loop, which may start another loop inside.
`loops` is the stack of those that run, each with what is left to do when it ends (`rest`,
the items of an f.function that are still to be executed). An action is one event: it is
taken by the topmost loop, dispatched or not as that loop says, and the loops whose
condition fails then end in turn. Menus are chains of `MenuRoot`s; f.pin makes another of
each. Frames are at one of two places, which is enough to tell moved from not moved.

Left out: the drag of icons, constrained moves, f.movemenu, default items, typed letters,
presses in icon managers and in the workspace map, the colormaps that menus push, raising. Bounds:
`Uses`; a key is pressed only while no button is down and nothing is being given up. The
runs do not have `"menu cancel"` (Cancel with a menu up, see below), and only
`input_menu_move` has f.move chosen from a menu of a window.

### Attention: how the state corresponds to the code

`x` is the server: the windows from the top, the point where the pointer is, the focus,
and the queue of EnterNotify, LeaveNotify, FocusIn and FocusOut events. `Crossed` and
`XSetInputFocus` put the events there that the protocol prescribes, with their
details. `wm` are the globals `Scr->Focus`, `FocusRoot`, `enter_flag`, `enter_win`,
`raise_win`, `leave_flag`, `leave_win`, `lower_win`, `RingLeader`, the ring and
`save_focus` of each workspace. A point is in the frame or the client of some windows, so
that a raise, an unmapping or a warp changes what is under the pointer and makes new
crossings. `HandleEvents` is the head of the main loop, which raises and lowers when no event
is waiting; `Dispatch` handles one event. Windows may be destroyed while events of theirs wait.

Bounds: `Sessions` and `MaxActs`, what users do and how often.

### The parts

* `Managers`: `im.list` and `im.chain` are the two lists an entry (`WList`) is on, that of the
  manager and that of the window (`tmp_win->iconmanagerlist`); the order of the second
  matters, as what is drawn and warped to is the first. There is a copy of each manager
  for every workspace. `Freed` is what a pointer to a freed entry points to. A search for the
  next entry is the sequence of cells it visits (`Steps`).
* `Colormaps`: `wm.cwin` and `wm.cmap` are `ColormapWindow` and `TwmColormap` with their
  reference counts, `wm.cwins` the list of each window, `wm.cmaps` and `pushed_cmaps` those
  in force and pushed. The server installs at most `Installable` colormaps although the
  screen says `maxCmaps`, and sends ColormapNotify; an event's serial is reduced to
  the two things ctwm asks of it.
* `Layout`: an area is what `RArea` is, in pixels; the coordinates are small. The recursion of
  `RAreaListHorizontalUnion` is one step per cut (`Refine`), so that it can be
  asked whether it ends. Vertical stripes are horizontal ones of the flipped list. Where two
  areas begin at the same point the comparison calls them equal, and `qsort` may leave them in either
  order: `RAreaListSortX` is the set of the lists that it may leave. Struts
  crop the monitors, and all is done again.
* `Regions`: the lists of `IconEntry`s of each region with their rectangles, and of each window what
  decides on its place: iconified, on screen, what it is called, the icons made for it.
* `Geometry`: a frame is an area without its border. What is done in one direction is said for the
  horizontal ones and flipped. `unchecked` marks a size that did not go through
  `ConstrainSize`, and `keptUnchecked` one that f.savegeometry kept, as it keeps any. The pixels 5, 15 and `MARGIN` are the code's.

What bounds them are the sets of sessions (what happens in one behaviour, how often) and
the small rectangles, lists and names given in `MCParts`. The layouts have two or three
monitors: side by side, in steps, touching at a corner, overlapping, apart, twice the same,
one inside another, at the same corner, joined by a bridge, which is every way in which two areas can meet. Regions
are of 4 by 4 cells with steps of 1 and 2, so that three icons fill one.

Two icons may overlap after one was renamed: `RedoIconName` makes the window wider in place
(`icons.c:1299`), unless icon titles are shrunk. `IconsApart` therefore asks for no overlap in the sessions
without `"rename"` and in those with `"shrink"`, renaming or not.

Left out: in `Regions` the default position of icons, IconPositionHint, border widths, and
that more than one window is renamed; in `Geometry` the placement with Button2,
WindowGeometries, fullscreen, window boxes, 3D borders, squeezed windows, a
MoveOffResistance of 0 or more, client border widths, and windows that are not
seen (they are taken for not there).

### Fairness

`FairSpec` of `Otp` adds weak fairness to the turns of the two loops. ctwm is one
thread and a loop under way does nothing that blocks, so it goes on to its next turn.
`FairSpec` of `Attention` and `ColormapsFair` say that the event loop goes on while there is
something in the queue or a flag is set: weak fairness, with the condition under which
the loop can go on written out, as TLC is slow to find it. `LayoutFair` says that the making of
a layout, which is one call, goes on. `FairSpec` of `LifeCycle` says the same of its queue and of
the scan at startup; no run needs it. Nothing is assumed of users and clients.

## Runs

| Run | Question | Instance |
|---|---|---|
| `otp_priorities` | Does the list stay in order under priorities, priority switching and preferences that change; do moves reach the end of the layer; does a dialog go along; do the loops end? | a window, its dialog, another window |
| `otp_states` | Can EWMH states, fullscreen, focus, withdrawal, restarts and a dock break the order; does anybody else's window move; is the stash current? | three windows without dialogs |
| `otp_icons` | Icons, dialogs that are group members too, fullscreen, both ends of the priority range, sibling restacking: is the list always one list, whatever happens to priorities? | a window with an icon, and a dialog of it in its group |
| `life_calm` | With events handled at once: are windows shown where they occupy, do flags and properties tell the truth, does every client get what it asks for, through withdrawal, destruction and restarts, squeezing, and f.showbackground? | two independent windows, one without an icon window and one that asks for its workspace by _NET_WM_DESKTOP, two virtual screens, three workspaces, two values of _WM_CTWM_VSCREENMAP |
| `life_dialogs` | Do dialogs follow, through every way to change an occupation? When others act while an event waits, is a destroyed window always forgotten? | a window with AutoPopup and DontSetInactive, its dialog (UnmapByMovingFarAway), and a member of the dialog's group (WarpOnDeIconify); one virtual screen, two workspaces |
| `interaction` | Is what is on the screen the chain of menus; does every way out of a loop end the drag; does an abort put the window back; does the last release let go of everything? | two buttons, two menus one in the other, that can be pinned, one of them with a separator (f.nop), one window, f.move opaque and f.resize with an outline, in menus, on buttons and in an f.function |
| `attention` | Is the focus what ctwm believes, and where the pointer is; does nothing refer to a window that is gone; does raising and lowering end? | three windows, two of which overlap, two workspaces, TitleFocus, five sessions |
| `parts` | Five components in turn: see the properties below | three windows and two managers; two clients with one window inside and three colormaps; eight lists of monitors; three icons in two regions; three windows on two monitors |

The four runs that expect a violation are described below. The `life`, `interaction`,
`attention` and `parts` runs do not check deadlock, as clients and users need not act; nor does `otp_icons`, where ctwm
aborts in the cases described under `otp_fullscreen_dialog` and sibling requests.

The `otp` runs use three windows or two and an icon: an insertion is about an owl, the
owls it passes and the one where it stops. The relations that
matter (transient, group member, icon) each have an
instance. More than one dialog is what the loops need to go wrong, and
`otp_walk_hang` has them. In the `life` runs two virtual screens and three workspaces are
the least where a window can occupy a shown workspace, one shown elsewhere and one shown nowhere;
a chain of three windows is the least where a dialog has dialogs.

Properties of stacking, beside the type invariant:

* `ListIsAStack`: one total order of exactly the managed windows and icons of
  such; the focus is one of them or none.
* `PriorityAscends`: no owl is ever under one of lower effective priority
  between two handlers (`doc/devman/principles.adoc`: "Windows of lower priority can never
  get on top of a window of higher priority").
* `NoAbort`: no assertion fails.
* `MovesReachTheirEnd`: a raise leaves nothing of the layer above but small
  transients, a lower nothing below.
* `TransientsMoveAlong`: a change of priority takes the dialogs of the layer along.
* `StashIsCurrent`: what a restart will read is what is in force.
* `ImplementsLayers`: `OtpLayers`, a refinement: at every step the layers are in
  order and no window moves relative to another, unless it is the window the handler is
  about, its icon or its dialog.
* `HandlersReturn`: the loops end.

Properties of windows:

* `OnScreenIffOccupies`: no workspace is shown twice, and a window is on a virtual screen
  if and only if it occupies the workspace of one, and then on such a one.
* `FlagsTellTheTruth`: when no event waits, `mapped`, `isicon`, `icon_on`, `squeezed`, `vs` and
  `parent_vs` say exactly which of the frame, the window and the icon are mapped, and where; at
  all times f.occupy has a window that is there or none (`OccupyWindowIsThere`).
* `PropertiesTell`: when no event waits, WM_STATE and WM_OCCUPATION say what the window is.
* `RestartKeepsWindows`: a restart leaves windows where they were, and icons icons.
* `DialogsFollow`: whenever an occupation changes, dialogs and theirs come along.
* `BackgroundComesBack`: f.showbackground brings back what it hid.
* `ClientsAreServed`: when no event waits, ctwm manages what clients want mapped and nothing else.
* `ClientsSurvive`: ctwm never destroys the window of a client. It holds in `life_calm`, where
  nobody acts while an event waits, and fails in `life_own_reparent`, where they do.
* `DeadAreForgotten`: a destroyed window is forgotten in the end.

Properties of interaction:

* `MenusAreTheChain`: the menus that are mapped are those of the chain and those that
  are pinned, `MenuDepth` is the chain's length, and the window that a chain was popped up for
  is there as long as it waits (`MenuWindowIsThere`).
* `DragEnds`: whatever ends f.move or f.resize, no window stays the one that is dragged.
* `LastReleaseFrees`: after the last release nothing is grabbed and nothing is left over.
* `AbortRestores`: a second button puts the window back to where it was.

Properties of attention:

* `FocusIsTrue`: when the queue is empty, what ctwm believes to be the focus is where the keys go.
* `FocusFollowsPointer`: it is then the window under the pointer.
* `NothingDangles`: every pointer kept across events is to a window that is managed; the ring's
  leader is on the ring.
* `AttentionSettles`: automatic raising and lowering comes to an end, again and again.

Properties of the parts:

* `EntriesAgree`: the two lists of the icon managers' entries agree, a manager that is shown is not
  empty, and the first entry of a window is that of the current workspace.
* `SearchesEnd`: the search for the next entry comes to one.
* `CountsAgree`: colormaps and their windows are counted as often as they are referred to.
* `TopColormapIsInstalled`: once all is handled, the first window of the list that is seen has
  its colormap.
* `InstallingEnds`: ctwm and the server do not fight for ever over colormaps, if no colormap
  is twice on a list.
* `StripesAreWhole`: cutting and joining loses no part of the monitors, and every stripe reaches
  from side to side. `LayoutGetsReady`: it ends.
* `WindowsStayVisible`: a zoom leaves visible what was; a window dragged off stays in reach.
* `UnzoomRestores`: after any zooms the window comes back to where it was.
* `PlacesAreApart`: the entries of a region tile it, and icons that have a place do not overlap.
* `PlacesAreFreed`: an icon has one place at most and only while it is one; a region without
  icons is whole again.
* `SizesAreLegal`: whatever is done to a window, its client gets a size it asked for.
* `PackingKeepsApart`: packing, jumping and filling stop at what they meet.
* `ResizeKeepsASide`: however the pointer crosses the sides of a window that is dragged, one of two
  opposite sides is where it was.

### What the runs found

Four runs expect a violation; `PROJECT.json` quotes the line of the code or the
documentation it contradicts.

* `otp_walk_hang`: a window with two dialogs in its layer, whose priority is
  set to the value it has: `TryToMoveTransientsOfTo` puts each dialog over the
  other in turn and never ends. `OtpFocusWindowBE` was given loop
  detection for this.
* `otp_fullscreen_dialog`: a dialog that inherited FULLSCREEN, and whose
  window is gone, compares the focus with NULL: with the focus on the root its
  priority rises without a restack, and the next check aborts.
* `life_own_reparent`: ctwm takes the ReparentNotify of its own reparenting for one of
  the client's; a window mapped and withdrawn at once stays in the frame that is destroyed.
* `input_menu_move`: f.move chosen from a menu of the window puts the frame down
  without SetupWindow, so that `frame_x` and `frame_y` keep the old place.

Other departures from what comments and the manual say are in the model as they are in
the code, and the instances of the passing runs stay clear of them:

* Stacking. A dialog of a dialog moves with it under the loop's feet, and
  `TryToMoveTransientsOfTo` stops before it has moved the rest (`otp_priorities` has one
  dialog). A sibling request takes over the base priority but not the flags, so the
  assertion on effective priorities fails (`StackModeWins = {}` where `NoAbort` is checked). A
  dialog that follows a window takes its flags over but not into its stash (`otp_states`
  has no dialogs). Zooming a fullscreen window another way leaves FULLSCREEN set. The
  default priority of a dock is looked at only if the configured one is 0, the lowest,
  rather than neutral.
* Screens. `_WM_CTWM_VSCREENMAP` with fewer entries than screens may put two screens on
  one workspace (the instances have none or all). `f.showbackground` keeps one state for
  all screens, and stale ones across changes of occupation (the session with
  `"background"` has neither). A window of UnmapByMovingFarAway changes screen without `parent_vs`.
* Windows. A squeezed window that its client withdraws is unsqueezed and so mapped on the
  root. De-iconifying maps a dialog that occupies another workspace. A window
  without StateHint, withdrawn while in another workspace, comes back mapped in the
  current one. AutoPopup marks an icon in another workspace as mapped and as an icon. A new
  window of WarpOnDeIconify is brought into the current workspace but not mapped. A
  window iconified before the MapNotify of its own mapping is read comes back by itself
  (no event waits in `life_calm`). `f.vanish`, `f.warphere` and messages send a transient where
  its leader is not, which `TransientHasOccupation` is documented to be needed for.
* Interaction. An opaque resize that is aborted keeps the size it was dragged to
  (`doc/manual/ctwm.1.adoc` says it is put back). Cancelling a menu leaves `fromWin` as it was, so
  that the next menu flashes away, or, by key, is waited for without end (`menus.c:497`). `ButtonWindow` outlives
  its window under a pinned menu (`event_handlers.c:82`, `2452`). Escape with GrabServer and
  StayUpMenus, and a key after a deferred function, leave the server grabbed.
* Attention. After `f.unfocus`, and after `f.focus` on the focus window, a window that the pointer
  leaves straight for the root stays highlighted (`event_handlers.c:3579`). The focus saved for a
  workspace may be iconified when it is given back (`workspace_utils.c:281`). `f.warpring` warps to the
  only window of the ring though it is an icon (`functions_warp.c:215`). `_NET_ACTIVE_WINDOW` for a window
  in another workspace sets `Scr->Focus` though the server refuses the focus (`ewmh.c:1244`).
* Managers. A pointer to the active entry outlives its manager's removal with a workspace's icon manager (`Active`,
  `ip->active`). `RedoIconName` sorts only the first manager a window is in. With one manager
  `f.previconmgr` finds nothing.
* Colormaps. A conflict is marked at the wrong place when a colormap is on two places of the list, or
  the first window is hidden; ctwm and the server then fight for ever
  (`event_handlers.c:171`). A new colormap's state is written into the record of the old one (`132`).
  The pushed list refers to windows that may be gone (`1801`), so that `"destroy"` never meets `"push"`
  in the sessions.
* Layout. `f.fullzoom` of a window that is on no monitor asks the layout for nothing and gets an invalid area
  (`r_layout.c:979`). The lower end in `RLayoutFullHoriz1` is taken from the target after it was moved
  (`923`). Struts that leave nothing of a monitor are not refused as borders are (`ctwm_main.c:685`).
  The `memcpy` of `r_area_list.c:167` on overlapping memory is modelled as a `memmove`.
* Regions. A client that iconifies itself while another workspace is shown takes two
  places, of which one is freed (`event_handlers.c:1548`); a window of UnmapByMovingFarAway, and an
  icon window of the client's own, keep theirs (`vscreen.c:352`, `event_handlers.c:1838`). A new window
  asks for a place with a size of 0 (`add_window.c:717`). `AddWindowRegion` never links the regions
  after the first (`win_regions.c:37`).
* Geometry. `SetupFrame` keeps windows on the screen but not on a monitor, where two of them share neither row
  nor column (`add_window.c:1464`). The relative resize of a window that extends off the left or the top
  collapses it, as a negative place is compared with an unsigned one (`win_resize.c:501`, `521`).
  `f.fill` towards an edge the window is flush with collapses it to its least height
  (`functions_win_moveresize.c:1132`). `f.changesize` ignores the client's hints. An opaque resize
  never undoes a zoom (`win_resize.c:653`). Button3 placement adds the borders twice (`add_window.c:1259`).
  A second `f.pack` passes over windows that touch. `ConstrainSize` goes below a least size off the grid of the increments.

## Proofs

Seven components are proved about, for every value of their constants: stacking, the life of
windows, interaction, attention, the icon managers, the colormaps, and the layout.
`SequenceFacts` holds what they need to know of sequences.

| Module | Theorems | Inductive invariants |
|---|---|---|
| `OtpProofs` | `TypeCorrect`, `StackStaysWhole`, `StashStaysCurrent` | `StackInv`, `StashInv` |
| | `NeverAborts`, `OrderIsKept`, `LayersAreImplemented`, `MovesEndWhereTheyShould`, `NoDialogIsLeftBehind` | `CalmInv`, `JobSmall`, `WalkProgress` |
| `LifeCycleProofs` | `TypeCorrect`, `TheDeadAreLetGo`, `DialogsGoAlong`, `TheBackgroundGoesAway`, `WindowsAreWhereTheyShouldBe` | `LifeInv`, `HiddenInv`, `PlaceInv` |
| `InteractionProofs` | `ScreenShowsTheChain`, `NothingStaysDragged`, `AnAbortRestores` | `InteractionInv` (`Sound`, `Asked`, `Shows`) |
| `AttentionProofs` | `TypeCorrect`, `NothingIsLeftDangling` | `Inv` (`Sane`) |
| `ManagersProofs` | `TheEntriesAgree`, `TheSearchesEnd` | `ManagersInv` (`Linked`, `Homely`) |
| `ColormapsProofs` | `ColormapsAreCounted` | `ColormapsInv` (`Sane`, `Unpushed`) |
| `LayoutProofs` | `UnzoomAlwaysRestores`, `StripesAreAlwaysWhole` | `LayoutInv` (`MakingKeepsAll`, `HomeIsKept`) |

### Stacking

For any set of windows and icons, any relation among them and any configuration that
satisfies the named assumptions (`OwlAssumption`, `HintAssumption`, `ConfigAssumption`,
`IconAssumption`: a window has one icon at a time):

* **`TypeCorrect`**: `Spec => []TypeOK`. Inductive as it stands.
* **`StackStaysWhole`**: `Spec => []ListIsAStack`. The list alone is not
  inductive: a loop under way puts back what it refers to, so the owls it
  holds must still be listed and the window the focus will go to still managed
  (`JobInList`). `StackInv` is `TypeOK`, the whole list and `JobInList`. The core
  is `PutOverList`: cutting a total order at a bottom part, moving some of
  it and linking one more owl leaves a total order; and `BelowPriorityBottom`
  and `ListOrder`: every place the code inserts at is such a cut.
* **`StashStaysCurrent`**: the flags that are stashed on a window are those of its owl, if the
  window inherits flags from none (it is no dialog, and no group has another leader). A window
  that does takes flags over without stashing them, so `StashIsCurrent` follows where there
  is no such window, as in `otp_states`.
* **`NeverAborts`**, **`OrderIsKept`**: `Spec => []NoAbort` and `Spec => []PriorityAscends`. `CalmInv`
  is `StackInv`, a list in order in which nothing is FULLSCREEN but what may be
  (`Calm`), and that a loop on the way out of a window has taken the focus away
  (`JobFocus`), for otherwise giving the focus to the next window would move the old one
  silently. Every operator on the list is shown to keep `Calm` and to leave all owls alone
  but those of one client (`Apart`); the second half is what the refinement needs.
* **`LayersAreImplemented`**: `Spec => ImplementsLayers`, the refinement of `OtpLayers`. The initial
  state maps to an initial state, and every step to an arrangement of the things of one
  client (`Apart`), to a restart, or to a stutter.
* **`MovesEndWhereTheyShould`**: `Spec => MovesReachTheirEnd`. `JobSmall` says that the walk goes by the
  sizes that are in force while it runs.
* **`NoDialogIsLeftBehind`**: `Spec => TransientsMoveAlong`, that the loop reaches every transient of the
  layer though it reorders the list it walks. `WalkProgress`: what the walk has passed is
  moved, and the owl it noted as the next is still in the layer, with those to come behind it.

The last five have hypotheses, which name what breaks the property in the code:

| Hypothesis | Without it |
|---|---|
| `FullscreenIsAlone`: a window that may be FULLSCREEN is no dialog and has none | a dialog that inherited FULLSCREEN changes priority with the focus of another window: `otp_fullscreen_dialog` |
| `DocksAgree`: a dialog is a dock if and only if its window is | the dialog takes base and flags of its window, and not its priority |
| `StackModeWins = {}`: no client restacks next to a sibling | `ForcePlacement` takes the base of the sibling and not its flags; the assertion on effective priorities fails |
| `ZoomsDoNotRaise`, for `MovesReachTheirEnd`: with RaiseOnResize there is no zoom but fullscreen | the zoom changes which dialogs are small in the step that raises |
| `DialogsAreFlat`, for `TransientsMoveAlong`: a dialog has no dialogs | with a dialog `d` of `m`, a small dialog of `d`, and another dialog `e` of `m` on top, a change of the priority of `m` moves `d`, which takes its own dialog along; that was the next owl of the walk, whose loop then stops at `PRI(other_owl) == PRI(owl)` (`otp.c:642`) and leaves `e` behind. The comment at `otp.c:619` expects the list to change under the walk, but not this |

### The life of windows

For any finite set of windows, any relation of transients and groups (cycles included), any number
of virtual screens and workspaces, any setting and any session (`ScreenAssumption`,
`ClientAssumption`), hurried ones included:

* **`TypeCorrect`**: `Spec => []TypeOK`.
* **`TheDeadAreLetGo`**: `Spec => [](DeadAreForgotten /\ OccupyWindowIsThere)`. `DeadAreForgotten` is not
  inductive, as it speaks of an empty queue. `LifeInv` adds what holds while events wait
  (`Sound`): the death of a window that ctwm manages is in the queue (`DeathsAreTold`),
  wherever the window was when it died and whatever was reparented since; a window
  that is not managed is hidden by nothing and is not that of f.occupy.
* **`DialogsGoAlong`**: `Spec => DialogsFollow`. `Movers` is a least fixed point; that a dialog of a
  mover is a mover needs no induction.
* **`TheBackgroundGoesAway`**: `Spec => BackgroundComesBack` where no session has both
  f.showbackground and changes of workspace (`BackgroundStays`). `HiddenInv`: what is hidden
  belongs on the one screen there is, and only while the background is shown. The code keeps one
  static flag and restores each window to the screen it was on: with a second screen the
  other call shows there what was hidden here.
* **`WindowsAreWhereTheyShouldBe`**: `Spec => [](Apart => OnScreenIffOccupies)`. `Apart` says of
  sessions with f.showbackground that nothing else that changes occupations or workspaces
  happens in them; of all others it says nothing. A hidden window whose occupation changes is
  on a screen again while the background is shown, or on none afterwards. The theorem is
  stricter in one place than the run: `life_calm` has a window of WarpCursor in its session with
  `"background"`. `WholeMaps`: whatever `_WM_CTWM_VSCREENMAP` says, every
  screen starts with a workspace of its own, as it does when the property is not set or has an
  entry for every screen. With one entry, `<<0>>`, and two screens
  `ConfigureWorkSpaceManager` shows workspace 0 on both, though the comment at
  `workspace_manager.c:125` says that the default is the first one not used yet; then no window of that workspace is on
  both, and a change of workspace of one screen leaves the other without.

The argument has one shape throughout. What a handler may do to windows is one of a few
relations between two states (`Stays`, `Still`, `Goes`, `Moves`, `Changes`, `Passes`), each
transitive or absorbing the next weaker. Every operator of `Windows` is shown to be in one, from
the record of one window up to a whole request; then every action is a `Step`, and the
three invariants are kept by every `Step`. f.occupy, the change of a virtual screen, f.showbackground
and the restart are no `Step`s and are treated one by one.

### Interaction

For any windows, any menus (in one another in any way, cycles included), anything bound to the
button in any context, any f.function without f.function, f.menu or f.pin and with f.move as its first item or not at all, any options and any habits of the user
(`InteractionAssumption`; `Uses` may be all there are, among them `"menu cancel"`, which the runs leave out):

* **`ScreenShowsTheChain`**: `Spec => []MenusAreTheChain`. A menu that is no pinned one is mapped if and only if it is
  on the chain of `ActiveMenu`, a menu is never on the chain twice, and `MenuDepth` is the length of the chain.
* **`NothingStaysDragged`**: `Spec => []DragEnds`. Where no loop is left but the main one, `DragWindow` and
  `ResizeWindow` are nobody's and the size window is gone.
* **`AnAbortRestores`**: `Spec => AbortRestores`. A second button that ends `f.move` leaves the window where
  `f.move` found it, and `frame_x` and `frame_y` as they were. (Chosen from a menu of the window, `f.move` takes that press as the one
  that puts the window down: the property is not about it.)

None is inductive without the loops that run inside one another. `InteractionInv` has three parts. `Sound` says
what holds even in the middle of a handler: the types; the chain, with an item that is one
of the active menu; that at most one loop drags, that it is the last one, and that `UpdateMenu`, if it
runs, is the first (`LoopsFit`); and that what is dragged is the window of the loop that drags (`Drags`). So when
that loop ends, all is let go. `Asked` is what a menu that is up needs: its context is one that
functions know, with a window where the context calls for one, no loop drags, `UpdateMenu` runs unless
the user is giving up, and the window is there. It fails between the moment when
`do_menu` pops a menu up and that when `UpdateMenu` runs, and while an item is executed whose menu is
being taken down; the lemmas of those say what they leave instead. `Shows` is what a drag that is given up
goes by: until an opaque move has begun to drag, and all the time when an outline is moved, the server still shows
the window where the loop says it was. It fails when a release has put the window down and the loop has not
ended yet, so that it is no part of `Sound`; but nothing that a function does moves a window before its loop has read an event
(`Still`, in `Done`), and a loop that it enters is right about where its window is (`Fresh`), so that what the
handlers go on to do when a drag has ended neither undoes what the press has restored nor leaves `Shows` false.

What is left of an f.function when one of its items enters a loop waits in `rest` of that loop (`RestWaits`). When
the loop has ended, the rest is executed over the loop below, which drags nothing, so that an item may enter another one
(`OneLoopLess`, `DragLoopEnds`); a rest never waits at `UpdateMenu`. The items are executed by a recursive function; what holds
after each is shown of the least item after which it would not (`ItemsExecuted`), as in `Managers`.

### Attention

For any finite list of windows, any places and parts of them there, any workspaces, any setting and
any session (`AttentionAssumption`), `"hurry"` included, so that any number of events
may wait when a client is destroyed:

* **`TypeCorrect`**: `Spec => []TypeOK`.
* **`NothingIsLeftDangling`**: `Spec => []NothingDangles`. `NothingDangles` is not inductive, for
  `HandleDestroyNotify` looks at the saved focus only `if(Scr->SaveWorkspaceFocus)`: `Sane` adds that without
  the variable nothing is saved. The leader of the ring must be on the ring, and not only alive: f.warpring
  looks for it there, and the window it finds gets the focus.

`XOnly(s, t)` says that between two states only the server has moved; `Keeps(s, t)` that no
window is forgotten and the second is sane. Both compose, and every operator of the module
is shown to be in one, from the change of one field up to a handler. Only
`HandleDestroyNotify` goes through states that are not sane: the window is forgotten
(`free`, the saved focus), its unmapping has the server send events, and
`remove_window_from_ring` comes last. `ForgottenIs` says what must be true of the state it
is called in: everything but the four windows to raise or lower, the ring and its leader must already
have been seen to.

### Icon managers

For any finite set of windows, any sequence of managers without repetition, any columns, names
and workspaces, sorted or not, and any session (`ManagersAssumption`):

* **`TheEntriesAgree`**: `ManagersSpec => []EntriesAgree`. `ManagersInv` adds two things. The entry that
  is `Active`, if it is one at all, is on its list: f.forwmapiconmgr makes it Current.
  (`ip->active` is not known to be: `JumpIconManager` only warps to it.) And what
  `PackedAt` says, below.
* **`TheSearchesEnd`**: `ManagersSpec => []SearchesEnd`. `SearchesEnd` says nothing of how rows and
  columns come about. `PackedAt` does: those of a manager that has entries are those that
  `PackIconManager` gives to the entries of its list in their order. Then the row and column of the current
  entry are among those there are (`CellsFit`), and going round the rows or the columns once
  comes back to it (`RoundIs`).

The invariant has two parts. `Linked` relates the lists of the managers to those of the
windows, and every operator keeps it, down to the entry that is added to a manager and to a window or
taken from both (`AddEntryLinks`, `RemoveEntryLinks`). `Homely` says which entries a window should have and
which is the first, and holds between events only: `ChangeOccupation` adds the entries of the
new workspaces first, then changes the occupation, and then takes away the entries it does not call
for. `AddIconManagerIs` and `RemoveIconManagerIs` therefore say what a window has for
a set of workspaces that need not be those it occupies; that the set given to the first has
none of those the window is in already is a hypothesis, and what the "rather odd dance" of
`occupation.c:1196` is there for. `Differs(s, t, F)` says that two states
differ in the fields F of the managers only; every step from field to field is one.

The loops over workspaces, entries and the list that is sorted are recursive functions.
`RecursionExists` shows that there are such functions, and what holds after each round is shown of the least
round after which it would not (`LeastNat`), so that no induction theorem is needed.

### Colormaps

For any finite sets of windows, any colormaps, any lists that clients may give (with windows twice, or
of other clients), any number of colormaps the screen takes, and any session (`ColormapsAssumption`):

* **`ColormapsAreCounted`**: `ColormapsSpec => []CountsAgree`. `CountsAgree` says of the counts what it should,
  but not why a list in force is there. `ColormapsInv` adds three things. The list of a client, if it has one,
  has the client on it (`Listed`), also once the client is dead and its window is looked at no more than by its own
  list: so a list that is fetched anew is never empty, and the one in force does not go. The list of the root is
  the root. A destroy event is of a client (`Deaths`), and where there may be one nothing is pushed
  (`Unpushed`), so that the list of the client that goes is in force or is not pushed either.

The hypothesis `PushAlone` says that no session has both `"push"` and `"destroy"`. Without it the list
that is pushed may be that of a window that is gone, which is a fault of the code (`event_handlers.c:1801`).

Installing counts nothing: `Still(s, t)` says that between two states no count and no list changes, that
the same list is in force and that no client has died. It composes, and `InstallList` with all its requests, the
events they make the server send, and the marks on the scoreboard are shown to be `Still`
(`InstallListStill`). What counts is in three operators: `CreateIs` and `DropIs` for a window that is
looked at once more or less, which moves its colormap's count when it comes or goes, and
`Recolored` for a window that leaves one colormap for another, which may be the same. From them
`TakenUpIs` and `LetGoIs` get the counts after each round of the loops: a window is counted for as often
as it occurs in the part of the list that has been seen (`Occurs`). `FetchSteady` puts them together in the order
of the code, the new list first: between the two loops a window has the places of both lists, and
`free_cwins` frees none that is on the new one. Where the two were exchanged, a window on both would be freed and looked
at anew; the counts would be right, but not the visibility.
`OtherList` is the one fact about cardinalities: with another list, the places of a window are those before,
less those on the old list, and those on the new.

### Layout

For any monitors that have a size, one or many, overlapping or apart, any struts, any places of a
window and any border (`LayoutAssumption`):

* **`StripesAreAlwaysWhole`**: `LayoutSpec => StripesAreWhole`. The areas are sets of points (`PointsIs`).
  `UnionCovers` is the core: what `RAreaHorizontalUnion` makes of two areas covers what the two covered, in
  each of its cases (apart, one over the other, side by side with up to three stripes), and has areas
  with a size only. So no cut loses or adds a point, in whatever order the areas are sorted (`RefinedCovers`,
  `SortCovers`). That the stripes reach from side to side is said of no
  single cut; it follows when nothing is left to cut: two areas that share a row and have no gap between
  them make a union that is not nothing (`Apart`), so a point beside a stripe
  would be of an area that touches it (`StripesReach`). `MakingKeepsAll` carries over to the
  vertical stripes what was shown of the horizontal ones.
* **`UnzoomAlwaysRestores`**: `LayoutSpec => []UnzoomRestores`, which includes the types. `HomeIsKept`: while the
  window is zoomed, what it saved is where it was before the first zoom, and has a size, for
  `ConstrainSize` would change it otherwise on the way back. That every question to a layout gives an area, and
  every zoom one with a size, is shown operator by operator (`FullAre`, `ZoomedIs`, `ConstrainedIs`): also of
  a layout that struts have left without monitors, where no side is found and the answer is made of zeros.

That the cutting ends (`LayoutGetsReady`) is not proved: it needs a measure that every cut makes
smaller. `WindowsStayVisible` is TLC's as well.

### Only model-checked

* Liveness (`HandlersReturn`, `AttentionSettles`, `InstallingEnds`, `LayoutGetsReady`):
  under fairness, out of reach of the proof system.
* `FlagsTellTheTruth`, `PropertiesTell`, `ClientsAreServed`, `RestartKeepsWindows`, `ClientsSurvive`:
  they hold in sessions without `"hurry"` only, where at most the events of one request wait; an inductive
  invariant has to list, for every handler, what may be in the queue and in which order.
  (The half of `FlagsTellTheTruth` about f.occupy is part of `TheDeadAreLetGo`.)
* `FocusIsTrue`, `FocusFollowsPointer`: they speak of the state in which no event is left, in sessions without
  `"hurry"`, `"focus"`, `"unfocus"` and `"active"`; an inductive invariant has to say of every queue what the
  events in it will do to the focus.
* `TopColormapIsInstalled`: it speaks of the state in which no event is left, as `FocusIsTrue` does.
* `LastReleaseFrees`: what a step of `Interaction` may do. An invariant for it has to know of every grab which
  loop or function it is from.
* `Regions`: no proofs. Its places are a tree of splits, and what freeing merges follows by induction over that tree;
  its operators are folds over sequences besides.
* `Geometry` has a recursive operator (`TryToPush`, which calls itself for the windows it
  pushes), so that TLAPS has nothing to say about it.

## Plan

Done: stacking with its abstract specification, its refinement and its theorems; windows, events and
restarts with their theorems; interaction; attention; the five parts.

Left, in this order:

1. Proofs about `Regions`: splitting an entry and merging two keep the tiling (`PlacesAreApart`); about
   `Layout`: that a zoom keeps visible what was (`WindowsStayVisible`).
2. `XStack`: the X server's order next to the list (`XRestackWindows`, reparenting,
   override-redirect windows, the comparison of `OtpCheckConsistency`), composed with `Otp`.

## Not modelled

* **Session management** (`session.c`): the handshake is libSM's; what is ctwm's own compares strings
  of a saved file with strings of windows.
* **Captive ctwm** (`captive.c`): two processes, two properties; each handler reads one and
  acts, and keeps no state.
* **Window boxes** (`windowbox.c`): behind `USE_WINBOX`, off in the default build.
* **Configuration** (`parse*.c`, `gram.y`, `lex.l`, `list.c`): conversion of text. A
  configuration is a set of constants of the models.
* **Drawing** (`win_decorations*.c`, `drawing.c`, `image*.c`, `icons_builtin.c`): output. Of
  `SetupFrame` the place and the size are modelled, of the highlight who has it.
* **Workspace map** (`workspace_manager.c`): its windows mirror what `LifeCycle` and
  `Attention` say; the drag of a window in it ends in a change of occupation.
* **Client lists, Motif hints** (`ewmh.c`, `mwmhints.c`): lists written out in full whenever a window comes or goes.
* **Signals and animation** (`signals.c`, `animate.c`): a flag that is looked at between events. How late
  depends on the clock: without animation `CtwmNextEvent` blocks until an event comes, with
  the flag set (`event_core.c:242`), and the flag of a restart that failed is never cleared
  (`signals.c:79`). There is no property of it that the code is meant to have and that a model would decide.
* **Client tools** and the build: not part of the window manager.
