------------------------------ MODULE Colormaps ------------------------------
(***************************************************************************)
(* The colormaps ctwm installs.  A client lists windows whose colormaps it  *)
(* wants, most important first.  ctwm installs as many as the screen says   *)
(* it takes; if the server then uninstalls one for another it learns from   *)
(* the ColormapNotify, whose serial tells which request was to blame, that  *)
(* the two do not go together, and keeps that on a scoreboard.              *)
(*                                                                          *)
(* An event has no serial here but the two things ctwm asks of it: whether  *)
(* it is as late as first_req, and the colormap whose install_req it has.   *)
(***************************************************************************)
EXTENDS Integers, SequencesExt

CONSTANTS
  Client,           \* windows that ctwm manages
  Sub,              \* windows inside
  root, NoColormap,
  Colormap,
  Default,          \* the colormap of the root
  List,             \* bound: what a client may list in WM_COLORMAP_WINDOWS
  maxCmaps,         \* what the screen says it can install
  Installable,      \* what it can, in truth
  ColormapSessions,         \* bound: what happens, one set for each session
  MaxActs           \* bound: how often

CWindow == Client \cup Sub \cup {root}
Owner == Client \cup {root}
Visibility == {"shown", "hidden"}      \* VisibilityFullyObscured or not

ColormapUse == {"enter", "push", "property", "bump", "visibility", "set", "install", "destroy"}

ASSUME ColormapsAssumption ==
  /\ IsFiniteSet(Client) /\ IsFiniteSet(Sub) /\ root \notin Client \cup Sub
  /\ NoColormap \notin Colormap
  /\ Default \in Colormap
  /\ List \subseteq [Client -> Seq(Client \cup Sub)]
  /\ maxCmaps \in Nat \ {0} /\ Installable \in 1 .. maxCmaps
  /\ ColormapSessions \subseteq SUBSET ColormapUse
  /\ MaxActs \in Nat

VARIABLES
  x,      \* the server: its windows and colormaps, and the events on their way
  wm,     \* ctwm
  user    \* a record of the session: what happens and how often

colormapVars == <<x, wm, user>>

CEvent ==
  [ type : {"cmap"}, w : CWindow, new : BOOLEAN, colormap : Colormap,
    installed : BOOLEAN, fresh : BOOLEAN, by : Colormap \cup {NoColormap} ]
  \cup [type : {"property", "destroy", "enter"}, w : Owner]
  \cup [type : {"visibility"}, w : CWindow, state : Visibility]

XType ==
  [ colormap : [CWindow -> Colormap], visibility : [CWindow -> Visibility],
    installed : Seq(Colormap),             \* the oldest first
    list : [Client -> Seq(Client \cup Sub)], \* WM_COLORMAP_WINDOWS
    dead : SUBSET CWindow,
    queue : Seq(CEvent) ]

WmType ==
  [ cwin : [CWindow -> [refcnt : Nat, colormap : Colormap, visibility : Visibility]],
    cmap : [Colormap -> [refcnt : Nat, installed : BOOLEAN, installable : BOOLEAN,
                         w : CWindow \cup {NoColormap}]],
    cwins : [Owner -> Seq(CWindow)],
    scoreboard : [Owner -> SUBSET (Nat \X Nat)],   \* pairs of places, the greater first
    cmaps : Owner, pushed_cmaps : Owner, root_pushes : Nat,
    ColortableThrashing : BOOLEAN ]

ColormapsTypeOK ==
  x \in XType /\ wm \in WmType /\ user \in [uses : ColormapSessions, acts : 0 .. MaxActs]

NoCmap == [refcnt |-> 0, installed |-> FALSE, installable |-> FALSE, w |-> NoColormap]

Cmaps == [x |-> x, wm |-> wm]
CmapsBecome(s) == x' = s.x /\ wm' = s.wm

(***************************************************************************)
(* The server.                                                              *)
(***************************************************************************)

Notify(s, c, installed, fresh, by) ==
  SetToSeq({[type |-> "cmap", w |-> w, new |-> FALSE, colormap |-> c,
             installed |-> installed, fresh |-> fresh, by |-> by] :
              w \in {v \in CWindow \ s.x.dead : s.x.colormap[v] = c}})

\* The oldest colormap goes if there is no room.
Install(s, c, fresh, by) ==
  LET full == Len(s.x.installed) = Installable
      out == IF full THEN Notify(s, Head(s.x.installed), FALSE, fresh, by) ELSE <<>>
  IN  IF c \in Range(s.x.installed) THEN s
      ELSE [s EXCEPT !.x.installed = Append(IF full THEN Tail(@) ELSE @, c),
                     !.x.queue = @ \o out \o Notify(s, c, TRUE, fresh, by)]

\* ctwm's own request: events of an earlier one no longer have its install_req.
XInstallColormap(s, c) ==
  LET old(e) == IF e.type = "cmap" /\ e.by = c THEN [e EXCEPT !.by = NoColormap] ELSE e
  IN  Install([s EXCEPT !.x.queue = [i \in DOMAIN @ |-> old(@[i])]], c, TRUE, c)

(***************************************************************************)
(* colormaps.c                                                              *)
(***************************************************************************)

MapOf(s, o, i) == s.wm.cwin[s.wm.cwins[o][i]].colormap

\* mutant: windows that are not seen count as well.
GoesInHidden(s, o, i, maps) ==
  \A j \in 1 .. i - 1 : <<i, j>> \in s.wm.scoreboard[o] => MapOf(s, o, j) \notin maps

\* The window at place i is seen and its colormap goes with those chosen.
GoesIn(s, o, i, maps) ==
  /\ s.wm.cwin[s.wm.cwins[o][i]].visibility = "shown"
  /\ \A j \in 1 .. i - 1 : <<i, j>> \in s.wm.scoreboard[o] => MapOf(s, o, j) \notin maps

\* Place i is looked at, after those before it.
Consider(s, o, t, i) ==
  LET maps == {MapOf(s, o, j) : j \in t.chosen}
  IN  IF Cardinality(t.chosen) = maxCmaps \/ MapOf(s, o, i) \in maps THEN t
      ELSE [seen |-> t.seen \cup {i},
            chosen |-> IF GoesIn(s, o, i, maps) THEN t.chosen \cup {i} ELSE t.chosen]

\* The places whose colormaps are to be installed: from the first on, those of
\* windows that are seen and go with all that was chosen before.
Choose(s, o) ==
  LET upto[n \in 0 .. Len(s.wm.cwins[o])] ==
        IF n = 0 THEN [seen |-> {}, chosen |-> {}] ELSE Consider(s, o, upto[n - 1], n)
  IN  upto[Len(s.wm.cwins[o])]

\* A colormap is added to those to install if it is one of them and not there.
OrderToo(maps, list, c) == IF c \in maps \ Range(list) THEN Append(list, c) ELSE list

\* From the last chosen place up to the first, each colormap once.
Order(s, o, chosen) ==
  LET maps == {MapOf(s, o, j) : j \in chosen}
      last == Max(chosen)
      down[k \in 0 .. last] ==
        IF k = 0 THEN <<>> ELSE OrderToo(maps, down[k - 1], MapOf(s, o, last + 1 - k))
  IN  IF chosen = {} THEN <<>> ELSE down[last]

\* One request after the other.
XInstallColormaps(s, order) ==
  LET upto[n \in 0 .. Len(order)] ==
        IF n = 0 THEN s ELSE XInstallColormap(upto[n - 1], order[n])
  IN  upto[Len(order)]

InstallList(s) ==
  LET o == s.wm.cmaps
      c == Choose(s, o)
      order == Order(s, o, c.chosen)
      there == \A m \in Range(order) : s.wm.cmap[m].installed
      last(m) == Max({i \in c.seen : MapOf(s, o, i) = m})
      marked == [m \in Colormap |->
                   IF \E i \in c.seen : MapOf(s, o, i) = m
                   THEN [s.wm.cmap[m] EXCEPT !.installable = TRUE,
                                             !.w = s.wm.cwins[o][last(m)],
                                             !.installed = @ \/ m \in Range(order)]
                   ELSE s.wm.cmap[m]]
      stale(e) == IF e.type = "cmap" THEN [e EXCEPT !.fresh = FALSE] ELSE e
      t == [s EXCEPT !.wm.cmap = marked, !.wm.ColortableThrashing = FALSE,
                     !.x.queue = [i \in DOMAIN @ |-> stale(@[i])]]
  IN  IF there THEN t ELSE XInstallColormaps(t, order)

\* InstallColormaps for EnterNotify, LeaveNotify, DestroyNotify and others.
InstallColormaps(s, o) ==
  LET old == {s.wm.cwin[w].colormap : w \in Range(s.wm.cwins[s.wm.cmaps])}
      pushed == [s EXCEPT !.wm.pushed_cmaps = o]
  IN  IF s.wm.root_pushes > 0 THEN pushed
      ELSE InstallList([pushed EXCEPT
             !.wm.cmaps = o,
             !.wm.cmap = [m \in Colormap |-> IF m \in old
                            THEN [s.wm.cmap[m] EXCEPT !.installable = FALSE]
                            ELSE s.wm.cmap[m]]])

InstallRootColormap(s) ==
  LET t == [InstallColormaps(s, root) EXCEPT !.wm.pushed_cmaps = s.wm.pushed_cmaps]
  IN  [(IF s.wm.root_pushes = 0 THEN t ELSE s) EXCEPT !.wm.root_pushes = @ + 1]

\* What was pushed comes back, unless the pointer has gone elsewhere.
UninstallRootColormap(s) ==
  LET t == [s EXCEPT !.wm.root_pushes = IF @ = 0 THEN 0 ELSE @ - 1]
      crossed == \E i \in DOMAIN s.x.queue : s.x.queue[i].type = "enter"
  IN  IF t.wm.root_pushes > 0 \/ crossed THEN t
      ELSE InstallColormaps(t, t.wm.pushed_cmaps)

\* A colormap has one window more that has it; nothing is known of a new one.
Held(k) == IF k.refcnt > 0 THEN [k EXCEPT !.refcnt = @ + 1] ELSE [NoCmap EXCEPT !.refcnt = 1]

\* A window is looked at for the first time, or once more.
CreateColormapWindow(s, w, visibility) ==
  IF s.wm.cwin[w].refcnt > 0 THEN [s EXCEPT !.wm.cwin[w].refcnt = @ + 1]
  ELSE LET c == s.x.colormap[w]
       IN  [s EXCEPT !.wm.cwin[w] = [refcnt |-> 1, colormap |-> c, visibility |-> visibility],
                     !.wm.cmap[c] = Held(s.wm.cmap[c])]

\* mutant: the colormap of the window is not let go.
DropWindowKeepsColormap(s, w) == [s EXCEPT !.wm.cwin[w].refcnt = @ - 1]

\* One reference to a window less.
DropWindow(s, w) ==
  LET t == [s EXCEPT !.wm.cwin[w].refcnt = @ - 1]
  IN  IF t.wm.cwin[w].refcnt > 0 THEN t
      ELSE [t EXCEPT !.wm.cmap[s.wm.cwin[w].colormap].refcnt = @ - 1]

\* All of a list are let go.
LetGo(s, list) ==
  LET upto[n \in 0 .. Len(list)] == IF n = 0 THEN s ELSE DropWindow(upto[n - 1], list[n])
  IN  upto[Len(list)]

free_cwins(s, o) ==
  [LetGo(s, s.wm.cwins[o]) EXCEPT !.wm.cwins[o] = <<>>, !.wm.scoreboard[o] = {}]

\* The states of all colormaps of a list are forgotten.
ResetStates(s, o) ==
  LET maps == {s.wm.cwin[w].colormap : w \in Range(s.wm.cwins[o])}
  IN  [s EXCEPT !.wm.cmap = [m \in Colormap |-> IF m \in maps
                               THEN [s.wm.cmap[m] EXCEPT !.installed = FALSE,
                                                         !.installable = FALSE]
                               ELSE s.wm.cmap[m]]]

\* Those of a list that there are.
There(s, list) ==
  LET is(w) == w \notin s.x.dead \/ s.wm.cwin[w].refcnt > 0
      upto[n \in 0 .. Len(list)] ==
        IF n = 0 THEN <<>>
        ELSE IF is(list[n]) THEN Append(upto[n - 1], list[n]) ELSE upto[n - 1]
  IN  upto[Len(list)]

\* All of a list are looked at.
TakenUp(s, list) ==
  LET upto[n \in 0 .. Len(list)] ==
        IF n = 0 THEN s ELSE CreateColormapWindow(upto[n - 1], list[n], "shown")
  IN  upto[Len(list)]

\* The list of a client: it is in it, first unless it says otherwise.
FetchWmColormapWindows(s, o) ==
  LET had == s.wm.cwins[o] # <<>>
      previnst == s.wm.cmaps = o /\ had
      list == s.x.list[o]
      all == IF o \in Range(list) THEN list ELSE <<o>> \o list
      there == There(s, all)
      taken == TakenUp(IF previnst THEN ResetStates(s, o) ELSE s, there)
      new == [free_cwins(taken, o) EXCEPT !.wm.cwins[o] = there]
  IN  IF previnst THEN InstallList(new) ELSE new

\* A list turned by one: each place gets the window of the next or the one before.
Rotated(list, inc) ==
  LET n == Len(list)
      from(j) == IF j + inc > n THEN j + inc - n ELSE IF j + inc < 1 THEN j + inc + n ELSE j + inc
  IN  [j \in 1 .. n |-> list[from(j)]]

\* f.colormap rotates the list.
BumpWindowColormap(s, o, inc) ==
  LET t == [(IF s.wm.cmaps = o THEN ResetStates(s, o) ELSE s)
              EXCEPT !.wm.cwins[o] = Rotated(@, inc), !.wm.scoreboard[o] = {}]
  IN  IF inc = 0 THEN FetchWmColormapWindows(s, o)
      ELSE IF s.wm.cmaps = o THEN InstallList(t) ELSE t

(***************************************************************************)
(* The events.                                                              *)
(***************************************************************************)

\* A window has another colormap.
NewColormap(s, e) ==
  LET c == s.wm.cwin[e.w].colormap
      t == [s EXCEPT !.wm.cwin[e.w].colormap = e.colormap,
                     !.wm.cmap[e.colormap] = Held(s.wm.cmap[e.colormap])]
      k == t.wm.cmap[c]
      u == [t EXCEPT !.wm.cmap[c] = [k EXCEPT !.refcnt = k.refcnt - 1, !.installed = e.installed]]
  IN  IF u.wm.cmap[c].installable THEN InstallList(u) ELSE u

\* mutant: conflicts are not written down.
MarkConflictNever(s, lost, won) == s

\* The colormaps at two places do not go together.
MarkConflict(s, lost, won) ==
  [s EXCEPT !.wm.scoreboard[s.wm.cmaps] =
     @ \cup {IF lost > won THEN <<lost, won>> ELSE <<won, lost>>}]

\* The server took a colormap away that ctwm wants: for which other one?
Lost(s, e) ==
  LET list == s.wm.cwins[s.wm.cmaps]
      c == s.wm.cwin[e.w].colormap
      t == [s EXCEPT !.wm.cmap[c].installed = FALSE, !.wm.ColortableThrashing = TRUE]
      places == {i \in DOMAIN list : list[i] = e.w}
      lost == IF places = {} THEN 0 ELSE Min(places)
      winners == {n \in DOMAIN list \ {lost} :
                    e.by # NoColormap /\ s.wm.cwin[list[n]].colormap = e.by}
  IN  CASE ~e.fresh -> t
        [] e.fresh /\ winners # {} /\ lost # 0 ->
             MarkConflict(t, lost, CHOOSE n \in winners : \A m \in winners : n <= m)
        [] e.fresh /\ winners # {} /\ lost = 0 -> [t EXCEPT !.wm.cmap[c].installed = TRUE]
        [] e.fresh /\ winners = {} /\ lost # 0 -> InstallList(t)
        [] OTHER -> [t EXCEPT !.wm.ColortableThrashing = FALSE]

HandleColormapNotify(s, e) ==
  LET c == s.wm.cwin[e.w].colormap
      lost == ~e.installed /\ s.wm.cmap[c].installable
  IN  CASE s.wm.cwin[e.w].refcnt = 0 -> s
        [] s.wm.cwin[e.w].refcnt > 0 /\ e.new -> NewColormap(s, e)
        [] s.wm.cwin[e.w].refcnt > 0 /\ ~e.new /\ lost ->
             IF s.wm.cmap[c].installed THEN Lost(s, e) ELSE s
        [] OTHER -> [s EXCEPT !.wm.cmap[c].installed = e.installed]

HandleVisibilityNotify(s, e) ==
  LET cwin == s.wm.cwin[e.w]
      t == [s EXCEPT !.wm.cwin[e.w].visibility = e.state]
  IN  IF cwin.refcnt = 0 THEN s
      ELSE IF /\ s.wm.cmap[cwin.colormap].installable
              /\ e.state # cwin.visibility
              /\ s.wm.cmap[cwin.colormap].w = e.w
           THEN InstallList(t) ELSE t

DestroyColormaps(s, o) ==
  LET t == IF s.wm.cmaps = o THEN InstallColormaps(s, root) ELSE s
  IN  free_cwins(t, o)

owning(s) == {o \in Client : s.wm.cwins[o] # <<>>}

HandleOther(s, e) ==
  CASE e.type = "visibility" -> HandleVisibilityNotify(s, e)
    [] e.type = "enter" -> IF e.w \in owning(s) \cup {root}
                           THEN InstallColormaps(s, e.w) ELSE s
    [] e.type = "property" -> IF e.w \in owning(s) THEN FetchWmColormapWindows(s, e.w) ELSE s
    [] e.type = "destroy" -> DestroyColormaps(s, e.w)

(***************************************************************************)
(* The steps.                                                               *)
(***************************************************************************)

\* ctwm has started: the root colormap is installed and all clients are looked at.
ColormapsStarted(colors) ==
  LET none == [w \in CWindow |-> [refcnt |-> 0, colormap |-> Default, visibility |-> "shown"]]
      start == [x |-> [colormap |-> [w \in CWindow |-> IF w = root THEN Default ELSE colors[w]],
                       visibility |-> [w \in CWindow |-> "shown"],
                       installed |-> <<Default>>, list |-> [o \in Client |-> <<>>],
                       dead |-> {}, queue |-> <<>>],
                wm |-> [cwin |-> none, cmap |-> [c \in Colormap |-> NoCmap],
                        cwins |-> [o \in Owner |-> <<>>],
                        scoreboard |-> [o \in Owner |-> {}],
                        cmaps |-> root, pushed_cmaps |-> root, root_pushes |-> 0,
                        ColortableThrashing |-> FALSE]]
      withroot == [CreateColormapWindow(start, root, "shown") EXCEPT !.wm.cwins[root] = <<root>>]
      clients == SetToSeq(Client)
      upto[n \in 0 .. Len(clients)] ==
        IF n = 0 THEN InstallColormaps(withroot, root)
        ELSE FetchWmColormapWindows(upto[n - 1], clients[n])
  IN  upto[Len(clients)]

ColormapsInit ==
  /\ \E colors \in [Client \cup Sub -> Colormap] :
       /\ x = ColormapsStarted(colors).x
       /\ wm = ColormapsStarted(colors).wm
  /\ user \in [uses : ColormapSessions, acts : {0}]

HandleEvent ==
  /\ x.queue # <<>>
  /\ LET s == [Cmaps EXCEPT !.x.queue = Tail(@)]
     IN  CmapsBecome(IF Head(x.queue).type = "cmap" THEN HandleColormapNotify(s, Head(x.queue))
                 ELSE HandleOther(s, Head(x.queue)))
  /\ UNCHANGED user

\* The head of the loop of HandleEvents.
Thrashing ==
  /\ x.queue = <<>> /\ wm.ColortableThrashing
  /\ CmapsBecome(InstallList(Cmaps))
  /\ UNCHANGED user

\* Bound: nobody acts while more than one event is waiting.
UserActs(use) ==
  /\ use \in user.uses /\ user.acts < MaxActs /\ Len(x.queue) <= 1
  /\ user' = [user EXCEPT !.acts = @ + 1]

Sent(events) == CmapsBecome([Cmaps EXCEPT !.x.queue = @ \o events])

PointerEnters ==
  /\ UserActs("enter")
  /\ \E o \in Owner \ x.dead : Sent(<<[type |-> "enter", w |-> o]>>)

\* A menu comes up, or f.move or f.resize begins; and its end.
Push == UserActs("push") /\ wm.root_pushes < 2 /\ CmapsBecome(InstallRootColormap(Cmaps))
Pop == UserActs("push") /\ wm.root_pushes > 0 /\ CmapsBecome(UninstallRootColormap(Cmaps))

Bump ==
  /\ UserActs("bump")
  /\ \E o \in owning(Cmaps), inc \in {-1, 0, 1} : CmapsBecome(BumpWindowColormap(Cmaps, o, inc))

SetList ==
  /\ UserActs("property")
  /\ \E list \in List, o \in Client \ x.dead :
       /\ x.list[o] # list[o]
       /\ CmapsBecome([Cmaps EXCEPT !.x.list[o] = list[o],
                              !.x.queue = Append(@, [type |-> "property", w |-> o])])

Obscure ==
  /\ UserActs("visibility")
  /\ \E w \in (Client \cup Sub) \ x.dead : \E v \in Visibility \ {x.visibility[w]} :
       CmapsBecome([Cmaps EXCEPT !.x.visibility[w] = v,
                           !.x.queue = Append(@, [type |-> "visibility", w |-> w, state |-> v])])

SetColormap ==
  /\ UserActs("set")
  /\ \E w \in (Client \cup Sub) \ x.dead : \E c \in Colormap \ {x.colormap[w]} :
       CmapsBecome([Cmaps EXCEPT !.x.colormap[w] = c,
                           !.x.queue = Append(@, [type |-> "cmap", w |-> w, new |-> TRUE,
                             colormap |-> c, installed |-> c \in Range(x.installed),
                             fresh |-> FALSE, by |-> NoColormap])])

\* A client installs a colormap, which it should not.  The serial of the event is
\* that of ctwm's last request, whatever that was.
ClientInstall ==
  /\ UserActs("install")
  /\ \E c \in Colormap, fresh \in BOOLEAN, by \in {NoColormap, Last(x.installed)} :
       /\ by # NoColormap => fresh
       /\ CmapsBecome(Install(Cmaps, c, fresh, by))

\* Bound: only without "push", see the README.
ClientDestroy ==
  /\ UserActs("destroy")
  /\ \E o \in Client \ x.dead :
       CmapsBecome([Cmaps EXCEPT !.x.dead = @ \cup {o},
                           !.x.queue = Append(@, [type |-> "destroy", w |-> o])])

ColormapsNext ==
  \/ HandleEvent \/ Thrashing
  \/ PointerEnters \/ Push \/ Pop \/ Bump \/ SetList \/ Obscure \/ SetColormap \/ ClientInstall
  \/ ClientDestroy

ColormapsSpec == ColormapsInit /\ [][ColormapsNext]_colormapVars

(***************************************************************************)
(* Properties.                                                              *)
(***************************************************************************)

\* The places of a window on lists.
PlacesOnLists(cwins, w) ==
  UNION {{<<o, i>> : i \in {j \in DOMAIN cwins[o] : cwins[o][j] = w}} : o \in Owner}

\* What is freed is what nothing refers to: a window is counted once for every
\* place on a list, a colormap once for every window looked at that has it, and
\* the list in force is one that is there (free_cwins, HandleColormapNotify).
CountsAgree ==
  /\ ColormapsTypeOK
  /\ \A w \in CWindow : wm.cwin[w].refcnt = Cardinality(PlacesOnLists(wm.cwins, w))
  /\ \A c \in Colormap : wm.cmap[c].refcnt =
       Cardinality({w \in CWindow : wm.cwin[w].refcnt > 0 /\ wm.cwin[w].colormap = c})
  /\ {wm.cmaps, wm.pushed_cmaps} \subseteq owning(Cmaps) \cup {root}

ColormapsSettled == x.queue = <<>> /\ ~wm.ColortableThrashing

\* Once everything is handled, the first window of the list in force that is
\* seen has its colormap, whatever was listed, obscured and pushed meanwhile.
\* (Not so when a colormap is changed, installed by a client or destroyed: the
\* README says how HandleColormapNotify goes wrong then.)
TopColormapIsInstalled ==
  LET list == wm.cwins[wm.cmaps]
      i == SelectInSeq(list, LAMBDA w : wm.cwin[w].visibility = "shown")
  IN  ColormapsSettled /\ i # 0 /\ user.uses \cap {"set", "install", "destroy"} = {}
        => wm.cwin[list[i]].colormap \in Range(x.installed)

\* The event loop goes on (the condition under which it can is written out).
ColormapsFair ==
  []<>ColormapsSettled \/ []<><<HandleEvent \/ Thrashing>>_colormapVars

ColormapsFairSpec == ColormapsSpec /\ ColormapsFair

\* No colormap is on two places of a list.
EachOnce ==
  \A o \in Owner : IsInjective([i \in DOMAIN wm.cwins[o] |-> MapOf(Cmaps, o, i)])

\* ctwm and the server do not fight for ever over colormaps that do not go
\* together: what the scoreboard is for.  (With a colormap at two places only
\* the first of them is marked, and they may.)
InstallingEnds == []EachOnce => []<>ColormapsSettled

=============================================================================
