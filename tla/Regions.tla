------------------------------ MODULE Regions --------------------------------
(***************************************************************************)
(* Icon regions and window regions.  A region is a list of entries; to      *)
(* place an icon or a window an entry is split in up to three, and when it  *)
(* goes the entry joins its free neighbours in the list again.  Windows are *)
(* iconified, hidden with their workspace, shown, renamed and destroyed,    *)
(* and every path has to take a place exactly once and give it back.        *)
(***************************************************************************)
EXTENDS Integers, FiniteSets, SequencesExt

CONSTANTS
  Nobody, NoIcon, Plain,
  IWin,             \* the windows
  RegionWorkSpace,  \* the workspaces, in the order of the list: 1, 2, ...
  IconRegions,      \* the IconRegions, in the order of the configuration
  WindowRegions,    \* the WindowRegions
  FrameSize,        \* of each window
  Names, TitleWidth,
  FirstName,        \* bound: of each window, what it is called at first
  LaterNames,       \* bound: of each window, what it may be called later
  FirstOcc,         \* bound: of each window, where it may be at first
  LaterOcc,         \* bound: and where later, each a set of workspaces
  Pattern,          \* of each name: its pattern in Icons, or Plain
  ImageSize,        \* of the image of each pattern, and of Plain
  TitleHeight,
  Leader,           \* of each window: the window it is transient for, or Nobody
  IconWindow,       \* the size of the icon window that some windows bring
  FarAway,          \* the windows listed in UnmapByMovingFarAway
  Spots,            \* bound: where the user drags icons
  RegionSessions    \* bound: what happens together in one behaviour

VARIABLES
  icons,        \* of each IconRegion, its entries
  placed,       \* of each workspace and WindowRegion, its entries
  iw,           \* of each window, what it is like
  shown,        \* the current workspace
  does          \* the session

regionVars == <<icons, placed, iw, shown, does>>

NewEntry(r) == [x |-> r.x, y |-> r.y, w |-> r.w, h |-> r.h, used |-> FALSE, win |-> Nobody]

\* Cut off n at the side of a gravity; the rest comes next in the list.
Cut(e, grav, n) ==
  CASE grav \in {"east", "west"} /\ n = e.w -> <<e>>
    [] grav \in {"north", "south"} /\ n = e.h -> <<e>>
    [] grav = "west" -> <<[e EXCEPT !.w = n], [e EXCEPT !.x = @ + n, !.w = @ - n]>>
    [] grav = "east" -> <<[e EXCEPT !.x = @ + e.w - n, !.w = n], [e EXCEPT !.w = @ - n]>>
    [] grav = "north" -> <<[e EXCEPT !.h = n], [e EXCEPT !.y = @ + n, !.h = @ - n]>>
    [] grav = "south" -> <<[e EXCEPT !.y = @ + e.h - n, !.h = n], [e EXCEPT !.h = @ - n]>>

\* A column of the width, from it a row of the height.  (The grammar has the
\* vertical gravity first.)
splitIconRegionEntry(e, r, w, h) ==
  LET cols == Cut(e, r.grav2, w)
      rows == Cut(cols[1], r.grav1, h)
  IN  rows \o Tail(cols)

splitWindowRegionEntry(e, r, w, h) == splitIconRegionEntry(e, r, w, h)

\* Entries that fit, as places <<region, index>>; size is wanted of each region.
Fits(lists, regions, size) ==
  {p \in UNION {{r} \X DOMAIN lists[r] : r \in regions} :
     LET e == lists[p[1]][p[2]]
     IN  ~e.used /\ e.w >= size[p[1]][1] /\ e.h >= size[p[1]][2]}

FirstFit(places) ==
  CHOOSE p \in places : \A q \in places : p[1] < q[1] \/ (p[1] = q[1] /\ p[2] <= q[2])

\* The entry is used for a window; pieces are what it is split into.
Taken(lists, p, pieces, who) ==
  [lists EXCEPT ![p[1]] =
     SubSeq(@, 1, p[2] - 1) \o <<[pieces[1] EXCEPT !.used = TRUE, !.win = who]>>
       \o Tail(pieces) \o SubSeq(@, p[2] + 1, Len(@))]

(***************************************************************************)
(* Giving back.                                                             *)
(***************************************************************************)

Joins(a, e) == ~a.used /\ ((a.x = e.x /\ a.w = e.w) \/ (a.y = e.y /\ a.h = e.h))

\* mutant: the corner stays.
mergeEntriesKeepsCorner(old, e) ==
  IF old.y = e.y THEN [e EXCEPT !.w = @ + old.w] ELSE [e EXCEPT !.h = @ + old.h]

\* What an entry becomes that takes in old.
mergeEntries(old, e) ==
  IF old.y = e.y THEN [e EXCEPT !.w = @ + old.w, !.x = Min({@, old.x})]
  ELSE [e EXCEPT !.h = @ + old.h, !.y = Min({@, old.y})]

\* mutant: only the entry after it is looked at.
MergeOnceForward(s) ==
  IF s.at < Len(s.list) /\ Joins(s.list[s.at + 1], s.list[s.at])
  THEN [list |-> RemoveAt([s.list EXCEPT ![s.at] = mergeEntries(s.list[s.at + 1], @)], s.at + 1),
        at |-> s.at]
  ELSE s

\* An entry joins the one before it, or else the one after it.
MergeOnce(s) ==
  LET e == s.list[s.at]
      ip == s.list[s.at - 1]
      in == s.list[s.at + 1]
  IN  CASE s.at > 1 /\ Joins(s.list[s.at - 1], e) ->
             [list |-> RemoveAt([s.list EXCEPT ![s.at - 1] = mergeEntries(e, ip)], s.at),
              at |-> s.at - 1]
        [] ~(s.at > 1 /\ Joins(s.list[s.at - 1], e)) /\ s.at < Len(s.list)
             /\ Joins(s.list[s.at + 1], e) ->
             [list |-> RemoveAt([s.list EXCEPT ![s.at] = mergeEntries(in, e)], s.at + 1),
              at |-> s.at]
        [] OTHER -> s

Rejoined(list, at) ==
  LET free == [list EXCEPT ![at].used = FALSE, ![at].win = Nobody]
      after[n \in 0 .. Len(list)] ==
        IF n = 0 THEN [list |-> free, at |-> at] ELSE MergeOnce(after[n - 1])
  IN  after[Len(list)].list

\* The places of a window, in the order they are found.
PlacesOf(lists, who) ==
  {p \in UNION {{r} \X DOMAIN lists[r] : r \in DOMAIN lists} : lists[p[1]][p[2]].win = who}

GivenBack(lists, who) ==
  LET p == FirstFit(PlacesOf(lists, who))
  IN  IF PlacesOf(lists, who) = {} THEN lists ELSE [lists EXCEPT ![p[1]] = Rejoined(@, p[2])]

(***************************************************************************)
(* Icons.  s is the state [icons, iw] that the functions hand on.           *)
(***************************************************************************)

roundUp(v, multiple) == ((v + multiple - 1) \div multiple) * multiple

IconVisible(x) == x.vs
IconOf(x) == x.made[x.icon]

\* Scr->IconJustification, of icons that are in no region: its default.
IconJustification == "center"

\* A configuration that a session may have.
ShrinkIconTitles == "shrink" \in does

PlaceWidth(icon) == IF ShrinkIconTitles THEN icon.width ELSE icon.w_width

GetIconOffset(icon) ==
  CASE icon.just = "left" -> 0
    [] icon.just = "center" -> (icon.w_width - icon.width) \div 2
    [] icon.just = "right" -> icon.w_width - icon.width

\* In the middle of the entry.  ReshapeIcon moves the image in the icon to where
\* the justification of the region wants it.  An icon that finds no room is of no
\* region any more, and stays where it was.
PlaceIcon(s, w) ==
  LET icon == IconOf(s.iw[w])
      size == [r \in DOMAIN IconRegions |->
                 <<roundUp(PlaceWidth(icon), IconRegions[r].stepx),
                   roundUp(icon.w_height, IconRegions[r].stepy)>>]
      own == Fits(s.icons, {r \in DOMAIN IconRegions : w \in IconRegions[r].wins}, size)
      all == Fits(s.icons, DOMAIN IconRegions, size)
      p == FirstFit(IF own # {} THEN own ELSE all)
      r == IconRegions[p[1]]
      pieces == splitIconRegionEntry(s.icons[p[1]][p[2]], r, size[p[1]][1], size[p[1]][2])
      e == pieces[1]
      shaped == [icon EXCEPT !.just = r.just]
      x0 == e.x + (e.w - PlaceWidth(icon)) \div 2
  IN  IF all = {} THEN [s EXCEPT !.iw[w].made[s.iw[w].icon].just = IconJustification]
      ELSE [icons |-> Taken(s.icons, p, pieces, w),
            iw |-> [s.iw EXCEPT ![w].made[s.iw[w].icon] = shaped, ![w].moved = FALSE,
                      ![w].at = <<IF ShrinkIconTitles THEN x0 - GetIconOffset(shaped) ELSE x0,
                                  e.y + (e.h - icon.w_height) \div 2>>]]

\* The middle of an icon that the user has put outside the regions.
InRegion(x) ==
  \E r \in DOMAIN IconRegions :
    /\ x.at[1] + IconOf(x).w_width \div 2 \in
         IconRegions[r].x .. (IconRegions[r].x + IconRegions[r].w - 1)
    /\ x.at[2] + IconOf(x).w_height \div 2 \in
         IconRegions[r].y .. (IconRegions[r].y + IconRegions[r].h - 1)

IconUp(s, w) == IF s.iw[w].moved /\ ~InRegion(s.iw[w]) THEN s ELSE PlaceIcon(s, w)

IconDown(s, w) == [s EXCEPT !.icons = GivenBack(@, w)]

\* The icon that the names of a window ask for.
LookupIconNameOrClass(w, name) == IF w \in DOMAIN IconWindow THEN Plain ELSE Pattern[name]

IconOfSize(width, height) ==
  [width |-> width, w_width |-> width, w_height |-> height, shrunk |-> FALSE,
   just |-> IconJustification]

NewIcon(kind, name) ==
  LET wide == Max({TitleWidth[name], ImageSize[kind][1]})
  IN  [width |-> IF kind = Plain THEN wide ELSE ImageSize[kind][1], w_width |-> wide,
       w_height |-> ImageSize[kind][2] + TitleHeight,
       shrunk |-> ShrinkIconTitles /\ kind # Plain, just |-> IconJustification]

CreateIconWindow(s, w) ==
  LET kind == LookupIconNameOrClass(w, s.iw[w].name)
      icon == IF w \in DOMAIN IconWindow THEN IconOfSize(IconWindow[w][1], IconWindow[w][2])
              ELSE NewIcon(kind, s.iw[w].name)
      made == [s EXCEPT !.iw[w].icon = kind, !.iw[w].at = <<0, 0>>,
                        !.iw[w].listed = @ \cup ({kind} \ {Plain}),
                        !.iw[w].made[kind] = icon]
  IN  IF IconVisible(s.iw[w]) THEN PlaceIcon(made, w) ELSE made

RedoIconTitle(s, w) ==
  LET x == s.iw[w]
      sized == [s EXCEPT !.iw[w].made[x.icon].w_width =
                  Max({TitleWidth[x.name], IconOf(x).width})]
  IN  IF x.icon = NoIcon \/ w \in DOMAIN IconWindow THEN s
      ELSE IF ShrinkIconTitles /\ IconOf(x).shrunk /\ x.icon_on /\ IconVisible(x)
      THEN IconUp(IconDown(sized, w), w)
      ELSE sized

\* Plain icons stay.  The icon of a new pattern is made, or taken from iconslist.
RedoIcon(s, w) ==
  LET x == s.iw[w]
      pattern == LookupIconNameOrClass(w, x.name)
      up == x.icon_on /\ IconVisible(x)
      down == IF up THEN IconDown(s, w) ELSE s
      other == [down EXCEPT !.iw[w].icon = pattern]
      none == [s EXCEPT !.iw[w].icon = NoIcon]
      again == IF pattern \in x.listed THEN IF up THEN IconUp(other, w) ELSE other
               ELSE IF up THEN CreateIconWindow(down, w) ELSE none
  IN  RedoIconTitle(IF Plain \in {x.icon, pattern} \/ pattern = x.icon THEN s ELSE again, w)

(***************************************************************************)
(* The windows.                                                             *)
(***************************************************************************)

HasIcon(x) == x.icon # NoIcon

\* Others that go with a window: its transients.
Followers(w) == {t \in IWin : iw[t].managed /\ Leader[t] = w}

UnmapTransients(s, w) ==
  [s EXCEPT !.iw = [t \in IWin |->
     IF t \in Followers(w) THEN [@[t] EXCEPT !.mapped = FALSE, !.isicon = TRUE, !.icon_on = FALSE]
     ELSE @[t]]]

\* The icon that is on has to be there: its window is zoomed from.
ReMapOne(s, w) ==
  LET down == IF HasIcon(s.iw[w]) THEN IconDown(s, w) ELSE s
      x == s.iw[w]
      icon == [down EXCEPT !.iw[w].made[x.icon].shrunk = ShrinkIconTitles \/ @]
      title == IF HasIcon(x) THEN icon ELSE down
  IN  [title EXCEPT !.iw[w].mapped = TRUE, !.iw[w].isicon = FALSE, !.iw[w].icon_on = FALSE]

Ordered(set) == CHOOSE s \in SetToSeqs(set) : TRUE

IconifyWindow(s, w) ==
  LET x == s.iw[w]
      t == Leader[w]
      on == ~(t # Nobody /\ s.iw[t].managed /\ s.iw[t].icon_on)
      up == CASE ~on -> s
              [] on /\ ~HasIcon(x) -> CreateIconWindow(s, w)
              [] on /\ HasIcon(x) -> IconUp(s, w)
      after == UnmapTransients(up, w)
  IN  [after EXCEPT !.iw[w].mapped = FALSE, !.iw[w].isicon = TRUE, !.iw[w].icon_on = on]

DeIconifyWindow(s, w) == FoldLeft(ReMapOne, ReMapOne(s, w), Ordered(Followers(w)))

Vanish(s, w) ==
  LET x == s.iw[w]
      down == IF w \notin FarAway /\ ~x.mapped /\ x.icon_on /\ HasIcon(x) THEN IconDown(s, w)
              ELSE s
  IN  [down EXCEPT !.iw[w].vs = FALSE]

DisplayWin(s, w) ==
  LET x == s.iw[w]
      vs == [s EXCEPT !.iw[w].vs = TRUE]
  IN  IF x.isicon /\ x.icon_on /\ HasIcon(x) THEN IconUp(vs, w) ELSE vs

(***************************************************************************)
(* Window regions.                                                          *)
(***************************************************************************)

\* AddWindowRegion keeps only the first of the list; every workspace has a copy.
CreateWindowRegions ==
  [ws \in RegionWorkSpace |-> [r \in {1} \cap DOMAIN WindowRegions |-> <<NewEntry(WindowRegions[r])>>]]

PlaceWindowInRegion(all, w, occ, width, height) ==
  LET ws == Min(occ)
      lists == all[ws]
      p == FirstFit(Fits(lists, {r \in DOMAIN lists : w \in WindowRegions[r].wins},
                         [r \in DOMAIN lists |-> <<width, height>>]))
      r == WindowRegions[p[1]]
  IN  IF Fits(lists, {q \in DOMAIN lists : w \in WindowRegions[q].wins},
              [q \in DOMAIN lists |-> <<width, height>>]) = {} THEN all
      ELSE [all EXCEPT ![ws] =
              Taken(lists, p, splitWindowRegionEntry(lists[p[1]][p[2]], r, width, height), w)]

\* The first workspace that has an entry for it.
RemoveWindowFromRegion(all, w) ==
  LET has == {ws \in RegionWorkSpace : PlacesOf(all[ws], w) # {}}
  IN  IF has = {} THEN all ELSE [all EXCEPT ![Min(has)] = GivenBack(@, w)]

(***************************************************************************)
(* The steps.                                                               *)
(***************************************************************************)

Becomes(s) == icons' = s.icons /\ iw' = s.iw
RegionsNow == [icons |-> icons, iw |-> iw]

Unmanaged(n) ==
  [managed |-> FALSE, occ |-> {}, vs |-> FALSE, mapped |-> FALSE, isicon |-> FALSE,
   icon_on |-> FALSE, icon |-> NoIcon, listed |-> {}, name |-> n, moved |-> FALSE,
   at |-> <<0, 0>>, made |-> [k \in DOMAIN ImageSize |-> IconOfSize(0, 0)]]

RegionsInit ==
  /\ icons = [r \in DOMAIN IconRegions |-> <<NewEntry(IconRegions[r])>>]
  /\ placed = CreateWindowRegions
  /\ iw = [w \in IWin |-> Unmanaged(FirstName[w])]
  /\ shown = 1
  /\ does \in RegionSessions

\* A region is asked before the window has got its frame: the size is 0 by 0.
AddRegionWindow(w, occ) ==
  /\ ~iw[w].managed
  /\ Leader[w] # Nobody => iw[Leader[w]].managed
  /\ iw' = [iw EXCEPT ![w] = [Unmanaged(FirstName[w]) EXCEPT !.managed = TRUE, !.occ = occ, !.mapped = TRUE,
                                                  !.vs = shown \in occ]]
  /\ placed' = PlaceWindowInRegion(placed, w, occ, 0, 0)
  /\ UNCHANGED <<icons, shown, does>>

DestroyRegionWindow(w) ==
  /\ iw[w].managed /\ "destroy" \in does
  /\ placed' = RemoveWindowFromRegion(placed, w)
  /\ LET s == IF HasIcon(iw[w]) /\ w \notin DOMAIN IconWindow
              THEN IconDown(RegionsNow, w) ELSE RegionsNow
     IN  Becomes([s EXCEPT !.iw[w] = Unmanaged(FirstName[w])])
  /\ UNCHANGED <<shown, does>>

\* By the user, or by the client, which may be on another workspace.
f_iconify(w) ==
  /\ iw[w].managed /\ ~iw[w].isicon /\ (IconVisible(iw[w]) \/ "away" \in does)
  /\ Becomes(IconifyWindow(RegionsNow, w))
  /\ UNCHANGED <<placed, shown, does>>

f_deiconify(w) ==
  /\ iw[w].managed /\ iw[w].isicon /\ (iw[w].icon_on => HasIcon(iw[w]))
  /\ Becomes(DeIconifyWindow(RegionsNow, w))
  /\ UNCHANGED <<placed, shown, does>>

\* What is to be seen comes first, the rest goes then.
GotoRegionWorkSpace(ws) ==
  /\ ws # shown
  /\ \E order \in SetToSeqs({w \in IWin : iw[w].managed /\ ws \in iw[w].occ /\ ~iw[w].vs}) :
       LET displayed == FoldLeft(DisplayWin, RegionsNow, order)
       IN  Becomes(FoldLeft(Vanish, displayed,
                            Ordered({w \in IWin : iw[w].vs /\ ws \notin iw[w].occ})))
  /\ shown' = ws
  /\ UNCHANGED <<placed, does>>

\* Only the first of the workspaces it had is looked at for the window regions.
ChangeRegionOccupation(w, occ) ==
  /\ iw[w].managed /\ occ # iw[w].occ /\ "occupy" \in does
  /\ LET s == [RegionsNow EXCEPT !.iw[w].occ = occ]
     IN  Becomes(CASE iw[w].vs /\ shown \notin occ -> Vanish(s, w)
                   [] ~iw[w].vs /\ shown \in occ -> DisplayWin(s, w)
                   [] OTHER -> s)
  /\ placed' = IF Min(iw[w].occ) \in occ THEN placed
               ELSE PlaceWindowInRegion(RemoveWindowFromRegion(placed, w), w, occ,
                                        FrameSize[w][1], FrameSize[w][2])
  /\ UNCHANGED <<shown, does>>

\* A new icon name.  Bound: not while the window is iconified and no icon of it to
\* be seen, except in a session for it.
apply_window_icon_name(w, n) ==
  /\ iw[w].managed /\ n # iw[w].name /\ "rename" \in does
  /\ iw[w].isicon /\ ~(iw[w].icon_on /\ IconVisible(iw[w])) => "renameaway" \in does
  /\ Becomes(RedoIcon([RegionsNow EXCEPT !.iw[w].name = n], w))
  /\ UNCHANGED <<placed, shown, does>>

MoveIcon(w, spot) ==
  /\ iw[w].managed /\ iw[w].icon_on /\ HasIcon(iw[w]) /\ IconVisible(iw[w]) /\ "drag" \in does
  /\ spot # iw[w].at
  /\ iw' = [iw EXCEPT ![w].at = spot, ![w].moved = TRUE]
  /\ UNCHANGED <<icons, placed, shown, does>>

RegionsNext ==
  \/ \E w \in IWin : \E occ \in LaterOcc[w] : ChangeRegionOccupation(w, occ)
  \/ \E w \in IWin : \E occ \in FirstOcc[w] : AddRegionWindow(w, occ)
  \/ \E w \in IWin : DestroyRegionWindow(w) \/ f_iconify(w) \/ f_deiconify(w)
  \/ \E w \in IWin : \E n \in LaterNames[w] : apply_window_icon_name(w, n)
  \/ \E w \in IWin, spot \in Spots : MoveIcon(w, spot)
  \/ \E ws \in RegionWorkSpace : GotoRegionWorkSpace(ws)

RegionsSpec == RegionsInit /\ [][RegionsNext]_regionVars

(***************************************************************************)
(* Properties.                                                              *)
(***************************************************************************)

RegionEntry == [x : Int, y : Int, w : Nat, h : Nat, used : BOOLEAN, win : IWin \cup {Nobody}]
IconKind == DOMAIN ImageSize
IconType ==
  [width : Nat, w_width : Nat, w_height : Nat, shrunk : BOOLEAN, just : {"left", "center", "right"}]

RegionsTypeOK ==
  /\ DOMAIN icons = DOMAIN IconRegions /\ \A r \in DOMAIN icons : icons[r] \in Seq(RegionEntry)
  /\ \A ws \in RegionWorkSpace : placed[ws] \in Seq(Seq(RegionEntry))
  /\ iw \in [IWin -> [managed : BOOLEAN, occ : SUBSET RegionWorkSpace, vs : BOOLEAN,
                      mapped : BOOLEAN, isicon : BOOLEAN, icon_on : BOOLEAN,
                      icon : IconKind \cup {NoIcon}, listed : SUBSET IconKind, name : Names,
                      moved : BOOLEAN, at : Int \X Int, made : [IconKind -> IconType]]]
  /\ shown \in RegionWorkSpace /\ does \in RegionSessions

Cells(e) == (e.x .. e.x + e.w - 1) \X (e.y .. e.y + e.h - 1)

\* The entries cover the region, and no cell of it twice.
Tiles(list, r) ==
  /\ UNION {Cells(list[i]) : i \in DOMAIN list} = Cells(NewEntry(r))
  /\ \A i, j \in DOMAIN list : i # j => Cells(list[i]) \cap Cells(list[j]) = {}
  /\ \A i \in DOMAIN list : list[i].used <=> list[i].win # Nobody

\* The entries of every region are a tiling of it.
RegionsAreTiled ==
  /\ \A r \in DOMAIN icons : Tiles(icons[r], IconRegions[r])
  /\ \A ws \in RegionWorkSpace :
       \A r \in DOMAIN placed[ws] : Tiles(placed[ws][r], WindowRegions[r])

\* No place is lost: an icon has one at most, and only while its window is
\* iconified; when no icon has one every region is whole again (IconUp, IconDown).
PlacesAreFreed ==
  /\ \A w \in IWin : /\ Cardinality(PlacesOf(icons, w)) <= 1
                     /\ PlacesOf(icons, w) # {} => iw[w].managed /\ iw[w].isicon
  /\ \A r \in DOMAIN icons :
       (\A i \in DOMAIN icons[r] : ~icons[r][i].used) => Len(icons[r]) = 1

\* The part of the screen that an icon is seen on.
IconCells(w) ==
  LET icon == IconOf(iw[w])
      off == IF icon.shrunk THEN GetIconOffset(icon) ELSE 0
      wide == IF icon.shrunk THEN icon.width ELSE icon.w_width
  IN  (iw[w].at[1] + off .. iw[w].at[1] + off + wide - 1)
        \X (iw[w].at[2] .. iw[w].at[2] + icon.w_height - 1)

\* (A title that grows does not ask for a wider place, unless titles are shrunk.)
IconsApart ==
  "rename" \notin does \/ ShrinkIconTitles => \A v, w \in IWin :
    /\ v # w /\ ~iw[v].moved /\ ~iw[w].moved
    /\ \A u \in {v, w} : iw[u].icon_on /\ IconVisible(iw[u]) /\ PlacesOf(icons, u) # {}
    => IconCells(v) \cap IconCells(w) = {}

\* However icons and windows come and go, the regions stay cut up without gap or
\* overlap, and two icons that have places are not on top of each other
\* (splitIconRegionEntry, mergeEntries, PlaceIcon; the same for windows).
PlacesAreApart == RegionsTypeOK /\ RegionsAreTiled /\ IconsApart

=============================================================================
