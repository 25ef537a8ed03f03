--------------------------- MODULE LifeCycleProofs ---------------------------
(***************************************************************************)
(* Theorems about the life of windows, for every set of windows with any    *)
(* transients and groups, every number of virtual screens and workspaces,   *)
(* every setting and every session of LifeCycle:                            *)
(*   TypeCorrect                  types                                     *)
(*   TheDeadAreLetGo              a destroyed window is forgotten once its  *)
(*                                events are handled, and f.occupy never    *)
(*                                refers to one that is gone                *)
(*   DialogsGoAlong               dialogs follow their window               *)
(*   TheBackgroundGoesAway        f.showbackground brings all windows back  *)
(*   WindowsAreWhereTheyShouldBe  a window is on a virtual screen if and    *)
(*                                only if one shows a workspace it occupies *)
(*                                                                          *)
(* The operators of Windows come first, from the record of one window up to *)
(* a whole request: what each may do is one of a few relations (Stays,      *)
(* Still, Goes, Moves, Changes) that compose.  Then every action is shown to *)
(* be a Step, but for the four that are treated by themselves (f.occupy,    *)
(* another virtual screen, f.showbackground and the restart).  The theorems *)
(* follow from what a Step is and from three invariants: LifeInv, HiddenInv *)
(* and PlaceInv.                                                            *)
(***************************************************************************)
EXTENDS LifeCycle, SequenceFacts

MaybeVScreen == VScreen \cup {None}

(***************************************************************************)
(* Records of windows.  Alike: ctwm knows the window as before, and it has  *)
(* been hidden by ShowBackground as before.                                 *)
(***************************************************************************)
Alike(r, x) ==
  /\ x \in WindowType
  /\ x.managed = r.managed /\ x.exists = r.exists /\ x.savevs = r.savevs

\* It is also in the same workspaces and on the same screen.
Stays(r, x) ==
  Alike(r, x) /\ x.occupation = r.occupation /\ x.vs = r.vs

\* The types of the fields of a window.
LEMMA Fields ==
  ASSUME NEW r \in WindowType
  PROVE  /\ r.managed \in BOOLEAN /\ r.mapped \in BOOLEAN /\ r.isicon \in BOOLEAN
         /\ r.icon_on \in BOOLEAN /\ r.icon \in BOOLEAN /\ r.squeezed \in BOOLEAN
         /\ r.exists \in BOOLEAN /\ r.up \in BOOLEAN /\ r.inFrame \in BOOLEAN
         /\ r.frame \in BOOLEAN /\ r.away \in BOOLEAN /\ r.iconUp \in BOOLEAN
         /\ r.asks \in BOOLEAN
         /\ r.vs \in MaybeVScreen /\ r.parent_vs \in MaybeVScreen
         /\ r.savevs \in MaybeVScreen /\ r.root \in MaybeVScreen
         /\ r.occupation \in SUBSET WorkSpace /\ r.prop \in SUBSET WorkSpace
         /\ r.state \in WmState
BY DEF WindowType, MaybeVScreen

\* Changes of the fields that say where a window is.
LEMMA PlaceFields ==
  ASSUME NEW r \in WindowType
  PROVE  /\ \A v \in MaybeVScreen :
              /\ Alike(r, [r EXCEPT !.vs = v])
              /\ [r EXCEPT !.vs = v].vs = v
              /\ [r EXCEPT !.vs = v].occupation = r.occupation
         /\ \A v \in MaybeVScreen, u \in MaybeVScreen :
              Stays(r, [r EXCEPT !.parent_vs = u, !.root = v])
         /\ \A occ \in SUBSET WorkSpace :
              /\ Alike(r, [r EXCEPT !.occupation = occ, !.prop = occ])
              /\ [r EXCEPT !.occupation = occ, !.prop = occ].vs = r.vs
              /\ [r EXCEPT !.occupation = occ, !.prop = occ].occupation = occ
BY DEF WindowType, MaybeVScreen, Alike, Stays

\* Changes of what is shown of it.
LEMMA ShowFields ==
  ASSUME NEW r \in WindowType
  PROVE  /\ \A a \in BOOLEAN : Stays(r, [r EXCEPT !.up = a])
         /\ \A a \in BOOLEAN : Stays(r, [r EXCEPT !.iconUp = a])
         /\ \A a \in BOOLEAN : Stays(r, [r EXCEPT !.away = a])
         /\ \A v \in MaybeVScreen, a \in BOOLEAN :
              Stays(r, [r EXCEPT !.root = v, !.away = a])
         /\ \A a \in BOOLEAN, b \in BOOLEAN, st \in WmState :
              Stays(r, [r EXCEPT !.up = a, !.frame = b, !.state = st])
         /\ \A occ \in SUBSET WorkSpace : Stays(r, [r EXCEPT !.prop = occ])
<1>1. \A a \in BOOLEAN :
       Stays(r, [r EXCEPT !.up = a])
  BY DEF WindowType, Alike, Stays
<1>2. \A a \in BOOLEAN :
       Stays(r, [r EXCEPT !.iconUp = a])
  BY DEF WindowType, Alike, Stays
<1>3. \A a \in BOOLEAN :
       Stays(r, [r EXCEPT !.away = a])
  BY DEF WindowType, Alike, Stays
<1>4. \A v \in MaybeVScreen, a \in BOOLEAN :
       Stays(r, [r EXCEPT !.root = v, !.away = a])
  BY DEF WindowType, Alike, Stays, MaybeVScreen
<1>5. \A a \in BOOLEAN, b \in BOOLEAN, st \in WmState :
       Stays(r, [r EXCEPT !.up = a, !.frame = b, !.state = st])
  BY DEF WindowType, Alike, Stays
<1>6. \A occ \in SUBSET WorkSpace :
       Stays(r, [r EXCEPT !.prop = occ])
  BY DEF WindowType, Alike, Stays
<1>7. QED
  BY <1>1, <1>2, <1>3, <1>4, <1>5, <1>6

\* UnmapTransients makes an icon of a dialog, where it is.
LEMMA UnmappedStays ==
  ASSUME NEW r \in WindowType
  PROVE  Stays(r, [r EXCEPT !.mapped = FALSE, !.up = FALSE, !.frame = FALSE, !.iconUp = FALSE,
                            !.state = "Iconic", !.isicon = TRUE, !.icon_on = FALSE])
<1> DEFINE x == [r EXCEPT !.mapped = FALSE, !.up = FALSE, !.frame = FALSE, !.iconUp = FALSE,
                   !.state = "Iconic", !.isicon = TRUE, !.icon_on = FALSE]
<1>1. x \in WindowType
  BY DEF WindowType, WmState
<1>2. /\ x.managed = r.managed /\ x.exists = r.exists /\ x.savevs = r.savevs
      /\ x.occupation = r.occupation /\ x.vs = r.vs
  BY DEF WindowType
<1> HIDE DEF x
<1>3. Stays(r, x)
  BY <1>1, <1>2 DEF Stays, Alike
<1>4. QED
  BY <1>3 DEF x

\* ReMapOne opens a window where it is.
LEMMA ReMappedStays ==
  ASSUME NEW r \in WindowType
  PROVE  Stays(r, [r EXCEPT !.mapped = TRUE, !.frame = TRUE, !.state = "Normal",
                            !.iconUp = FALSE, !.isicon = FALSE, !.icon_on = FALSE])
<1> DEFINE x == [r EXCEPT !.mapped = TRUE, !.frame = TRUE, !.state = "Normal",
                   !.iconUp = FALSE, !.isicon = FALSE, !.icon_on = FALSE]
<1>1. x \in WindowType
  BY DEF WindowType, WmState
<1>2. /\ x.managed = r.managed /\ x.exists = r.exists /\ x.savevs = r.savevs
      /\ x.occupation = r.occupation /\ x.vs = r.vs
  BY DEF WindowType
<1> HIDE DEF x
<1>3. Stays(r, x)
  BY <1>1, <1>2 DEF Stays, Alike
<1>4. QED
  BY <1>3 DEF x

\* Iconify closes a window where it is.
LEMMA IconifiedStays ==
  ASSUME NEW r \in WindowType, NEW a \in BOOLEAN, NEW b \in BOOLEAN, NEW c \in BOOLEAN
  PROVE  Stays(r, [r EXCEPT !.icon = a, !.iconUp = b, !.mapped = FALSE, !.up = FALSE,
                            !.frame = FALSE, !.state = "Iconic", !.isicon = TRUE, !.icon_on = c])
<1> DEFINE x == [r EXCEPT !.icon = a, !.iconUp = b, !.mapped = FALSE, !.up = FALSE,
                   !.frame = FALSE, !.state = "Iconic", !.isicon = TRUE, !.icon_on = c]
           y == [r EXCEPT !.icon = a, !.iconUp = b, !.mapped = FALSE, !.up = FALSE]
<1>1. x \in WindowType
  <2>1. y \in WindowType
    BY DEF WindowType
  <2>2. x = [y EXCEPT !.frame = FALSE, !.state = "Iconic", !.isicon = TRUE,
                      !.icon_on = c]
    OBVIOUS
  <2> HIDE DEF y
  <2>3. [y EXCEPT !.frame = FALSE, !.state = "Iconic", !.isicon = TRUE,
                  !.icon_on = c] \in WindowType
    BY <2>1 DEF WindowType, WmState
  <2>4. QED
    BY <2>2, <2>3
<1>2. /\ x.managed = r.managed /\ x.exists = r.exists /\ x.savevs = r.savevs
      /\ x.occupation = r.occupation /\ x.vs = r.vs
  BY DEF WindowType
<1> HIDE DEF x
<1>3. Stays(r, x)
  BY <1>1, <1>2 DEF Stays, Alike
<1>4. QED
  BY <1>3 DEF x

\* A window is unsqueezed and squeezed where it is.
LEMMA SqueezedStays ==
  ASSUME NEW r \in WindowType
  PROVE  /\ Stays(r, [r EXCEPT !.squeezed = FALSE])
         /\ Stays(r, [r EXCEPT !.squeezed = TRUE, !.up = FALSE])
<1>1. Stays(r, [r EXCEPT !.squeezed = FALSE])
  BY DEF WindowType, Alike, Stays
<1>2. Stays(r, [r EXCEPT !.squeezed = TRUE, !.up = FALSE])
  BY DEF WindowType, Alike, Stays
<1>3. QED
  BY <1>1, <1>2

(***************************************************************************)
(* Where windows are put.                                                   *)
(***************************************************************************)
\* Several changes of one window.
LEMMA StaysIsTransitive ==
  ASSUME NEW r, NEW x, NEW y
  PROVE  /\ Stays(r, x) /\ Stays(x, y) => Stays(r, y)
         /\ Alike(r, x) /\ Alike(x, y) => Alike(r, y)
         /\ Stays(r, x) => x \in WindowType
         /\ Alike(r, x) => x \in WindowType
BY DEF Stays, Alike

\* A frame that is given to another root window belongs to the same screen.
LEMMA ReparentFrameAndIconStays ==
  ASSUME NEW r \in WindowType
  PROVE  Stays(r, ReparentFrameAndIcon(r))
<1>1. Stays(r, r)
  BY DEF Stays, Alike
<1>2. QED
  BY <1>1, Fields, PlaceFields DEF ReparentFrameAndIcon

\* DisplayWin puts a window that is on no screen on v, and leaves others.
LEMMA DisplayWinPlaces ==
  ASSUME NEW r \in WindowType, NEW w, NEW v \in VScreen
  PROVE  /\ Alike(r, DisplayWin(v, w, r))
         /\ DisplayWin(v, w, r).occupation = r.occupation
         /\ DisplayWin(v, w, r).vs = IF r.vs = None THEN v ELSE r.vs
<1> DEFINE here == [r EXCEPT !.vs = v]
           home == ReparentFrameAndIcon(here)
           x == DisplayWin(v, w, r)
<1>1. v \in MaybeVScreen /\ Alike(r, here) /\ here.vs = v /\ here.occupation = r.occupation
  BY PlaceFields DEF MaybeVScreen
<1>2. Stays(here, home) /\ here \in WindowType /\ home \in WindowType
  BY <1>1, ReparentFrameAndIconStays, StaysIsTransitive
<1>3. CASE r.vs # None
  BY <1>3 DEF DisplayWin, Alike
<1>4. CASE r.vs = None
  <2>1. CASE ~r.mapped
    <3> DEFINE b == home.iconUp \/ (r.isicon /\ r.icon_on /\ r.icon)
    <3>1. x = [home EXCEPT !.iconUp = b]
      BY <1>4, <2>1 DEF DisplayWin
    <3>2. b \in BOOLEAN
      OBVIOUS
    <3> HIDE DEF b, home
    <3>3. Stays(home, [home EXCEPT !.iconUp = b])
      BY <3>2, <1>2, ShowFields
    <3>4. Stays(here, x)
      BY <1>2, <3>1, <3>3, StaysIsTransitive
    <3> HIDE DEF here, x
    <3>5. QED
      BY <1>1, <1>4, <3>4 DEF Stays, Alike, x
  <2>2. CASE r.mapped /\ w \in UnmapByMovingFarAway
    <3>1. x = [here EXCEPT !.root = v, !.away = FALSE]
      BY <1>4, <2>2 DEF DisplayWin
    <3> HIDE DEF here, x
    <3>2. Stays(here, x)
      BY <3>1, <1>1, <1>2, ShowFields
    <3>3. QED
      BY <1>1, <1>4, <3>2 DEF Stays, Alike, x
  <2>3. CASE r.mapped /\ w \notin UnmapByMovingFarAway
    <3> DEFINE b == r.exists /\ (home.up \/ ~r.squeezed)
    <3>1. x = [home EXCEPT !.up = b, !.frame = TRUE, !.state = "Normal"]
      BY <1>4, <2>3 DEF DisplayWin
    <3>2. b \in BOOLEAN
      OBVIOUS
    <3> HIDE DEF b, home
    <3>3. Stays(home, [home EXCEPT !.up = b, !.frame = TRUE, !.state = "Normal"])
      BY <3>2, <1>2, ShowFields DEF WmState
    <3>4. Stays(here, x)
      BY <1>2, <3>1, <3>3, StaysIsTransitive
    <3> HIDE DEF here, x
    <3>5. QED
      BY <1>1, <1>4, <3>4 DEF Stays, Alike, x
  <2>4. QED
    BY <2>1, <2>2, <2>3, Fields
<1>5. QED
  BY <1>3, <1>4

\* Vanish takes a window off its screen.
LEMMA VanishPlaces ==
  ASSUME NEW r \in WindowType, NEW w
  PROVE  /\ Alike(r, Vanish(w, r))
         /\ Vanish(w, r).occupation = r.occupation
         /\ Vanish(w, r).vs = None
<1> DEFINE gone == [r EXCEPT !.vs = None]
           x == Vanish(w, r)
<1>1. Alike(r, gone) /\ gone.vs = None /\ gone.occupation = r.occupation
  BY PlaceFields DEF MaybeVScreen
<1>2. gone \in WindowType
  BY <1>1, StaysIsTransitive
<1>3. Stays(gone, x)
  <2>1. CASE w \in UnmapByMovingFarAway
    <3>1. x = [gone EXCEPT !.away = TRUE]
      BY <2>1 DEF Vanish
    <3> HIDE DEF gone, x
    <3>2. QED
      BY <3>1, <1>2, ShowFields
  <2>2. CASE w \notin UnmapByMovingFarAway /\ r.mapped
    <3> DEFINE st == IF w \in DontSetInactive THEN gone.state ELSE "Inactive"
    <3>1. x = [gone EXCEPT !.up = FALSE, !.frame = FALSE, !.state = st]
      BY <2>2 DEF Vanish
    <3>2. st \in WmState
      BY <1>2, Fields DEF WmState
    <3> HIDE DEF gone, x, st
    <3>3. QED
      BY <3>1, <3>2, <1>2, ShowFields
  <2>3. CASE w \notin UnmapByMovingFarAway /\ ~r.mapped
    <3> DEFINE b == gone.iconUp /\ ~(r.icon_on /\ r.icon)
    <3>1. x = [gone EXCEPT !.iconUp = b]
      BY <2>3 DEF Vanish
    <3>2. b \in BOOLEAN
      BY <1>2, Fields
    <3> HIDE DEF gone, x, b
    <3>3. QED
      BY <3>1, <3>2, <1>2, ShowFields
  <2>4. QED
    BY <2>1, <2>2, <2>3
<1> HIDE DEF gone, x
<1>4. QED
  BY <1>1, <1>3 DEF Stays, Alike, x

\* FirstShowing finds a virtual screen if there is one.
LEMMA FirstShowingIs ==
  ASSUME NEW s \in WmType, NEW V \in SUBSET VScreen, NEW occ \in SUBSET WorkSpace,
         NEW v, v = FirstShowing(s, V, occ)
  PROVE  \/ v = None /\ \A u \in V : s.current[u] \notin occ
         \/ v \in V /\ v # None /\ s.current[v] \in occ
<1> DEFINE here == {u \in V : s.current[u] \in occ}
<1>1. CASE here = {}
  BY <1>1 DEF FirstShowing
<1>2. CASE here # {}
  <2>1. here \in SUBSET Nat
    BY DEF VScreen
  <2>2. v = CHOOSE u \in here : \A x \in here : u <= x
    BY <1>2 DEF FirstShowing
  <2> HIDE DEF here
  <2>3. v \in here
    BY <1>2, <2>1, <2>2, LeastNat
  <2>4. QED
    BY <2>3, ScreenAssumption DEF here
<1>3. QED
  BY <1>1, <1>2

\* r is on a screen of V where `current` shows one of its workspaces; if it is on
\* no screen, none of V does.
Shows(current, V, r) ==
  IF r.vs = None THEN \A v \in V : current[v] \notin r.occupation
  ELSE r.vs \in V /\ current[r.vs] \in r.occupation

\* A window that is on no screen goes to one of V that shows it, if there is one.
LEMMA DisplaySomewherePlaces ==
  ASSUME NEW s \in WmType, NEW V \in SUBSET VScreen, NEW w, NEW r \in WindowType
  PROVE  /\ Alike(r, DisplaySomewhere(s, V, w, r))
         /\ DisplaySomewhere(s, V, w, r).occupation = r.occupation
         /\ r.vs = None => Shows(s.current, V, DisplaySomewhere(s, V, w, r))
         /\ r.vs # None => DisplaySomewhere(s, V, w, r) = r
<1> DEFINE v == FirstShowing(s, V, r.occupation)
           x == DisplaySomewhere(s, V, w, r)
<1>1. r.occupation \in SUBSET WorkSpace
  BY Fields
<1>2. \/ v = None /\ \A u \in V : s.current[u] \notin r.occupation
      \/ v \in V /\ v # None /\ s.current[v] \in r.occupation
  BY <1>1, FirstShowingIs
<1>3. CASE r.vs # None \/ v = None
  <2>1. x = r
    BY <1>3 DEF DisplaySomewhere
  <2>2. QED
    BY <1>2, <1>3, <2>1 DEF Alike, Shows
<1>4. CASE r.vs = None /\ v # None
  <2>1. x = DisplayWin(v, w, r)
    BY <1>4 DEF DisplaySomewhere
  <2>2. v \in VScreen
    BY <1>2, <1>4
  <2> HIDE DEF v, x
  <2>3. Alike(r, x) /\ x.occupation = r.occupation /\ x.vs = v
    BY <1>4, <2>1, <2>2, DisplayWinPlaces
  <2>4. Shows(s.current, V, x)
    BY <1>2, <1>4, <2>2, <2>3 DEF Shows
  <2>5. QED
    BY <1>4, <2>3, <2>4 DEF x
<1>5. QED
  BY <1>3, <1>4

\* A window that is moved to workspaces goes where one of them is shown.
LEMMA MovedPlaces ==
  ASSUME NEW s \in WmType, NEW w \in Client, NEW occ \in SUBSET WorkSpace
  PROVE  /\ Alike(s.win[w], Moved(s, w, occ))
         /\ Moved(s, w, occ).occupation = occ
         /\ Shows(s.current, VScreen, Moved(s, w, occ))
<1> DEFINE r == [s.win[w] EXCEPT !.occupation = occ, !.prop = occ]
           off == r.vs # None /\ s.current[r.vs] \notin occ
           y == IF off THEN Vanish(w, r) ELSE r
           x == DisplaySomewhere(s, VScreen, w, y)
<1>1. s.win[w] \in WindowType
  BY DEF WmType
<1>2. Alike(s.win[w], r) /\ r.occupation = occ /\ r.vs = s.win[w].vs
  BY <1>1, PlaceFields
<1>3. r \in WindowType /\ r.vs \in MaybeVScreen
  BY <1>1, <1>2, StaysIsTransitive, Fields
<1>4. Moved(s, w, occ) = x
  BY DEF Moved
<1> HIDE DEF r
<1>5. Alike(r, y) /\ y.occupation = occ /\ y \in WindowType
  <2>1. Alike(r, Vanish(w, r)) /\ Vanish(w, r).occupation = occ /\ Alike(r, r)
    BY <1>2, <1>3, VanishPlaces DEF Alike
  <2>2. QED
    BY <1>2, <2>1, StaysIsTransitive
<1>6. y.vs # None => y.vs \in VScreen /\ s.current[y.vs] \in occ
  <2>1. Vanish(w, r).vs = None
    BY <1>3, VanishPlaces
  <2>2. QED
    BY <1>3, <2>1 DEF MaybeVScreen
<1> HIDE DEF y
<1>7. /\ Alike(y, x) /\ x.occupation = occ
      /\ y.vs = None => Shows(s.current, VScreen, x)
      /\ y.vs # None => x = y
  BY <1>5, DisplaySomewherePlaces
<1> HIDE DEF x
<1>8. Shows(s.current, VScreen, x)
  BY <1>5, <1>6, <1>7 DEF Shows
<1>9. QED
  BY <1>2, <1>4, <1>5, <1>7, <1>8, StaysIsTransitive

\* A change of workspace leaves every window where it should be.
LEMMA SwitchedPlaces ==
  ASSUME NEW s \in WmType, NEW v \in VScreen, NEW ws \in WorkSpace, NEW w \in Client
  PROVE  /\ Alike(s.win[w], Switched(s, v, ws, w))
         /\ Switched(s, v, ws, w).occupation = s.win[w].occupation
         /\ Shows(s.current, VScreen, s.win[w]) =>
              Shows([s.current EXCEPT ![v] = ws], VScreen, Switched(s, v, ws, w))
<1> DEFINE r == s.win[w]
           c == [s.current EXCEPT ![v] = ws]
           x == Switched(s, v, ws, w)
<1>1. r \in WindowType /\ s.current \in [VScreen -> WorkSpace]
  BY DEF WmType
<1>2. c[v] = ws /\ \A u \in VScreen \ {v} : c[u] = s.current[u]
  BY <1>1
<1>3. r.vs \in VScreen \/ r.vs = None
  BY <1>1, Fields DEF MaybeVScreen
<1>4. v # None
  BY ScreenAssumption
<1> HIDE DEF r, c
<1>5. CASE ws \in r.occupation
  <2> DEFINE d == DisplayWin(v, w, r)
  <2>1. x = d
    BY <1>5 DEF Switched, OCCUPY, r
  <2>2. Alike(r, d) /\ d.occupation = r.occupation /\ d.vs = IF r.vs = None THEN v ELSE r.vs
    BY <1>1, DisplayWinPlaces
  <2> HIDE DEF d
  <2>3. Shows(s.current, VScreen, r) => Shows(c, VScreen, d)
    <3>1. CASE d.vs = v
      BY <1>2, <1>4, <1>5, <2>2, <3>1 DEF Shows
    <3>2. CASE d.vs # v
      BY <1>2, <1>3, <1>4, <2>2, <3>2 DEF Shows
    <3>3. QED
      BY <3>1, <3>2
  <2> HIDE DEF x
  <2>4. QED
    BY <2>1, <2>2, <2>3 DEF r, c, x
<1>6. CASE ws \notin r.occupation /\ r.vs # v
  <2>1. x = r
    BY <1>6 DEF Switched, OCCUPY, r
  <2>2. Shows(s.current, VScreen, r) => Shows(c, VScreen, r)
    <3>1. \A u \in VScreen : s.current[u] \notin r.occupation => c[u] \notin r.occupation
      BY <1>2, <1>6
    <3>2. r.vs \in VScreen => c[r.vs] = s.current[r.vs]
      BY <1>2, <1>6
    <3>3. QED
      BY <1>3, <3>1, <3>2 DEF Shows
  <2>3. Alike(r, r)
    BY <1>1 DEF Alike
  <2> HIDE DEF x
  <2>4. QED
    BY <2>1, <2>2, <2>3 DEF r, c, x
<1>7. CASE ws \notin r.occupation /\ r.vs = v
  <2> DEFINE y == Vanish(w, r)
             others == VScreen \ {v}
             d == DisplaySomewhere(s, others, w, y)
  <2>1. x = d
    BY <1>7 DEF Switched, OCCUPY, r
  <2>2. Alike(r, y) /\ y.occupation = r.occupation /\ y.vs = None /\ y \in WindowType
    BY <1>1, VanishPlaces, StaysIsTransitive
  <2> HIDE DEF y
  <2>3. Alike(y, d) /\ d.occupation = r.occupation /\ Shows(s.current, others, d)
    BY <2>2, DisplaySomewherePlaces
  <2> HIDE DEF d, x
  <2>4. Shows(c, VScreen, d)
    <3>1. CASE d.vs = None
      BY <1>2, <1>7, <2>3, <3>1 DEF Shows
    <3>2. CASE d.vs # None
      BY <1>2, <2>3, <3>2 DEF Shows
    <3>3. QED
      BY <3>1, <3>2
  <2>5. Alike(r, x) /\ x.occupation = r.occupation
    BY <2>1, <2>2, <2>3, StaysIsTransitive
  <2>6. QED
    BY <2>1, <2>4, <2>5 DEF r, c, x
<1>8. QED
  BY <1>5, <1>6, <1>7

(***************************************************************************)
(* States.  Still(s, t): from s to t no window comes, goes or changes its   *)
(* place, and no event is taken.  Keeps(s, t): no window comes or goes.     *)
(***************************************************************************)
AnEvent == [type : EventType, win : Client]

Keeps(s, t) ==
  /\ t \in WmType
  /\ t.currentvs = s.currentvs /\ t.occupyWin = s.occupyWin
  /\ Range(s.queue) \subseteq Range(t.queue)
  /\ \A w \in Client : Alike(s.win[w], t.win[w])

Still(s, t) ==
  /\ Keeps(s, t)
  /\ t.current = s.current
  /\ \A w \in Client : Stays(s.win[w], t.win[w])

\* The types of the fields of the state.
LEMMA WmFields ==
  ASSUME NEW s \in WmType
  PROVE  /\ s.win \in [Client -> WindowType]
         /\ \A w \in Client : s.win[w] \in WindowType
         /\ s.queue \in Seq(AnEvent)
         /\ s.current \in [VScreen -> WorkSpace]
         /\ s.currentvs \in VScreen
         /\ s.occupyWin \in Client \cup {None}
         /\ s.occupyUp \in BOOLEAN
BY DEF WmType, AnEvent

\* Several steps in which no window comes, goes or moves.
LEMMA StillIsTransitive ==
  ASSUME NEW s, NEW t, NEW u
  PROVE  /\ Keeps(s, t) /\ Keeps(t, u) => Keeps(s, u)
         /\ Still(s, t) /\ Still(t, u) => Still(s, u)
         /\ Still(s, t) => Keeps(s, t)
         /\ Keeps(s, t) => t \in WmType
         /\ s \in WmType => Still(s, s)
<1>1. Keeps(s, t) /\ Keeps(t, u) => Keeps(s, u)
  BY StaysIsTransitive DEF Keeps
<1>2. Still(s, t) /\ Still(t, u) => Still(s, u)
  BY <1>1, StaysIsTransitive DEF Still
<1>3. s \in WmType => Still(s, s)
  BY WmFields DEF Still, Keeps, Stays, Alike
<1>4. QED
  BY <1>1, <1>2, <1>3 DEF Still, Keeps

\* Windows change in what is shown of them, and events come.
LEMMA SetSeveral ==
  ASSUME NEW s \in WmType, NEW W \in [Client -> WindowType],
         \A w \in Client : Stays(s.win[w], W[w])
  PROVE  /\ Still(s, [s EXCEPT !.win = W])
         /\ \A q \in Seq(AnEvent) : Still(s, [s EXCEPT !.win = W, !.queue = s.queue \o q])
<1>1. Still(s, [s EXCEPT !.win = W])
  <2> DEFINE t == [s EXCEPT !.win = W]
  <2>1. /\ t \in WmType /\ t.win = W /\ t.queue = s.queue /\ t.current = s.current
        /\ t.currentvs = s.currentvs /\ t.occupyWin = s.occupyWin
    BY DEF WmType
  <2> HIDE DEF t
  <2>2. Still(s, t)
    BY <2>1 DEF Still, Keeps, Stays
  <2>3. QED
    BY <2>2 DEF t
<1>2. ASSUME NEW q \in Seq(AnEvent)
      PROVE  Still(s, [s EXCEPT !.win = W, !.queue = s.queue \o q])
  <2> DEFINE p == s.queue \o q
  <2>1. p \in Seq(AnEvent) /\ Range(s.queue) \subseteq Range(p)
    BY WmFields, ConcatRange
  <2> HIDE DEF p
  <2> DEFINE t == [s EXCEPT !.win = W, !.queue = p]
  <2>2. /\ t \in WmType /\ t.win = W /\ t.queue = p /\ t.current = s.current
        /\ t.currentvs = s.currentvs /\ t.occupyWin = s.occupyWin
    BY <2>1 DEF WmType, AnEvent
  <2> HIDE DEF t
  <2>3. Still(s, t)
    BY <2>1, <2>2 DEF Still, Keeps, Stays
  <2>4. QED
    BY <2>3 DEF t, p
<1>3. QED
  BY <1>1, <1>2

\* One window does.
LEMMA SetWindow ==
  ASSUME NEW s \in WmType, NEW w \in Client, NEW x, Stays(s.win[w], x)
  PROVE  Still(s, [s EXCEPT !.win[w] = x])
<1> DEFINE W == [s.win EXCEPT ![w] = x]
<1>1. x \in WindowType /\ s.win \in [Client -> WindowType]
  BY StaysIsTransitive, WmFields
<1>2. W \in [Client -> WindowType] /\ W[w] = x /\ \A u \in Client \ {w} : W[u] = s.win[u]
  BY <1>1
<1>3. [s EXCEPT !.win[w] = x] = [s EXCEPT !.win = W]
  OBVIOUS
<1>4. \A u \in Client : Stays(s.win[u], s.win[u])
  BY <1>1 DEF Stays, Alike
<1> HIDE DEF W
<1>5. \A u \in Client : Stays(s.win[u], W[u])
  BY <1>2, <1>4
<1>6. Still(s, [s EXCEPT !.win = W])
  BY <1>2, <1>5, SetSeveral
<1>7. QED
  BY <1>3, <1>6

\* A window that does not change.
LEMMA SameStays ==
  ASSUME NEW s \in WmType
  PROVE  \A w \in Client : Stays(s.win[w], s.win[w]) /\ s.win[w] \in WindowType
BY WmFields DEF Stays, Alike

\* The queue grows by MapNotify events when windows are mapped.
LEMMA XMapWindowStill ==
  ASSUME NEW s \in WmType, NEW W \in SUBSET Client
  PROVE  Still(s, XMapWindow(s, W))
<1> DEFINE new == {w \in W : s.win[w].exists /\ ~s.win[w].up}
           Win == [w \in Client |-> IF w \in new THEN [s.win[w] EXCEPT !.up = TRUE]
                                    ELSE s.win[w]]
           q == MapNotifies(new)
<1>1. q \in Seq(AnEvent)
  <2>1. IsFiniteSet(new)
    BY ClientAssumption, FS_Subset
  <2>2. new \subseteq Client
    OBVIOUS
  <2> HIDE DEF new
  <2> DEFINE l == SetToSeq(new)
  <2>3. l \in [1 .. Cardinality(new) -> new] /\ Cardinality(new) \in Nat
    BY <2>1, SetToSeqLists, FS_CardinalityType
  <2>4. q = [i \in 1 .. Cardinality(new) |-> Event("MapNotify", l[i])]
    BY <2>3 DEF MapNotifies
  <2> HIDE DEF l, q
  <2>5. \A i \in 1 .. Cardinality(new) : Event("MapNotify", l[i]) \in AnEvent
    BY <2>2, <2>3 DEF Event, AnEvent, EventType
  <2>6. q \in [1 .. Cardinality(new) -> AnEvent]
    BY <2>4, <2>5
  <2>7. QED
    BY <2>3, <2>6 DEF Seq
<1>2. \A w \in Client : Stays(s.win[w], Win[w])
  BY SameStays, ShowFields
<1>3. Win \in [Client -> WindowType]
  BY SameStays, ShowFields, StaysIsTransitive
<1>4. XMapWindow(s, W) = [s EXCEPT !.win = Win, !.queue = s.queue \o q]
  BY DEF XMapWindow
<1> HIDE DEF Win, q
<1>5. QED
  BY <1>1, <1>2, <1>3, <1>4, SetSeveral

\* A reparenting makes events.
LEMMA ReparentingsAreEvents ==
  ASSUME NEW r, NEW w \in Client
  PROVE  Reparentings(r, w) \in Seq(AnEvent)
<1>1. \A type \in EventType : Event(type, w) \in AnEvent
  BY DEF Event, AnEvent
<1>2. {"Unmap", "Reparent", "MapNotify"} \subseteq EventType
  BY DEF EventType
<1> HIDE DEF EventType
<1>3. QED
  BY <1>1, <1>2 DEF Reparentings

\* UnmapTransients changes only what is shown.
LEMMA UnmapTransientsStill ==
  ASSUME NEW s \in WmType, NEW w \in Client
  PROVE  Still(s, UnmapTransients(s, w))
<1> DEFINE x(t) == [s.win[t] EXCEPT !.mapped = FALSE, !.up = FALSE, !.frame = FALSE,
                           !.iconUp = FALSE, !.state = "Iconic",
                           !.isicon = TRUE, !.icon_on = FALSE]
           Win == [t \in Client |-> IF t \in Dialogs(s, w) THEN x(t) ELSE s.win[t]]
<1>1. \A t \in Client : Stays(s.win[t], x(t)) /\ x(t) \in WindowType
  BY SameStays, UnmappedStays, StaysIsTransitive
<1> HIDE DEF x
<1>2. \A t \in Client : Stays(s.win[t], Win[t])
  BY <1>1, SameStays
<1>3. Win \in [Client -> WindowType]
  BY <1>1, SameStays
<1>4. UnmapTransients(s, w) = [s EXCEPT !.win = Win]
  BY DEF UnmapTransients, x
<1> HIDE DEF Win
<1>5. QED
  BY <1>2, <1>3, <1>4, SetSeveral

\* So does Iconify,
LEMMA IconifyStill ==
  ASSUME NEW s \in WmType, NEW w \in Client
  PROVE  Still(s, Iconify(s, w))
<1> DEFINE l == Leader(s, w)
           iconify == w \notin NoIcon /\ ~(l # None /\ s.win[l].icon_on)
           u == UnmapTransients(s, w)
           r == s.win[w]
           a == r.icon \/ iconify
           b == r.iconUp \/ (iconify /\ r.vs # None)
           x == [r EXCEPT !.icon = a, !.iconUp = b,
                          !.mapped = FALSE, !.up = FALSE, !.frame = FALSE,
                          !.state = "Iconic", !.isicon = TRUE, !.icon_on = iconify]
<1>1. Iconify(s, w) = [u EXCEPT !.win[w] = x]
  BY DEF Iconify
<1>2. Still(s, u) /\ u \in WmType
  BY UnmapTransientsStill, StillIsTransitive
<1>3. a \in BOOLEAN /\ b \in BOOLEAN /\ iconify \in BOOLEAN
  OBVIOUS
<1>4. r \in WindowType
  BY WmFields
<1> HIDE DEF a, b, iconify, r, u
<1>5. Stays(r, x)
  BY <1>3, <1>4, IconifiedStays
<1> HIDE DEF x
\* UnmapTransients leaves the window itself alone.
<1>6. u.win[w] = r
  BY WmFields DEF u, r, UnmapTransients, Dialogs, WmType
<1>7. Still(u, [u EXCEPT !.win[w] = x])
  BY <1>2, <1>5, <1>6, SetWindow
<1>8. QED
  BY <1>1, <1>2, <1>7, StillIsTransitive

\* and so do ReMapOne,
LEMMA ReMapStill ==
  ASSUME NEW s \in WmType, NEW W \in SUBSET Client
  PROVE  Still(s, ReMap(s, W))
<1> DEFINE m == XMapWindow(s, {w \in W : ~s.win[w].squeezed})
           x(w) == [m.win[w] EXCEPT !.mapped = TRUE, !.frame = TRUE,
                               !.state = "Normal", !.iconUp = FALSE,
                               !.isicon = FALSE, !.icon_on = FALSE]
           Win == [w \in Client |-> IF w \in W THEN x(w) ELSE m.win[w]]
<1>1. Still(s, m) /\ m \in WmType
  BY XMapWindowStill, StillIsTransitive
<1>2. ReMap(s, W) = [m EXCEPT !.win = Win]
  BY DEF ReMap
<1> HIDE DEF m
<1>3. \A w \in Client : Stays(m.win[w], x(w)) /\ x(w) \in WindowType
  BY <1>1, SameStays, ReMappedStays, StaysIsTransitive
<1> HIDE DEF x
<1>4. \A w \in Client : Stays(m.win[w], Win[w])
  BY <1>1, <1>3, SameStays
<1>5. Win \in [Client -> WindowType]
  BY <1>1, <1>3, SameStays
<1> HIDE DEF Win
<1>6. Still(m, [m EXCEPT !.win = Win])
  BY <1>1, <1>4, <1>5, SetSeveral
<1>7. QED
  BY <1>1, <1>2, <1>6, StillIsTransitive

\* ReMapTransients,
LEMMA ReMapTransientsStill ==
  ASSUME NEW s \in WmType, NEW w \in Client
  PROVE  Still(s, ReMapTransients(s, w))
BY ReMapStill DEF ReMapTransients, Dialogs, managed

\* and Squeeze.
LEMMA SqueezeStill ==
  ASSUME NEW s \in WmType, NEW w \in Client
  PROVE  Still(s, Squeeze(s, w))
<1>1. CASE s.win[w].squeezed
  <2> DEFINE x == [s.win[w] EXCEPT !.squeezed = FALSE]
             u == [s EXCEPT !.win[w] = x]
             W == IF u.win[w].isicon THEN {} ELSE {w}
             m == XMapWindow(u, W)
  <2>1. Stays(s.win[w], x)
    BY SameStays, SqueezedStays
  <2>2. u = [s EXCEPT !.win[w].squeezed = FALSE]
    OBVIOUS
  <2>3. Squeeze(s, w) = ReMapTransients(m, w)
    BY <1>1, <2>2 DEF Squeeze
  <2> HIDE DEF x
  <2>4. Still(s, u)
    BY <2>1, SetWindow
  <2> HIDE DEF u
  <2>5. Still(u, m)
    BY <2>4, XMapWindowStill, StillIsTransitive
  <2> HIDE DEF m
  <2>6. Still(m, ReMapTransients(m, w))
    BY <2>5, ReMapTransientsStill, StillIsTransitive
  <2>7. QED
    BY <2>3, <2>4, <2>5, <2>6, StillIsTransitive
<1>2. CASE ~s.win[w].squeezed
  <2> DEFINE x == [s.win[w] EXCEPT !.squeezed = TRUE, !.up = FALSE]
             u == [s EXCEPT !.win[w] = x]
  <2>1. Stays(s.win[w], x)
    BY SameStays, SqueezedStays
  <2>2. u = [s EXCEPT !.win[w].squeezed = TRUE, !.win[w].up = FALSE]
    BY WmFields DEF WmType
  <2>3. Squeeze(s, w) = UnmapTransients(u, w)
    BY <1>2, <2>2 DEF Squeeze
  <2> HIDE DEF x
  <2>4. Still(s, u)
    BY <2>1, SetWindow
  <2> HIDE DEF u
  <2>5. Still(u, UnmapTransients(u, w))
    BY <2>4, UnmapTransientsStill, StillIsTransitive
  <2>6. QED
    BY <2>3, <2>4, <2>5, StillIsTransitive
<1>3. QED
  BY <1>1, <1>2

(***************************************************************************)
(* Every window that ctwm manages is where it should be.                    *)
(***************************************************************************)
InPlace(current, r) ==
  IF Screen(r) = None THEN \A v \in VScreen : current[v] \notin r.occupation
  ELSE Screen(r) \in VScreen /\ current[Screen(r)] \in r.occupation

Fit(s) ==
  /\ \A u, v \in VScreen : s.current[u] = s.current[v] => u = v
  /\ \A w \in Client : IF s.win[w].managed THEN InPlace(s.current, s.win[w])
                       ELSE s.win[w].savevs = None

NoneHidden(s) == \A w \in Client : s.win[w].savevs = None

Fits(s, t) == Fit(s) => Fit(t)

FitsUnhidden(s, t) == NoneHidden(s) /\ Fit(s) => Fit(t)

\* A window whose occupation changes takes its dialogs along.
Joint(s, t) ==
  ~TransientHasOccupation =>
    \A w \in managed(s), d \in managed(s) :
      d \in Dialogs(s, w) /\ t.win[w].occupation # s.win[w].occupation
      => t.win[d].occupation = t.win[w].occupation

(***************************************************************************)
(* Goes(s, t): windows may go to other screens.  Moves(s, t): and once to   *)
(* other workspaces.                                                        *)
(***************************************************************************)
Goes(s, t) ==
  /\ Keeps(s, t) /\ FitsUnhidden(s, t)
  /\ \A w \in Client : t.win[w].occupation = s.win[w].occupation

Moves(s, t) == Keeps(s, t) /\ FitsUnhidden(s, t) /\ Joint(s, t)

\* Where nothing moves, nothing gets out of place.
LEMMA StillGoes ==
  ASSUME NEW s, NEW t, Still(s, t)
  PROVE  Goes(s, t) /\ Fits(s, t)
<1>1. \A w \in Client : /\ t.win[w].managed = s.win[w].managed
                        /\ t.win[w].vs = s.win[w].vs
                        /\ t.win[w].savevs = s.win[w].savevs
                        /\ t.win[w].occupation = s.win[w].occupation
  BY DEF Still, Stays, Alike
<1>2. \A w \in Client : InPlace(s.current, s.win[w]) => InPlace(s.current, t.win[w])
  BY <1>1 DEF InPlace, Screen
<1>3. t.current = s.current
  BY DEF Still
<1>4. Fit(s) => Fit(t)
  BY <1>1, <1>2, <1>3 DEF Fit
<1>5. QED
  BY <1>1, <1>4 DEF Goes, Fits, FitsUnhidden, Still

\* Who is known, who is whose dialog and what is hidden stay the same.
LEMMA UnhiddenStays ==
  ASSUME NEW s, NEW t, Keeps(s, t)
  PROVE  /\ NoneHidden(s) => NoneHidden(t)
         /\ managed(t) = managed(s)
         /\ \A w \in Client : Dialogs(t, w) = Dialogs(s, w)
         /\ t \in WmType
<1>1. \A w \in Client : /\ t.win[w].managed = s.win[w].managed
                        /\ t.win[w].savevs = s.win[w].savevs
  BY DEF Keeps, Alike
<1>2. managed(t) = managed(s)
  BY <1>1 DEF managed
<1>3. QED
  BY <1>1, <1>2 DEF NoneHidden, Dialogs, Keeps

\* Several moves one after another, one of them to other workspaces.
LEMMA GoesIsTransitive ==
  ASSUME NEW s, NEW t, NEW u
  PROVE  /\ Goes(s, t) /\ Goes(t, u) => Goes(s, u)
         /\ Moves(s, t) /\ Goes(t, u) => Moves(s, u)
         /\ Goes(s, t) /\ Moves(t, u) => Moves(s, u)
         /\ Goes(s, t) => Moves(s, t)
         /\ Fits(s, t) /\ Fits(t, u) => Fits(s, u)
         /\ Moves(s, t) => t \in WmType
<1>1. Keeps(s, t) /\ FitsUnhidden(s, t) /\ Keeps(t, u) /\ FitsUnhidden(t, u)
        => Keeps(s, u) /\ FitsUnhidden(s, u)
  BY StillIsTransitive, UnhiddenStays DEF FitsUnhidden
<1>2. Goes(s, t) /\ Goes(t, u) => Goes(s, u)
  BY <1>1 DEF Goes
<1>3. Goes(s, t) => Moves(s, t)
  BY DEF Goes, Moves, Joint, managed
<1>4. Moves(s, t) /\ Goes(t, u) => Moves(s, u)
  <2>1. SUFFICES ASSUME Moves(s, t), Goes(t, u) PROVE Joint(s, u)
    BY <1>1 DEF Moves, Goes
  <2>2. \A w \in Client : u.win[w].occupation = t.win[w].occupation
    BY <2>1 DEF Goes
  <2>3. Joint(s, t)
    BY <2>1 DEF Moves
  <2>4. QED
    BY <2>2, <2>3 DEF Joint, managed
<1>5. Goes(s, t) /\ Moves(t, u) => Moves(s, u)
  <2>1. SUFFICES ASSUME Goes(s, t), Moves(t, u) PROVE Joint(s, u)
    BY <1>1 DEF Moves, Goes
  <2>2. \A w \in Client : t.win[w].occupation = s.win[w].occupation
    BY <2>1 DEF Goes
  <2>3. managed(t) = managed(s) /\ \A w \in Client : Dialogs(t, w) = Dialogs(s, w)
    BY <2>1, UnhiddenStays DEF Goes
  <2>4. Joint(t, u)
    BY <2>1 DEF Moves
  <2>5. managed(s) \subseteq Client
    BY DEF managed
  <2>6. QED
    BY <2>2, <2>3, <2>4, <2>5 DEF Joint
<1>6. Moves(s, t) => t \in WmType
  BY DEF Moves, Keeps
<1>7. QED
  BY <1>2, <1>3, <1>4, <1>5, <1>6 DEF Fits

(***************************************************************************)
(* Occupation.                                                              *)
(***************************************************************************)
\* The movers are astray, and with a window its dialogs that are astray.
LEMMA MoversAreClosed ==
  ASSUME NEW s, NEW w \in Client, NEW occ
  PROVE  /\ Movers(s, w, occ) \subseteq Client
         /\ ~TransientHasOccupation =>
              /\ \A t \in Movers(s, w, occ) : s.win[t].occupation # occ
              /\ \A u \in Movers(s, w, occ) : \A d \in Dialogs(s, u) :
                   s.win[d].occupation # occ => d \in Movers(s, w, occ)
<1> DEFINE astray == {t \in managed(s) : s.win[t].occupation # occ}
           closed(S) == \A u \in S : Dialogs(s, u) \cap astray \subseteq S
           M == Movers(s, w, occ)
<1>1. CASE TransientHasOccupation
  BY <1>1 DEF Movers
<1>2. CASE ~TransientHasOccupation
  <2>1. M = {t \in astray : \A S \in SUBSET astray : w \in S /\ closed(S) => t \in S}
    BY <1>2 DEF Movers
  <2>2. M \subseteq astray /\ astray \subseteq Client
    BY <2>1 DEF managed
  <2>3. ASSUME NEW u \in M, NEW d \in Dialogs(s, u), s.win[d].occupation # occ
        PROVE  d \in M
    <3>1. d \in astray
      BY <2>3 DEF Dialogs
    <3>2. ASSUME NEW S \in SUBSET astray, w \in S, closed(S) PROVE d \in S
      <4>1. u \in S
        BY <2>1, <3>2
      <4>2. Dialogs(s, u) \cap astray \subseteq S
        BY <4>1, <3>2
      <4>3. QED
        BY <3>1, <4>2
    <3>3. QED
      BY <2>1, <3>1, <3>2
  <2> HIDE DEF M
  <2>4. QED
    BY <2>2, <2>3, <1>2 DEF M
<1>3. QED
  BY <1>1, <1>2

\* ChangeOccupation brings all movers where they should be: where a screen shows
\* one of the workspaces, also those that are hidden.
LEMMA ChangeOccupationMoves ==
  ASSUME NEW s \in WmType, NEW w \in Client, NEW occ \in SUBSET WorkSpace
  PROVE  /\ Moves(s, ChangeOccupation(s, w, occ))
         /\ (\E v \in VScreen : s.current[v] \in occ) => Fits(s, ChangeOccupation(s, w, occ))
<1> DEFINE t == ChangeOccupation(s, w, occ)
<1>1. CASE occ = {} \/ occ = s.win[w].occupation
  <2> DEFINE x == [s.win[w] EXCEPT !.prop = s.win[w].occupation]
  <2>1. t = [s EXCEPT !.win[w] = x]
    BY <1>1 DEF ChangeOccupation
  <2>2. Stays(s.win[w], x)
    BY SameStays, Fields, ShowFields
  <2> HIDE DEF x, t
  <2>3. Still(s, t)
    BY <2>1, <2>2, SetWindow
  <2>4. QED
    BY <2>3, StillGoes, GoesIsTransitive DEF t
<1>2. CASE ~(occ = {} \/ occ = s.win[w].occupation)
  <2> DEFINE M == Movers(s, w, occ)
             Win == [u \in Client |-> IF u \in M THEN Moved(s, u, occ) ELSE s.win[u]]
  <2>1. t = [s EXCEPT !.win = Win]
    BY <1>2 DEF ChangeOccupation
  <2>2. \A u \in Client : Alike(s.win[u], Win[u])
    BY MovedPlaces, SameStays DEF Stays
  <2>3. \A u \in M : /\ Win[u].occupation = occ
                     /\ Shows(s.current, VScreen, Win[u])
    BY MovedPlaces, MoversAreClosed
  <2>4. \A u \in Client \ M : Win[u] = s.win[u]
    OBVIOUS
  <2>5. Win \in [Client -> WindowType]
    <3>1. \A u \in Client : Win[u] \in WindowType
      BY <2>2, StaysIsTransitive
    <3> DEFINE f(u) == IF u \in M THEN Moved(s, u, occ) ELSE s.win[u]
    <3>2. \A u \in Client : f(u) \in WindowType
      BY <3>1
    <3>3. Win = [u \in Client |-> f(u)]
      OBVIOUS
    <3> HIDE DEF f, Win
    <3>4. QED
      BY <3>2, <3>3
  <2> HIDE DEF Win, M, t
  <2>6. /\ t \in WmType /\ t.win = Win /\ t.queue = s.queue /\ t.current = s.current
        /\ t.currentvs = s.currentvs /\ t.occupyWin = s.occupyWin
    BY <2>1, <2>5 DEF WmType
  <2>7. Keeps(s, t)
    BY <2>2, <2>6 DEF Keeps
  <2>8. ASSUME Fit(s), NoneHidden(s) \/ \E v \in VScreen : s.current[v] \in occ
        PROVE  Fit(t)
    <3>1. ASSUME NEW u \in M, u \in Client PROVE InPlace(s.current, Win[u])
      <4>1. Win[u].savevs = s.win[u].savevs
        BY <2>2, <3>1 DEF Alike
      <4>2. CASE Win[u].vs = None
        <5>1. \A v \in VScreen : s.current[v] \notin occ
          BY <2>3, <4>2 DEF Shows
        <5>2. Win[u].savevs = None
          BY <2>8, <3>1, <4>1, <5>1 DEF NoneHidden
        <5>3. QED
          BY <2>3, <4>2, <5>1, <5>2 DEF InPlace, Screen
      <4>3. CASE Win[u].vs # None
        BY <2>3, <4>3 DEF Shows, InPlace, Screen
      <4>4. QED
        BY <4>2, <4>3
    <3>2. \A u \in Client : /\ Win[u].managed = s.win[u].managed
                            /\ Win[u].savevs = s.win[u].savevs
      BY <2>2 DEF Alike
    <3>3. \A u \in Client : IF Win[u].managed THEN InPlace(s.current, Win[u])
                            ELSE Win[u].savevs = None
      BY <2>4, <2>8, <3>1, <3>2 DEF Fit
    <3>4. QED
      BY <2>6, <2>8, <3>3 DEF Fit
  <2>9. Joint(s, t)
    <3>1. SUFFICES ASSUME ~TransientHasOccupation, NEW u \in managed(s), NEW d \in managed(s),
                          d \in Dialogs(s, u), t.win[u].occupation # s.win[u].occupation
                   PROVE  t.win[d].occupation = t.win[u].occupation
      BY DEF Joint
    <3>2. u \in Client /\ d \in Client
      BY DEF managed
    <3>3. u \in M /\ t.win[u].occupation = occ
      BY <2>3, <2>4, <2>6, <3>1, <3>2
    <3>4. CASE s.win[d].occupation = occ
      BY <2>3, <2>4, <2>6, <3>2, <3>3, <3>4
    <3>5. CASE s.win[d].occupation # occ
      <4>1. d \in M
        BY <3>1, <3>3, <3>5, MoversAreClosed DEF M
      <4>2. QED
        BY <2>3, <2>6, <3>3, <4>1
    <3>6. QED
      BY <3>4, <3>5
  <2>10. QED
    BY <2>7, <2>8, <2>9 DEF Moves, Fits, FitsUnhidden, t
<1>3. QED
  BY <1>1, <1>2

\* The window whose occupation may be changed is one.
LEMMA CanChangeOccupationIs ==
  ASSUME NEW s \in WmType, NEW w \in Client
  PROVE  CanChangeOccupation(s, w) \in Client \cup {None}
BY DEF CanChangeOccupation, managed

\* The same of AddToWorkSpace.
LEMMA AddToWorkSpaceMoves ==
  ASSUME NEW s \in WmType, NEW w \in Client, NEW ws \in WorkSpace
  PROVE  /\ Moves(s, AddToWorkSpace(s, w, ws))
         /\ (\E v \in VScreen : s.current[v] = ws) => Fits(s, AddToWorkSpace(s, w, ws))
<1> DEFINE l == CanChangeOccupation(s, w)
           occ == s.win[l].occupation \cup {ws}
           t == AddToWorkSpace(s, w, ws)
<1>1. CASE l = None \/ OCCUPY(s.win[l], ws)
  <2>1. t = s
    BY <1>1 DEF AddToWorkSpace
  <2>2. QED
    BY <2>1, StillIsTransitive, StillGoes, GoesIsTransitive
<1>2. CASE ~(l = None \/ OCCUPY(s.win[l], ws))
  <2>1. t = ChangeOccupation(s, l, occ)
    BY <1>2 DEF AddToWorkSpace
  <2>2. l \in Client
    BY <1>2, CanChangeOccupationIs
  <2>3. occ \in SUBSET WorkSpace /\ ws \in occ
    <3> HIDE DEF l
    <3>1. QED
      BY <2>2, WmFields, Fields
  <2> HIDE DEF occ, l, t
  <2>4. QED
    BY <2>1, <2>2, <2>3, ChangeOccupationMoves DEF t
<1>3. QED
  BY <1>1, <1>2

(***************************************************************************)
(* Workspaces.                                                              *)
(***************************************************************************)
\* GotoWorkSpace brings every window where it should be, if none is hidden.
LEMMA GotoWorkSpaceGoes ==
  ASSUME NEW s \in WmType, NEW v \in VScreen, NEW ws \in WorkSpace
  PROVE  Goes(s, GotoWorkSpace(s, v, ws))
<1> DEFINE t == GotoWorkSpace(s, v, ws)
<1>1. CASE \E u \in VScreen : s.current[u] = ws
  <2>1. t = s
    BY <1>1 DEF GotoWorkSpace
  <2>2. QED
    BY <2>1, StillIsTransitive, StillGoes
<1>2. CASE \A u \in VScreen : s.current[u] # ws
  <2> DEFINE Win == [w \in Client |-> IF s.win[w].managed THEN Switched(s, v, ws, w)
                                      ELSE s.win[w]]
             c == [s.current EXCEPT ![v] = ws]
  <2>1. t = [s EXCEPT !.win = Win, !.current = c]
    BY <1>2 DEF GotoWorkSpace
  <2>2. \A w \in Client : /\ Alike(s.win[w], Win[w])
                          /\ Win[w].occupation = s.win[w].occupation
    BY SwitchedPlaces, SameStays DEF Stays
  <2>3. \A w \in Client : s.win[w].managed /\ Shows(s.current, VScreen, s.win[w])
                          => Shows(c, VScreen, Win[w])
    BY SwitchedPlaces
  <2>4. Win \in [Client -> WindowType]
    <3> DEFINE f(w) == IF s.win[w].managed THEN Switched(s, v, ws, w) ELSE s.win[w]
    <3>1. \A w \in Client : f(w) \in WindowType
      BY SwitchedPlaces, WmFields, StaysIsTransitive
    <3>2. Win = [w \in Client |-> f(w)]
      OBVIOUS
    <3> HIDE DEF f, Win
    <3>3. QED
      BY <3>1, <3>2
  <2>5. s.current \in [VScreen -> WorkSpace]
    BY WmFields
  <2>6. c \in [VScreen -> WorkSpace]
    BY <2>5
  <2>7. (\A u, x \in VScreen : s.current[u] = s.current[x] => u = x)
        => (\A u, x \in VScreen : c[u] = c[x] => u = x)
    BY <1>2, <2>5
  <2> HIDE DEF Win, c, t
  <2>8. /\ t \in WmType /\ t.win = Win /\ t.queue = s.queue /\ t.current = c
        /\ t.currentvs = s.currentvs /\ t.occupyWin = s.occupyWin
    BY <2>1, <2>4, <2>6 DEF WmType
  <2>9. Keeps(s, t)
    BY <2>2, <2>8 DEF Keeps
  <2>10. FitsUnhidden(s, t)
    <3>1. SUFFICES ASSUME NoneHidden(s), Fit(s) PROVE Fit(t)
      BY DEF FitsUnhidden
    <3>2. NoneHidden(t)
      BY <2>9, <3>1, UnhiddenStays
    <3>3. \A w \in Client : t.win[w].managed = s.win[w].managed
      BY <2>2, <2>8 DEF Alike
    <3>4. ASSUME NEW w \in Client, s.win[w].managed PROVE InPlace(c, t.win[w])
      <4>1. InPlace(s.current, s.win[w]) /\ s.win[w].savevs = None
        BY <3>1, <3>4 DEF Fit, NoneHidden
      <4>2. Shows(s.current, VScreen, s.win[w])
        BY <4>1 DEF InPlace, Screen, Shows
      <4>3. Shows(c, VScreen, t.win[w]) /\ t.win[w].savevs = None
        BY <2>3, <2>8, <3>2, <3>4, <4>2 DEF NoneHidden
      <4>4. QED
        BY <4>3 DEF InPlace, Screen, Shows
    <3>5. QED
      BY <2>7, <2>8, <3>1, <3>2, <3>3, <3>4 DEF Fit, NoneHidden
  <2>11. QED
    BY <2>2, <2>8, <2>9, <2>10 DEF Goes, t
<1>3. QED
  BY <1>1, <1>2

\* So does WarpToWindow,
LEMMA WarpToWindowGoes ==
  ASSUME NEW s \in WmType, NEW w \in Client
  PROVE  Goes(s, WarpToWindow(s, w))
<1> DEFINE occ == s.win[w].occupation
           ws == CHOOSE ws \in occ : \A x \in occ : ws <= x
<1>1. CASE s.win[w].vs # None \/ occ = {}
  <2>1. WarpToWindow(s, w) = s
    BY <1>1 DEF WarpToWindow
  <2>2. QED
    BY <2>1, StillIsTransitive, StillGoes
<1>2. CASE ~(s.win[w].vs # None \/ occ = {})
  <2>1. WarpToWindow(s, w) = GotoWorkSpace(s, s.currentvs, ws)
    BY <1>2 DEF WarpToWindow
  <2>2. occ \in SUBSET WorkSpace
    BY WmFields, Fields
  <2>3. occ \in SUBSET Nat
    <3>1. WorkSpace \in SUBSET Nat
      BY ScreenAssumption DEF WorkSpace
    <3>2. QED
      BY <2>2, <3>1
  <2>4. occ # {}
    BY <1>2
  <2> HIDE DEF occ
  <2>5. ws \in occ
    BY <2>3, <2>4, LeastNat
  <2> HIDE DEF ws
  <2>6. QED
    BY <2>1, <2>2, <2>5, WmFields, GotoWorkSpaceGoes
<1>3. QED
  BY <1>1, <1>2

\* and DeIconify, which goes to another workspace only for WarpCursor.
LEMMA DeIconifyGoes ==
  ASSUME NEW s \in WmType, NEW w \in Client
  PROVE  /\ Goes(s, DeIconify(s, w))
         /\ WarpCursor = {} => Fits(s, DeIconify(s, w))
<1> DEFINE m == ReMap(s, {w})
           u == IF s.win[w].isicon /\ w \in WarpCursor THEN WarpToWindow(m, w) ELSE m
           t == ReMapTransients(u, w)
<1>1. DeIconify(s, w) = t
  BY DEF DeIconify
<1>2. Goes(s, m) /\ Fits(s, m) /\ m \in WmType
  BY ReMapStill, StillGoes, StillIsTransitive
<1> HIDE DEF m
<1>3. Goes(m, u) /\ u \in WmType /\ (WarpCursor = {} => Fits(m, u))
  <2>1. Goes(m, m) /\ Fits(m, m)
    BY <1>2, StillIsTransitive, StillGoes
  <2>2. Goes(m, WarpToWindow(m, w))
    BY <1>2, WarpToWindowGoes
  <2>3. QED
    BY <2>1, <2>2, GoesIsTransitive
<1> HIDE DEF u
<1>4. Goes(u, t) /\ Fits(u, t)
  BY <1>3, ReMapTransientsStill, StillGoes
<1> HIDE DEF t
<1>5. QED
  BY <1>1, <1>2, <1>3, <1>4, GoesIsTransitive

(***************************************************************************)
(* A client's window goes back to the root.                                 *)
(***************************************************************************)
\* Being reparented to the root is no change of place.
LEMMA ReparentToRootStill ==
  ASSUME NEW s \in WmType, NEW w \in Client
  PROVE  Still(s, ReparentToRoot(s, w))
<1>1. CASE ~s.win[w].exists
  BY <1>1, StillIsTransitive DEF ReparentToRoot
<1>2. CASE s.win[w].exists
  <2> DEFINE x == [s.win[w] EXCEPT !.inFrame = FALSE]
             Win == [s.win EXCEPT ![w] = x]
             q == Reparentings(s.win[w], w)
  <2>1. ReparentToRoot(s, w) = [s EXCEPT !.win = Win, !.queue = s.queue \o q]
    BY <1>2 DEF ReparentToRoot
  <2>2. q \in Seq(AnEvent)
    BY ReparentingsAreEvents
  <2>3. s.win[w] \in WindowType /\ s.win \in [Client -> WindowType]
    BY WmFields
  <2>4. Stays(s.win[w], x)
    <3> DEFINE r == s.win[w]
    <3>1. r \in WindowType
      BY <2>3
    <3> HIDE DEF r
    <3>2. Stays(r, [r EXCEPT !.inFrame = FALSE])
      BY <3>1 DEF WindowType, Stays, Alike
    <3>3. QED
      BY <3>2 DEF r
  <2> HIDE DEF x, q
  <2>5. Win \in [Client -> WindowType] /\ \A u \in Client : Stays(s.win[u], Win[u])
    BY <2>3, <2>4, SameStays, StaysIsTransitive
  <2> HIDE DEF Win
  <2>6. QED
    BY <2>1, <2>2, <2>5, SetSeveral
<1>3. QED
  BY <1>1, <1>2

\* Nor is being unsqueezed and reparented.
LEMMA RestoreWinConfigStill ==
  ASSUME NEW s \in WmType, NEW w \in Client
  PROVE  Still(s, RestoreWinConfig(s, w))
<1> DEFINE u == IF s.win[w].squeezed THEN Squeeze(s, w) ELSE s
<1>1. Still(s, u) /\ u \in WmType
  BY SqueezeStill, StillIsTransitive
<1> HIDE DEF u
<1>2. Still(u, ReparentToRoot(u, w))
  BY <1>1, ReparentToRootStill
<1>3. QED
  BY <1>1, <1>2, StillIsTransitive DEF RestoreWinConfig, u

(***************************************************************************)
(* Taking windows over and forgetting them.                                 *)
(***************************************************************************)
\* Every window that is dead but known has its DestroyNotify waiting, and f.occupy
\* is about a window that is known.
DeathsAreTold(s) ==
  \A w \in Client : s.win[w].managed /\ ~s.win[w].exists
                    => Event("Destroy", w) \in Range(s.queue)

\* A window that is not known is not remembered as hidden.
Tidy(s) == \A w \in Client : ~s.win[w].managed => s.win[w].savevs = None

Sound(s) ==
  /\ s \in WmType /\ DeathsAreTold(s) /\ Tidy(s)
  /\ s.occupyWin \in managed(s) \cup {None}

\* What is sound stays sound where windows only move.
LEMMA KeepsSound ==
  ASSUME NEW s, NEW t, Keeps(s, t), Sound(s)
  PROVE  Sound(t)
<1>1. DeathsAreTold(t) /\ Tidy(t)
  BY DEF Keeps, Alike, Sound, DeathsAreTold, Tidy
<1>2. QED
  BY <1>1, UnhiddenStays DEF Keeps, Sound

\* The state to start a window in is one.
LEMMA StartStateIs ==
  ASSUME NEW r, NEW w \in Client, NEW begin
  PROVE  StartState(r, w, begin) \in {"Normal", "Iconic", "Inactive", "Withdrawn"}
<1>1. InitialState[w] \in {"Normal", "Iconic", None}
  BY ClientAssumption
<1>2. QED
  BY <1>1 DEF StartState

\* SetupOccupation puts a new window where it should be.
LEMMA SetupOccupationPlaces ==
  ASSUME NEW s \in WmType, NEW w \in Client, NEW begin
  PROVE  /\ Alike(s.win[w], SetupOccupation(s, w, begin))
         /\ Shows(s.current, VScreen, SetupOccupation(s, w, begin))
<1> DEFINE r == s.win[w]
           occ == StartOccupation(s, w, begin)
           first == FirstShowing(s, VScreen, occ)
           vs == IF s.current[s.currentvs] \in occ THEN s.currentvs ELSE first
           parent == IF vs = None THEN s.currentvs ELSE vs
           state == StartState(r, w, begin)
           st == CASE vs # None /\ state = "Inactive" -> "Normal"
                   [] vs = None /\ state = "Normal" -> "Inactive"
                   [] OTHER -> r.state
           x == [r EXCEPT !.occupation = occ, !.prop = occ,
                          !.vs = vs, !.parent_vs = parent, !.root = parent, !.state = st]
<1>1. SetupOccupation(s, w, begin) = x
  BY DEF SetupOccupation
<1>2. r \in WindowType /\ s.current \in [VScreen -> WorkSpace] /\ s.currentvs \in VScreen
  BY WmFields
<1>3. occ \in SUBSET WorkSpace
  <2>1. \A l \in managed(s) : s.win[l].occupation \in SUBSET WorkSpace
    BY WmFields, Fields DEF managed
  <2>2. /\ r.prop \in SUBSET WorkSpace /\ Configured[w] \in SUBSET WorkSpace
        /\ EwmhGetOccupation(r, w) \in SUBSET WorkSpace
    BY <1>2, Fields, ClientAssumption DEF EwmhGetOccupation
  <2>3. {s.current[s.currentvs]} \in SUBSET WorkSpace
    BY <1>2
  <2>4. QED
    BY <2>1, <2>2, <2>3 DEF StartOccupation
<1>4. \/ first = None /\ \A u \in VScreen : s.current[u] \notin occ
      \/ first \in VScreen /\ first # None /\ s.current[first] \in occ
  BY <1>3, FirstShowingIs
<1>5. \/ vs = None /\ \A u \in VScreen : s.current[u] \notin occ
      \/ vs \in VScreen /\ vs # None /\ s.current[vs] \in occ
  BY <1>2, <1>4, ScreenAssumption
<1>6. vs \in MaybeVScreen /\ parent \in MaybeVScreen
  BY <1>2, <1>5 DEF MaybeVScreen
<1>7. st \in WmState
  BY <1>2, Fields DEF WmState
<1> HIDE DEF r, occ, vs, parent, st
<1>8. x \in WindowType /\ x.managed = r.managed /\ x.exists = r.exists /\ x.savevs = r.savevs
  <2> DEFINE y == [r EXCEPT !.occupation = occ, !.prop = occ]
  <2>1. y \in WindowType /\ y.managed = r.managed /\ y.exists = r.exists /\ y.savevs = r.savevs
    BY <1>2, <1>3, PlaceFields DEF Alike
  <2>2. x = [y EXCEPT !.vs = vs, !.parent_vs = parent, !.root = parent, !.state = st]
    OBVIOUS
  <2> DEFINE z == [y EXCEPT !.vs = vs, !.parent_vs = parent, !.root = parent, !.state = st]
  <2> HIDE DEF y
  <2>3. z \in WindowType
    BY <1>6, <1>7, <2>1 DEF WindowType, MaybeVScreen
  <2>4. z.managed = y.managed /\ z.exists = y.exists /\ z.savevs = y.savevs
    BY <2>1 DEF WindowType
  <2>5. QED
    BY <2>1, <2>2, <2>3, <2>4
<1>9. x.vs = vs /\ x.occupation = occ
  BY <1>2 DEF WindowType
<1> HIDE DEF x
<1>10. Shows(s.current, VScreen, x)
  BY <1>5, <1>9 DEF Shows
<1>11. QED
  BY <1>1, <1>8, <1>10 DEF Alike, r

\* What a handler may do: the windows that stay known keep their dialogs together,
\* and none becomes hidden.
Changes(s, t) ==
  /\ t \in WmType
  /\ Sound(s) => Sound(t)
  /\ FitsUnhidden(s, t)
  /\ t.currentvs = s.currentvs /\ t.occupyWin \in {None, s.occupyWin}
  /\ \A w \in Client : t.win[w].savevs \in {None, s.win[w].savevs}
  /\ ~TransientHasOccupation =>
       \A w, d \in managed(s) \cap managed(t) :
         d \in Dialogs(s, w) /\ t.win[w].occupation # s.win[w].occupation
         => t.win[d].occupation = t.win[w].occupation

\* Moves of windows are among the changes of a step.
LEMMA MovesChanges ==
  ASSUME NEW s, NEW t, Moves(s, t)
  PROVE  Changes(s, t)
<1>1. t \in WmType /\ t.currentvs = s.currentvs /\ t.occupyWin = s.occupyWin
  BY DEF Moves, Keeps
<1>2. Sound(s) => Sound(t)
  BY KeepsSound DEF Moves
<1>3. \A w \in Client : t.win[w].savevs = s.win[w].savevs
  BY DEF Moves, Keeps, Alike
<1>4. QED
  BY <1>1, <1>2, <1>3 DEF Moves, Joint, Changes

\* AddWindow adds one window, that is where it should be, and no other.
LEMMA AddWindowAdds ==
  ASSUME NEW s \in WmType, NEW w \in Client, NEW begin, ~s.win[w].managed
  PROVE  /\ AddWindow(s, w, begin) \in WmType
         /\ Sound(s) => Sound(AddWindow(s, w, begin))
         /\ Fits(s, AddWindow(s, w, begin))
         /\ AddWindow(s, w, begin).current = s.current
         /\ AddWindow(s, w, begin).currentvs = s.currentvs
         /\ AddWindow(s, w, begin).occupyWin = s.occupyWin
         /\ \A u \in Client : AddWindow(s, w, begin).win[u].savevs = s.win[u].savevs
         /\ \A u \in Client \ {w} : AddWindow(s, w, begin).win[u] = s.win[u]
<1> DEFINE t == AddWindow(s, w, begin)
<1>1. CASE ~s.win[w].exists
  BY <1>1 DEF AddWindow, Fits
<1>2. CASE s.win[w].exists
  <2> DEFINE y == SetupOccupation(s, w, begin)
             x == [y EXCEPT !.managed = TRUE, !.inFrame = TRUE]
             Win == [s.win EXCEPT ![w] = x]
             q == Reparentings(s.win[w], w)
             p == s.queue \o q
  <2>1. t = [s EXCEPT !.win = Win, !.queue = p]
    BY <1>2 DEF AddWindow
  <2>2. p \in Seq(AnEvent) /\ Range(s.queue) \subseteq Range(p)
    BY ReparentingsAreEvents, WmFields, ConcatRange
  <2>3. Alike(s.win[w], y) /\ Shows(s.current, VScreen, y)
    BY SetupOccupationPlaces
  <2> HIDE DEF y, p
  <2>4. /\ x \in WindowType /\ x.managed = TRUE /\ x.exists = y.exists
        /\ x.savevs = y.savevs /\ x.vs = y.vs /\ x.occupation = y.occupation
    <3>1. y \in WindowType
      BY <2>3, StaysIsTransitive
    <3>2. QED
      BY <3>1 DEF WindowType
  <2> HIDE DEF x
  <2>5. /\ Win \in [Client -> WindowType] /\ Win[w] = x
        /\ \A u \in Client \ {w} : Win[u] = s.win[u]
    BY <2>4, WmFields
  <2> HIDE DEF Win, t
  <2>6. /\ t \in WmType /\ t.win = Win /\ t.queue = p /\ t.current = s.current
        /\ t.currentvs = s.currentvs /\ t.occupyWin = s.occupyWin
    BY <2>1, <2>2, <2>5 DEF WmType, AnEvent
  <2>7. x.exists /\ x.savevs = s.win[w].savevs
    BY <1>2, <2>3, <2>4 DEF Alike
  <2>8. ASSUME Sound(s) PROVE Sound(t)
    <3>1. DeathsAreTold(t) /\ Tidy(t)
      BY <2>4, <2>2, <2>5, <2>6, <2>7, <2>8 DEF Sound, DeathsAreTold, Tidy
    <3>2. managed(s) \subseteq managed(t)
      BY <2>4, <2>5, <2>6 DEF managed
    <3>3. QED
      BY <2>6, <2>8, <3>1, <3>2 DEF Sound
  <2>9. ASSUME Fit(s) PROVE Fit(t)
    <3>1. s.win[w].savevs = None
      BY <2>9 DEF Fit
    <3>2. InPlace(s.current, x)
      BY <2>3, <2>4, <2>7, <3>1 DEF InPlace, Screen, Shows
    <3>3. \A u \in Client \ {w} : t.win[u] = s.win[u]
      BY <2>5, <2>6
    <3>4. QED
      BY <2>4, <2>5, <2>6, <2>9, <3>2, <3>3 DEF Fit
  <2>10. QED
    BY <2>5, <2>6, <2>7, <2>8, <2>9 DEF Fits, t
<1>3. QED
  BY <1>1, <1>2

(***************************************************************************)
(* Handlers.                                                                *)
(***************************************************************************)
\* The changes that handlers themselves make of a window.
LEMMA HandlerFields ==
  ASSUME NEW r \in WindowType
  PROVE  /\ Stays(r, [r EXCEPT !.mapped = TRUE])
         /\ Stays(r, [r EXCEPT !.state = "Withdrawn"])
         /\ Stays(r, [r EXCEPT !.away = TRUE, !.frame = TRUE])
         /\ Stays(r, [r EXCEPT !.frame = TRUE, !.state = "Normal", !.mapped = TRUE])
         /\ Stays(r, [r EXCEPT !.iconUp = FALSE, !.frame = TRUE, !.mapped = TRUE,
                               !.isicon = FALSE, !.icon_on = FALSE])
         /\ Stays(r, [r EXCEPT !.asks = TRUE])
         /\ Stays(r, [r EXCEPT !.asks = FALSE, !.up = FALSE])
         /\ Stays(r, [r EXCEPT !.up = FALSE])
<1>1. Stays(r, [r EXCEPT !.mapped = TRUE])
  BY DEF WindowType, Alike, Stays
<1>2. Stays(r, [r EXCEPT !.state = "Withdrawn"])
  BY DEF WindowType, Alike, Stays, WmState
<1>3. Stays(r, [r EXCEPT !.away = TRUE, !.frame = TRUE])
  BY DEF WindowType, Alike, Stays
<1>4. Stays(r, [r EXCEPT !.frame = TRUE, !.state = "Normal", !.mapped = TRUE])
  BY DEF WindowType, Alike, Stays, WmState
<1>5. Stays(r, [r EXCEPT !.iconUp = FALSE, !.frame = TRUE, !.mapped = TRUE,
                         !.isicon = FALSE, !.icon_on = FALSE])
  BY DEF WindowType, Alike, Stays
<1>6. Stays(r, [r EXCEPT !.asks = TRUE])
  BY DEF WindowType, Alike, Stays
<1>7. Stays(r, [r EXCEPT !.asks = FALSE, !.up = FALSE])
  BY DEF WindowType, Alike, Stays
<1>8. Stays(r, [r EXCEPT !.up = FALSE])
  BY DEF WindowType, Alike, Stays
<1>9. QED
  BY <1>1, <1>2, <1>3, <1>4, <1>5, <1>6, <1>7, <1>8

\* The same in the state.
LEMMA HandlerStates ==
  ASSUME NEW s \in WmType, NEW w \in Client
  PROVE  /\ Still(s, [s EXCEPT !.win[w].mapped = TRUE])
         /\ Still(s, [s EXCEPT !.win[w].state = "Withdrawn"])
         /\ Still(s, [s EXCEPT !.win[w].away = TRUE, !.win[w].frame = TRUE])
         /\ Still(s, [s EXCEPT !.win[w].frame = TRUE, !.win[w].state = "Normal",
                               !.win[w].mapped = TRUE])
         /\ Still(s, [s EXCEPT !.win[w].iconUp = FALSE, !.win[w].frame = TRUE,
                               !.win[w].mapped = TRUE, !.win[w].isicon = FALSE,
                               !.win[w].icon_on = FALSE])
         /\ Still(s, [s EXCEPT !.win[w].up = FALSE])
<1> DEFINE r == s.win[w]
<1>0. r \in WindowType /\ s.win \in [Client -> WindowType]
  BY WmFields
<1>1. Still(s, [s EXCEPT !.win[w].mapped = TRUE])
  BY <1>0, HandlerFields, SetWindow, Zenon
<1>2. Still(s, [s EXCEPT !.win[w].state = "Withdrawn"])
  BY <1>0, HandlerFields, SetWindow, Zenon
<1>3. Still(s, [s EXCEPT !.win[w].away = TRUE, !.win[w].frame = TRUE])
  <2> DEFINE x == [r EXCEPT !.away = TRUE, !.frame = TRUE]
  <2>1. [s EXCEPT !.win[w].away = TRUE, !.win[w].frame = TRUE] = [s EXCEPT !.win[w] = x]
    BY <1>0 DEF WmType
  <2>2. QED
    BY <1>0, <2>1, HandlerFields, SetWindow, Zenon
<1>4. Still(s, [s EXCEPT !.win[w].frame = TRUE, !.win[w].state = "Normal",
                         !.win[w].mapped = TRUE])
  <2> DEFINE x == [r EXCEPT !.frame = TRUE, !.state = "Normal", !.mapped = TRUE]
  <2>1. [s EXCEPT !.win[w].frame = TRUE, !.win[w].state = "Normal", !.win[w].mapped = TRUE]
         = [s EXCEPT !.win[w] = x]
    BY <1>0 DEF WmType
  <2>2. QED
    BY <1>0, <2>1, HandlerFields, SetWindow, Zenon
<1>5. Still(s, [s EXCEPT !.win[w].iconUp = FALSE, !.win[w].frame = TRUE,
                         !.win[w].mapped = TRUE, !.win[w].isicon = FALSE,
                         !.win[w].icon_on = FALSE])
  <2> DEFINE x == [r EXCEPT !.iconUp = FALSE, !.frame = TRUE, !.mapped = TRUE,
                            !.isicon = FALSE, !.icon_on = FALSE]
  <2>1. [s EXCEPT !.win[w].iconUp = FALSE, !.win[w].frame = TRUE,
                  !.win[w].mapped = TRUE, !.win[w].isicon = FALSE,
                  !.win[w].icon_on = FALSE] = [s EXCEPT !.win[w] = x]
    BY <1>0 DEF WmType
  <2>2. QED
    BY <1>0, <2>1, HandlerFields, SetWindow, Zenon
<1>6. Still(s, [s EXCEPT !.win[w].up = FALSE])
  BY <1>0, HandlerFields, SetWindow, Zenon
<1>7. QED
  BY <1>1, <1>2, <1>3, <1>4, <1>5, <1>6

\* Mapping a window in any state may bring it into the workspace that is shown.
LEMMA MapInStateMoves ==
  ASSUME NEW s \in WmType, NEW w \in Client, NEW begin,
         NEW state \in {"Normal", "Iconic", "Inactive", "Withdrawn"}
  PROVE  /\ Moves(s, MapInState(s, w, state, begin))
         /\ Fits(s, MapInState(s, w, state, begin))
<1> DEFINE here == s.current[s.currentvs]
           down == IF w \in StartSqueezed THEN Squeeze(s, w) ELSE XMapWindow(s, {w})
           normal == [down EXCEPT !.win[w].frame = TRUE, !.win[w].state = "Normal",
                                  !.win[w].mapped = TRUE]
           warp == IF ~OCCUPY(s.win[w], here) /\ ~begin /\ w \in WarpOnDeIconify
                   THEN AddToWorkSpace(s, w, here) ELSE s
           far == [warp EXCEPT !.win[w].mapped = TRUE]
           shown == [XMapWindow(far, {w}) EXCEPT !.win[w].away = TRUE, !.win[w].frame = TRUE]
           off == IF w \notin UnmapByMovingFarAway THEN far ELSE shown
           t == MapInState(s, w, state, begin)
<1>1. CASE state \in {"Normal", "Withdrawn"}
  <2>1. t = normal
    BY <1>1 DEF MapInState
  <2>2. Still(s, down) /\ down \in WmType
    BY SqueezeStill, XMapWindowStill, StillIsTransitive
  <2> HIDE DEF down
  <2>3. Still(down, normal)
    BY <2>2, HandlerStates
  <2> HIDE DEF normal, t
  <2>4. QED
    BY <2>1, <2>2, <2>3, StillIsTransitive, StillGoes, GoesIsTransitive DEF t
<1>2. CASE state = "Inactive"
  <2> DEFINE u == IF w \in StartSqueezed THEN Squeeze(off, w) ELSE off
  <2>1. t = u
    BY <1>2 DEF MapInState
  <2>2. Moves(s, warp) /\ Fits(s, warp)
    <3>1. s.currentvs \in VScreen /\ here \in WorkSpace
      BY WmFields
    <3>2. Moves(s, s) /\ Fits(s, s)
      BY StillIsTransitive, StillGoes, GoesIsTransitive
    <3>3. Moves(s, AddToWorkSpace(s, w, here)) /\ Fits(s, AddToWorkSpace(s, w, here))
      BY <3>1, AddToWorkSpaceMoves
    <3>4. QED
      BY <3>2, <3>3
  <2> HIDE DEF warp
  <2>3. warp \in WmType
    BY <2>2, GoesIsTransitive
  <2>4. Still(warp, far)
    BY <2>3, HandlerStates, Zenon
  <2> HIDE DEF far
  <2>5. Still(far, shown)
    <3> DEFINE m == XMapWindow(far, {w})
    <3>0. far \in WmType
      BY <2>4, StillIsTransitive
    <3>1. Still(far, m) /\ m \in WmType
      BY <3>0, XMapWindowStill, StillIsTransitive
    <3> HIDE DEF m
    <3>2. Still(m, [m EXCEPT !.win[w].away = TRUE, !.win[w].frame = TRUE])
      BY <3>1, HandlerStates
    <3>3. QED
      BY <3>1, <3>2, StillIsTransitive DEF m
  <2> HIDE DEF shown
  <2>6. Still(far, off) /\ off \in WmType
    BY <2>4, <2>5, StillIsTransitive
  <2> HIDE DEF off
  <2>7. Still(off, u)
    BY <2>6, SqueezeStill, StillIsTransitive
  <2> HIDE DEF u, t
  <2>8. Still(warp, t)
    BY <2>1, <2>4, <2>6, <2>7, StillIsTransitive
  <2>9. QED
    BY <2>2, <2>8, StillGoes, GoesIsTransitive DEF t
<1>3. CASE state = "Iconic"
  <2>1. t = Iconify(s, w)
    BY <1>3 DEF MapInState
  <2>2. QED
    BY <2>1, IconifyStill, StillGoes, GoesIsTransitive
<1>4. QED
  BY <1>1, <1>2, <1>3

\* Mapping a window, known or new.
LEMMA MapRequestChanges ==
  ASSUME NEW s \in WmType, NEW w \in Client, NEW begin
  PROVE  /\ Changes(s, MapRequest(s, w, begin))
         /\ WarpCursor = {} => Fits(s, MapRequest(s, w, begin))
<1> DEFINE a == IF s.win[w].managed THEN s ELSE AddWindow(s, w, begin)
           r == a.win[w]
           here == a.current[a.currentvs]
           warp == IF ~OCCUPY(r, here) /\ w \in WarpOnDeIconify
                   THEN AddToWorkSpace(a, w, here) ELSE a
           squeezed == IF w \in StartSqueezed THEN Squeeze(warp, w) ELSE warp
           state == StartState(r, w, begin)
           t == MapRequest(s, w, begin)
<1>1. /\ a \in WmType /\ Fits(s, a) /\ (Sound(s) => Sound(a))
      /\ a.currentvs = s.currentvs /\ a.occupyWin = s.occupyWin
      /\ \A u \in Client : a.win[u].savevs = s.win[u].savevs
      /\ \A u \in managed(s) : a.win[u] = s.win[u]
  <2>1. CASE s.win[w].managed
    BY <2>1 DEF Fits, managed
  <2>2. CASE ~s.win[w].managed
    BY <2>2, AddWindowAdds DEF managed
  <2>3. QED
    BY <2>1, <2>2
<1>2. \/ t = a
      \/ t = MapInState(a, w, state, begin)
      \/ t = DeIconify(squeezed, w)
  BY DEF MapRequest
<1> HIDE DEF a, t
<1>3. Moves(a, t) /\ (WarpCursor = {} => Fits(a, t))
  <2>1. CASE t = a
    BY <1>1, <2>1, StillIsTransitive, StillGoes, GoesIsTransitive
  <2>2. CASE t = MapInState(a, w, state, begin)
    BY <1>1, <2>2, StartStateIs, MapInStateMoves
  <2>3. CASE t = DeIconify(squeezed, w)
    <3>1. a.currentvs \in VScreen /\ here \in WorkSpace
      BY <1>1, WmFields
    <3>2. Moves(a, a) /\ Fits(a, a)
      BY <1>1, StillIsTransitive, StillGoes, GoesIsTransitive
    <3>3. Moves(a, AddToWorkSpace(a, w, here)) /\ Fits(a, AddToWorkSpace(a, w, here))
      BY <1>1, <3>1, AddToWorkSpaceMoves
    <3>4. Moves(a, warp) /\ Fits(a, warp)
      BY <3>2, <3>3
    <3> HIDE DEF warp
    <3>5. warp \in WmType
      BY <3>4, GoesIsTransitive
    <3>6. Still(warp, squeezed) /\ squeezed \in WmType
      BY <3>5, SqueezeStill, StillIsTransitive
    <3> HIDE DEF squeezed
    <3>7. Goes(squeezed, t) /\ (WarpCursor = {} => Fits(squeezed, t))
      BY <2>3, <3>6, DeIconifyGoes
    <3>8. QED
      BY <3>4, <3>6, <3>7, StillGoes, GoesIsTransitive
  <2>4. QED
    BY <1>2, <2>1, <2>2, <2>3
<1>4. Changes(a, t)
  BY <1>3, MovesChanges
<1>5. FitsUnhidden(s, t)
  <2>1. NoneHidden(s) => NoneHidden(a)
    BY <1>1 DEF NoneHidden
  <2>2. QED
    BY <1>1, <1>4, <2>1 DEF Changes, Fits, FitsUnhidden
<1>6. ~TransientHasOccupation =>
         \A u, d \in managed(s) \cap managed(t) :
           d \in Dialogs(s, u) /\ t.win[u].occupation # s.win[u].occupation
           => t.win[d].occupation = t.win[u].occupation
  <2>1. managed(s) \subseteq managed(a)
    BY <1>1 DEF managed
  <2>2. \A u \in managed(s) : Dialogs(s, u) \subseteq Dialogs(a, u)
    BY <2>1 DEF Dialogs
  <2>3. QED
    BY <1>1, <1>4, <2>1, <2>2 DEF Changes
<1>7. Changes(s, t)
  BY <1>1, <1>4, <1>5, <1>6 DEF Changes
<1>8. QED
  BY <1>1, <1>3, <1>7 DEF t, Fits

\* A step that leaves every window where it is, and may take an event that tells
\* of no death.
Passes(s, t) ==
  /\ t \in WmType
  /\ Sound(s) => Sound(t)
  /\ Fits(s, t)
  /\ t.currentvs = s.currentvs /\ t.occupyWin = s.occupyWin
  /\ \A w \in Client : Stays(s.win[w], t.win[w])

\* Where nothing moves and no event is taken, nothing is lost.
LEMMA StillPasses ==
  ASSUME NEW s, NEW t, Still(s, t)
  PROVE  Passes(s, t)
<1>1. Keeps(s, t) /\ Fits(s, t)
  BY StillGoes DEF Still
<1>2. QED
  BY <1>1, KeepsSound DEF Passes, Still, Keeps

\* What may follow such a step.
LEMMA PassesChanges ==
  ASSUME NEW s, NEW t, NEW u, Passes(s, t)
  PROVE  /\ Changes(t, u) => Changes(s, u)
         /\ Changes(s, t)
         /\ Passes(t, u) => Passes(s, u)
<1>1. \A w \in Client : /\ t.win[w].managed = s.win[w].managed
                        /\ t.win[w].savevs = s.win[w].savevs
                        /\ t.win[w].occupation = s.win[w].occupation
  BY DEF Passes, Stays, Alike
<1>2. managed(t) = managed(s) /\ \A w \in Client : Dialogs(t, w) = Dialogs(s, w)
  BY <1>1 DEF managed, Dialogs
<1>3. NoneHidden(s) => NoneHidden(t)
  BY <1>1 DEF NoneHidden
<1>4. \A w \in managed(s) : w \in Client
  BY DEF managed
<1>5. ASSUME Changes(t, u) PROVE Changes(s, u)
  <2>1. FitsUnhidden(s, u)
    BY <1>3, <1>5 DEF FitsUnhidden, Changes, Passes, Fits
  <2>2. ~TransientHasOccupation =>
         \A w, d \in managed(s) \cap managed(u) :
           d \in Dialogs(s, w) /\ u.win[w].occupation # s.win[w].occupation
           => u.win[d].occupation = u.win[w].occupation
    BY <1>1, <1>2, <1>4, <1>5 DEF Changes
  <2>3. /\ u \in WmType /\ (Sound(s) => Sound(u)) /\ u.currentvs = s.currentvs
        /\ u.occupyWin \in {None, s.occupyWin}
        /\ \A w \in Client : u.win[w].savevs \in {None, s.win[w].savevs}
    BY <1>1, <1>5 DEF Changes, Passes
  <2>4. QED
    BY <2>1, <2>2, <2>3 DEF Changes
<1>6. Changes(s, t)
  BY <1>1, <1>4 DEF Changes, Passes, FitsUnhidden, Fits
<1>7. Passes(t, u) => Passes(s, u)
  BY StaysIsTransitive DEF Passes, Fits
<1>8. QED
  BY <1>5, <1>6, <1>7

\* Another queue, that still holds the events that tell of deaths.
LEMMA RequeuedPasses ==
  ASSUME NEW s \in WmType, NEW q \in Seq(AnEvent),
         \A w \in Client : Event("Destroy", w) \in Range(s.queue)
                           => Event("Destroy", w) \in Range(q)
  PROVE  Passes(s, [s EXCEPT !.queue = q])
<1> DEFINE t == [s EXCEPT !.queue = q]
<1>1. /\ t \in WmType /\ t.win = s.win /\ t.queue = q /\ t.current = s.current
      /\ t.currentvs = s.currentvs /\ t.occupyWin = s.occupyWin
  BY DEF WmType, AnEvent
<1> HIDE DEF t
<1>2. Sound(s) => Sound(t)
  BY <1>1 DEF Sound, DeathsAreTold, Tidy, managed
<1>3. Fits(s, t)
  BY <1>1 DEF Fits, Fit
<1>4. \A w \in Client : Stays(s.win[w], t.win[w])
  BY <1>1, SameStays
<1>5. Passes(s, t)
  BY <1>1, <1>2, <1>3, <1>4 DEF Passes
<1>6. QED
  BY <1>5 DEF t

\* What is forgotten is neither known nor hidden.
LEMMA ForgottenIs ==
  ASSUME NEW r \in WindowType
  PROVE  /\ Forgotten(r) \in WindowType
         /\ Forgotten(r).managed = FALSE /\ Forgotten(r).savevs = None
<1> DEFINE lives == r.exists /\ ~r.inFrame
           a == r.up /\ lives
           b == r.asks /\ lives
           st == IF lives THEN r.state ELSE None
           occ == IF lives THEN r.prop ELSE {}
           x == [Unmanaged EXCEPT !.exists = lives, !.up = a, !.state = st, !.prop = occ,
                                  !.asks = b]
<1>1. Forgotten(r) = x
  BY DEF Forgotten
<1>2. lives \in BOOLEAN /\ a \in BOOLEAN /\ b \in BOOLEAN
  OBVIOUS
<1>3. st \in WmState /\ occ \in SUBSET WorkSpace
  BY Fields DEF WmState
<1> HIDE DEF lives, a, b, st, occ
<1>4. Unmanaged \in WindowType /\ Unmanaged.managed = FALSE /\ Unmanaged.savevs = None
  BY DEF Unmanaged, WindowType, WmState
<1>5. x \in WindowType /\ x.managed = Unmanaged.managed /\ x.savevs = Unmanaged.savevs
  <2> DEFINE y == [Unmanaged EXCEPT !.exists = lives, !.up = a]
             z == [y EXCEPT !.state = st, !.prop = occ, !.asks = b]
  <2>1. x = z
    OBVIOUS
  <2>2. y \in WindowType /\ y.managed = Unmanaged.managed /\ y.savevs = Unmanaged.savevs
    BY <1>2, <1>4 DEF WindowType
  <2> HIDE DEF y
  <2>3. z \in WindowType
    BY <1>2, <1>3, <2>2 DEF WindowType
  <2>4. z.managed = y.managed /\ z.savevs = y.savevs
    BY <2>2 DEF WindowType
  <2>5. QED
    BY <2>1, <2>2, <2>3, <2>4
<1>6. QED
  BY <1>1, <1>4, <1>5

\* Forgetting a window, whose own death need not be told any more.
LEMMA ForgetChanges ==
  ASSUME NEW s \in WmType, NEW w \in Client
  PROVE  /\ Changes(s, Forget(s, w)) /\ Fits(s, Forget(s, w))
         /\ (/\ s.occupyWin \in managed(s) \cup {None} /\ Tidy(s)
             /\ \A u \in Client \ {w} : s.win[u].managed /\ ~s.win[u].exists
                                        => Event("Destroy", u) \in Range(s.queue))
            => Sound(Forget(s, w))
<1> DEFINE x == Forgotten(s.win[w])
           Win == [s.win EXCEPT ![w] = x]
           a == s.occupyUp /\ s.occupyWin # w
           o == IF s.occupyWin = w THEN None ELSE s.occupyWin
           t == Forget(s, w)
<1>1. t = [s EXCEPT !.win = Win, !.occupyUp = a, !.occupyWin = o]
  BY DEF Forget
<1>2. x \in WindowType /\ x.managed = FALSE /\ x.savevs = None
  BY WmFields, ForgottenIs
<1>3. a \in BOOLEAN /\ o \in Client \cup {None} /\ s.win \in [Client -> WindowType]
  BY WmFields
<1> HIDE DEF x, a
<1>4. /\ Win \in [Client -> WindowType] /\ Win[w] = x
      /\ \A u \in Client \ {w} : Win[u] = s.win[u]
  BY <1>2, <1>3
<1> HIDE DEF Win, o, t
<1>5. /\ t \in WmType /\ t.win = Win /\ t.queue = s.queue /\ t.current = s.current
      /\ t.currentvs = s.currentvs /\ t.occupyWin = o
  BY <1>1, <1>3, <1>4 DEF WmType
<1>6. managed(t) = managed(s) \ {w}
  BY <1>2, <1>4, <1>5 DEF managed
<1>7. (/\ s.occupyWin \in managed(s) \cup {None} /\ Tidy(s)
       /\ \A u \in Client \ {w} : s.win[u].managed /\ ~s.win[u].exists
                                  => Event("Destroy", u) \in Range(s.queue))
      => Sound(t)
  BY <1>2, <1>4, <1>5, <1>6 DEF Sound, DeathsAreTold, Tidy, o
<1>8. Sound(s) => Sound(t)
  BY <1>7 DEF Sound, DeathsAreTold, Tidy
<1>9. Fit(s) => Fit(t)
  BY <1>2, <1>4, <1>5 DEF Fit
<1>10. \A u \in managed(t) : t.win[u] = s.win[u]
  BY <1>4, <1>5, <1>6 DEF managed
<1>11. Changes(s, t)
  <2>1. \A u \in Client : t.win[u].savevs \in {None, s.win[u].savevs}
    BY <1>2, <1>4, <1>5
  <2>2. managed(t) \subseteq Client
    BY DEF managed
  <2>3. t.occupyWin \in {None, s.occupyWin}
    BY <1>5 DEF o
  <2>4. QED
    BY <1>5, <1>8, <1>9, <1>10, <2>1, <2>2, <2>3 DEF Changes, FitsUnhidden
<1>12. QED
  BY <1>7, <1>9, <1>11 DEF t, Fits

\* Withdrawing a window forgets it; the event that it takes from the queue tells of
\* no death.
LEMMA WithdrawChanges ==
  ASSUME NEW s \in WmType, NEW w \in Client
  PROVE  Changes(s, Withdraw(s, w)) /\ Fits(s, Withdraw(s, w))
<1> DEFINE e == Event("Reparent", w)
           out == [s EXCEPT !.win[w].state = "Withdrawn"]
           taken == [out EXCEPT !.queue = RemoveFirst(out.queue, e)]
           left == RestoreWinConfig(ReparentToRoot(out, w), w)
           u == IF Contains(s.queue, e) THEN taken ELSE left
<1>1. Withdraw(s, w) = Forget(u, w)
  BY DEF Withdraw
<1>2. Still(s, out)
  BY HandlerStates, Zenon
<1> HIDE DEF out
<1>3. out \in WmType
  BY <1>2, StillIsTransitive
<1>4. Passes(out, taken)
  <2> DEFINE q == RemoveFirst(out.queue, e)
  <2>1. /\ q \in Seq(AnEvent)
        /\ \A f \in Range(out.queue) : f # e => f \in Range(q)
    BY <1>3, WmFields, RemoveFirstRange
  <2>2. \A v \in Client : Event("Destroy", v) # e
    BY DEF Event
  <2> HIDE DEF q, e
  <2>3. QED
    BY <1>3, <2>1, <2>2, RequeuedPasses DEF q
<1>5. Passes(out, left)
  <2> DEFINE v == ReparentToRoot(out, w)
  <2>1. Still(out, v) /\ v \in WmType
    BY <1>3, ReparentToRootStill, StillIsTransitive
  <2> HIDE DEF v
  <2>2. Still(v, RestoreWinConfig(v, w))
    BY <2>1, RestoreWinConfigStill
  <2>3. QED
    BY <2>1, <2>2, StillIsTransitive, StillPasses DEF v
<1> HIDE DEF taken, left
<1>6. Passes(s, u)
  BY <1>2, <1>4, <1>5, StillPasses, PassesChanges
<1> HIDE DEF u
<1>7. u \in WmType
  BY <1>6 DEF Passes
<1>8. Changes(u, Forget(u, w)) /\ Fits(u, Forget(u, w))
  BY <1>7, ForgetChanges
<1>9. QED
  BY <1>1, <1>6, <1>8, PassesChanges DEF Passes, Fits

(***************************************************************************)
(* The actions.                                                             *)
(***************************************************************************)
LifeInv == TypeOK /\ Sound(wm)

\* Sessions in which nothing changes the workspaces that are shown, nor, other
\* than to the one that the pointer is in, those that windows are in.
Disturbing == {"workspaces", "occupation", "occupy", "dialogs", "names", "warp"}

Undisturbed == WarpCursor = {} /\ uses \cap Disturbing = {} /\ wm.occupyWin = None

\* What an action may do to the windows; in undisturbed sessions none is out of
\* place after it, hidden ones included.
Step == Changes(wm, wm') /\ (Undisturbed => Fits(wm, wm'))

\* An event is taken from the queue.
LEMMA HandledPasses ==
  ASSUME wm \in WmType, NEW type \in EventType, NEW w \in Client, Handling(type, w)
  PROVE  /\ Handled \in WmType
         /\ Handled.win = wm.win /\ Handled.occupyWin = wm.occupyWin
         /\ Handled.current = wm.current /\ Handled.currentvs = wm.currentvs
         /\ \A u \in Client : u # w /\ Event("Destroy", u) \in Range(wm.queue)
                              => Event("Destroy", u) \in Range(Handled.queue)
         /\ type # "Destroy" => Passes(wm, Handled)
<1> DEFINE q == Tail(wm.queue)
<1>1. wm.queue \in Seq(AnEvent) /\ wm.queue # <<>> /\ Head(wm.queue) = Event(type, w)
  BY WmFields DEF Handling
<1>2. /\ q \in Seq(AnEvent)
      /\ \A e \in Range(wm.queue) : e # Event(type, w) => e \in Range(q)
  BY <1>1, TailRange
<1>3. Handled = [wm EXCEPT !.queue = q]
  BY DEF Handled
<1> HIDE DEF q
<1>4. /\ Handled \in WmType
      /\ Handled.win = wm.win /\ Handled.occupyWin = wm.occupyWin
      /\ Handled.current = wm.current /\ Handled.currentvs = wm.currentvs
      /\ Handled.queue = q
  BY <1>2, <1>3 DEF WmType, AnEvent
<1>5. \A u \in Client : u # w => Event("Destroy", u) # Event(type, w)
  BY DEF Event
<1>6. type # "Destroy" => \A u \in Client : Event("Destroy", u) # Event(type, w)
  BY DEF Event
<1>7. type # "Destroy" => Passes(wm, Handled)
  BY <1>2, <1>3, <1>6, RequeuedPasses
<1>8. QED
  BY <1>2, <1>4, <1>5, <1>7

\* A step of an action that takes an event first.
LEMMA PassesThen ==
  ASSUME NEW t, Passes(wm, t), wm' \in WmType,
         Changes(t, wm'), WarpCursor = {} => Fits(t, wm')
  PROVE  Step
BY PassesChanges DEF Step, Undisturbed, Passes, Fits

\* HandleMapRequest,
LEMMA HandleMapRequestSteps ==
  ASSUME LifeInv, NEW w \in Client, HandleMapRequest(w)
  PROVE  Step
<1>1. Passes(wm, Handled) /\ Handled \in WmType
  BY HandledPasses DEF LifeInv, TypeOK, HandleMapRequest, EventType
<1>2. wm' = MapRequest(Handled, w, FALSE)
  BY DEF HandleMapRequest
<1> HIDE DEF Handled
<1>3. /\ Changes(Handled, MapRequest(Handled, w, FALSE))
      /\ WarpCursor = {} => Fits(Handled, MapRequest(Handled, w, FALSE))
  BY <1>1, MapRequestChanges
<1>4. QED
  BY <1>1, <1>2, <1>3, PassesThen DEF Changes

\* HandleMapNotify,
LEMMA HandleMapNotifySteps ==
  ASSUME LifeInv, NEW w \in Client, HandleMapNotify(w)
  PROVE  Step
<1> DEFINE s == Handled
           m == XMapWindow(s, IF s.win[w].inFrame THEN {w} ELSE {})
           x == [m EXCEPT !.win[w].iconUp = FALSE, !.win[w].frame = TRUE,
                          !.win[w].mapped = TRUE, !.win[w].isicon = FALSE,
                          !.win[w].icon_on = FALSE]
<1>1. Passes(wm, s) /\ s \in WmType
  BY HandledPasses DEF LifeInv, TypeOK, HandleMapNotify, EventType
<1>2. wm' = IF ~s.win[w].managed THEN s ELSE x
  BY DEF HandleMapNotify
<1> HIDE DEF s
<1>3. Still(s, m) /\ m \in WmType
  BY <1>1, XMapWindowStill, StillIsTransitive
<1> HIDE DEF m
<1>4. Still(m, x)
  BY <1>3, HandlerStates, Zenon
<1> HIDE DEF x
<1>5. Still(s, wm')
  BY <1>1, <1>2, <1>3, <1>4, StillIsTransitive
<1>6. QED
  BY <1>1, <1>5, StillPasses, PassesChanges DEF Step, Passes

\* HandleUnmapNotify for both of its events,
LEMMA HandleUnmapNotifySteps ==
  ASSUME LifeInv, NEW w \in Client, NEW type \in {"Unmap", "Withdraw"},
         HandleUnmapNotify(type, w)
  PROVE  Step
<1>1. Passes(wm, Handled) /\ Handled \in WmType
  BY HandledPasses DEF LifeInv, TypeOK, HandleUnmapNotify, EventType
<1>2. wm' = Withdraw(Handled, w) \/ wm' = Handled
  BY DEF HandleUnmapNotify
<1> HIDE DEF Handled
<1>3. Changes(Handled, Withdraw(Handled, w)) /\ Fits(Handled, Withdraw(Handled, w))
  BY <1>1, WithdrawChanges
<1>4. CASE wm' = Withdraw(Handled, w)
  BY <1>1, <1>3, <1>4, PassesThen DEF Changes
<1>5. CASE wm' = Handled
  BY <1>1, <1>5, PassesChanges DEF Step, Passes
<1>6. QED
  BY <1>2, <1>4, <1>5

\* and HandleDestroyNotify: the window whose death is told is forgotten.
LEMMA HandleDestroyNotifySteps ==
  ASSUME LifeInv, NEW w \in Client, HandleDestroyNotify(w)
  PROVE  Step
<1>1. /\ Handled \in WmType
      /\ Handled.win = wm.win /\ Handled.occupyWin = wm.occupyWin
      /\ Handled.current = wm.current /\ Handled.currentvs = wm.currentvs
      /\ \A u \in Client : u # w /\ Event("Destroy", u) \in Range(wm.queue)
                           => Event("Destroy", u) \in Range(Handled.queue)
  BY HandledPasses DEF LifeInv, TypeOK, HandleDestroyNotify, EventType
<1>2. wm' = IF wm.win[w].managed THEN Forget(Handled, w) ELSE Handled
  BY DEF HandleDestroyNotify
<1> HIDE DEF Handled
<1>3. managed(Handled) = managed(wm)
  BY <1>1 DEF managed
<1>4. /\ Handled.occupyWin \in managed(Handled) \cup {None} /\ Tidy(Handled)
      /\ \A u \in Client \ {w} : Handled.win[u].managed /\ ~Handled.win[u].exists
                                 => Event("Destroy", u) \in Range(Handled.queue)
  BY <1>1, <1>3 DEF LifeInv, Sound, DeathsAreTold, Tidy
<1>5. CASE wm.win[w].managed
  <2> DEFINE t == Forget(Handled, w)
  <2>1. Changes(Handled, t) /\ Fits(Handled, t) /\ Sound(t)
    BY <1>1, <1>4, ForgetChanges
  <2>2. wm' = t
    BY <1>2, <1>5
  <2> HIDE DEF t
  <2>3. Fits(wm, t)
    BY <1>1, <2>1 DEF Fits, Fit
  <2>4. FitsUnhidden(wm, t)
    BY <2>3 DEF FitsUnhidden, Fits
  <2>5. \A u \in Client : Dialogs(Handled, u) = Dialogs(wm, u)
    BY <1>3 DEF Dialogs
  <2>6. managed(wm) \subseteq Client
    BY DEF managed
  <2>7. Changes(wm, t)
    BY <1>1, <1>3, <2>1, <2>4, <2>5, <2>6 DEF Changes
  <2>8. QED
    BY <2>2, <2>3, <2>7 DEF Step
<1>6. CASE ~wm.win[w].managed
  <2>1. wm' = Handled
    BY <1>2, <1>6
  <2>2. DeathsAreTold(Handled)
    BY <1>1, <1>4, <1>6 DEF DeathsAreTold
  <2>3. Fits(wm, Handled) /\ FitsUnhidden(wm, Handled)
    BY <1>1 DEF Fits, FitsUnhidden, Fit
  <2>4. Changes(wm, Handled)
    BY <1>1, <1>3, <1>4, <2>2, <2>3 DEF Changes, Sound
  <2>5. QED
    BY <2>1, <2>3, <2>4 DEF Step
<1>7. QED
  BY <1>5, <1>6

\* All handlers of events.
LEMMA EventsStep ==
  ASSUME LifeInv, Events
  PROVE  Step
<1>1. PICK w \in Client :
        \/ HandleMapRequest(w) \/ HandleMapNotify(w)
        \/ HandleUnmapNotify("Unmap", w) \/ HandleUnmapNotify("Withdraw", w)
        \/ HandleDestroyNotify(w) \/ HandleReparentNotify(w)
  BY DEF Events
<1>2. CASE HandleReparentNotify(w)
  <2>1. Passes(wm, Handled)
    BY <1>2, HandledPasses DEF LifeInv, TypeOK, HandleReparentNotify, EventType
  <2>2. wm' = Handled
    BY <1>2 DEF HandleReparentNotify
  <2> HIDE DEF Handled
  <2>3. QED
    BY <2>1, <2>2, PassesChanges DEF Step, Passes
<1>3. QED
  BY <1>1, <1>2, HandleMapRequestSteps, HandleMapNotifySteps, HandleUnmapNotifySteps,
     HandleDestroyNotifySteps

\* Actions that move windows, once to other workspaces,
LEMMA MovesStep ==
  ASSUME NEW t, wm' = t, Moves(wm, t), Undisturbed => Fits(wm, t)
  PROVE  Step
BY MovesChanges DEF Step

\* and actions that do not.
LEMMA StillStep ==
  ASSUME NEW t, wm' = t, Still(wm, t)
  PROVE  Step
BY StillGoes, GoesIsTransitive, MovesStep

(***************************************************************************)
(* Clients.                                                                 *)
(***************************************************************************)
\* A client asks for a window to be mapped.
LEMMA ClientMapSteps ==
  ASSUME LifeInv, NEW w \in Client, ClientMap(w)
  PROVE  Step
<1> DEFINE x == [wm.win[w] EXCEPT !.asks = TRUE]
           Win == [wm.win EXCEPT ![w] = x]
           q == <<Event("MapRequest", w)>>
           t == [wm EXCEPT !.win = Win, !.queue = wm.queue \o q]
<1>1. wm \in WmType /\ wm.win[w] \in WindowType /\ wm.win \in [Client -> WindowType]
  BY WmFields DEF LifeInv, TypeOK
<1>2. q \in Seq(AnEvent)
  BY DEF Event, AnEvent, EventType
<1>3. wm' = t
  <2>1. wm' = [wm EXCEPT !.win = Win, !.queue = Append(wm.queue, Event("MapRequest", w))]
    BY DEF ClientMap
  <2>2. Append(wm.queue, Event("MapRequest", w)) = wm.queue \o q
    BY <1>1, WmFields DEF Event, AnEvent, EventType
  <2>3. QED
    BY <2>1, <2>2
<1>4. Stays(wm.win[w], x)
  BY <1>1, HandlerFields
<1> HIDE DEF x, q
<1>5. Win \in [Client -> WindowType] /\ \A u \in Client : Stays(wm.win[u], Win[u])
  BY <1>1, <1>4, SameStays, StaysIsTransitive
<1> HIDE DEF Win
<1>6. Still(wm, t)
  BY <1>1, <1>2, <1>5, SetSeveral
<1>7. QED
  BY <1>3, <1>6, StillStep

\* What ctwm is told are events.
LEMMA ToldAreEvents ==
  ASSUME NEW w \in Client, NEW type \in EventType
  PROVE  Told(w, type) \in Seq(AnEvent) /\ <<Event(type, w)>> \in Seq(AnEvent)
<1>1. Event(type, w) \in AnEvent
  BY DEF Event, AnEvent
<1>2. QED
  BY <1>1 DEF Told

\* A client withdraws a window.
LEMMA ClientWithdrawSteps ==
  ASSUME LifeInv, NEW w \in Client, ClientWithdraw(w)
  PROVE  Step
<1> DEFINE r == wm.win[w]
           x == [r EXCEPT !.asks = FALSE, !.up = FALSE]
           Win == [wm.win EXCEPT ![w] = x]
           a == IF r.up THEN Told(w, "Unmap") ELSE <<>>
           b == <<Event("Withdraw", w)>>
           q == a \o b
           t == [wm EXCEPT !.win = Win, !.queue = wm.queue \o q]
<1>1. wm \in WmType /\ wm.win[w] \in WindowType /\ wm.win \in [Client -> WindowType]
  BY WmFields DEF LifeInv, TypeOK
<1>2. a \in Seq(AnEvent) /\ b \in Seq(AnEvent)
  BY ToldAreEvents DEF EventType
<1>3. q \in Seq(AnEvent) /\ wm.queue \in Seq(AnEvent)
  BY <1>1, <1>2, ConcatRange, WmFields
<1>4. wm' = t
  <2>1. wm' = [wm EXCEPT !.win[w].asks = FALSE, !.win[w].up = FALSE,
                         !.queue = (wm.queue \o a) \o b]
    BY DEF ClientWithdraw
  <2> HIDE DEF a, b
  <2>2. (wm.queue \o a) \o b = wm.queue \o q
    <3>1. \A p, x1, x2 \in Seq(AnEvent) : (p \o x1) \o x2 = p \o (x1 \o x2)
      BY ConcatAssociative
    <3>2. QED
      BY <1>2, <1>3, <3>1
  <2> HIDE DEF q
  <2>3. QED
    BY <1>1, <2>1, <2>2 DEF WmType
<1>5. Stays(wm.win[w], x)
  BY <1>1, HandlerFields
<1> HIDE DEF x, q
<1>6. Win \in [Client -> WindowType] /\ \A u \in Client : Stays(wm.win[u], Win[u])
  BY <1>1, <1>5, SameStays, StaysIsTransitive
<1> HIDE DEF Win
<1>7. Still(wm, t)
  BY <1>1, <1>3, <1>6, SetSeveral
<1>8. QED
  BY <1>4, <1>7, StillStep

\* The DestroyNotify of a window that ctwm knows is put in the queue.
LEMMA ClientDestroySteps ==
  ASSUME LifeInv, NEW w \in Client, ClientDestroy(w)
  PROVE  Step
<1> DEFINE r == wm.win[w]
           x == [r EXCEPT !.exists = FALSE, !.asks = FALSE, !.up = FALSE,
                          !.inFrame = FALSE, !.state = None, !.prop = {}]
           Win == [wm.win EXCEPT ![w] = x]
           a == IF r.up THEN Told(w, "Unmap") ELSE <<>>
           b == Told(w, "Destroy")
           q == (wm.queue \o a) \o b
<1>1. /\ wm \in WmType /\ r \in WindowType /\ wm.win \in [Client -> WindowType]
      /\ wm.queue \in Seq(AnEvent)
  BY WmFields DEF LifeInv, TypeOK
<1>2. a \in Seq(AnEvent) /\ b \in Seq(AnEvent)
  BY ToldAreEvents DEF EventType
<1>3. wm' = [wm EXCEPT !.win = Win, !.queue = q]
  <2>1. wm' = [wm EXCEPT !.win[w].exists = FALSE, !.win[w].asks = FALSE,
                         !.win[w].up = FALSE, !.win[w].inFrame = FALSE,
                         !.win[w].state = None, !.win[w].prop = {}, !.queue = q]
    BY DEF ClientDestroy
  <2> HIDE DEF q
  <2> DEFINE y == [r EXCEPT !.exists = FALSE, !.asks = FALSE, !.up = FALSE]
             u == [wm EXCEPT !.win[w] = y]
             z == [y EXCEPT !.inFrame = FALSE, !.state = None, !.prop = {}]
             v == [u EXCEPT !.win[w] = z]
  <2>2. wm' = [[[wm EXCEPT !.win[w].exists = FALSE, !.win[w].asks = FALSE,
                           !.win[w].up = FALSE]
                EXCEPT !.win[w].inFrame = FALSE, !.win[w].state = None,
                       !.win[w].prop = {}] EXCEPT !.queue = q]
    BY <2>1
  <2>3. [wm EXCEPT !.win[w].exists = FALSE, !.win[w].asks = FALSE, !.win[w].up = FALSE] = u
    BY <1>1 DEF WmType
  <2>4. y \in WindowType
    BY <1>1 DEF WindowType
  <2>5. x = z
    OBVIOUS
  <2> HIDE DEF y
  <2>6. u \in WmType /\ u.win[w] = y
    BY <1>1, <2>4 DEF WmType
  <2>7. [v EXCEPT !.queue = q] = [wm EXCEPT !.win = [wm.win EXCEPT ![w] = z], !.queue = q]
    <3> HIDE DEF z
    <3>1. QED
      BY <1>1 DEF WmType
  <2> HIDE DEF u
  <2>8. [u EXCEPT !.win[w].inFrame = FALSE, !.win[w].state = None, !.win[w].prop = {}] = v
    BY <2>6 DEF WmType
  <2> HIDE DEF v, z, x
  <2>9. wm' = [[u EXCEPT !.win[w].inFrame = FALSE, !.win[w].state = None,
                         !.win[w].prop = {}] EXCEPT !.queue = q]
    BY <2>2, <2>3
  <2>10. wm' = [v EXCEPT !.queue = q]
    BY <2>8, <2>9
  <2>11. QED
    BY <2>5, <2>7, <2>10
<1>4. Range(b) = IF r.managed THEN {Event("Destroy", w)} ELSE {}
  BY DEF Told, Range
<1> HIDE DEF a, b
<1>5. q \in Seq(AnEvent) /\ Range(wm.queue) \subseteq Range(q) /\ Range(b) \subseteq Range(q)
  <2> DEFINE c == wm.queue \o a
  <2>1. c \in Seq(AnEvent) /\ Range(wm.queue) \subseteq Range(c)
    BY <1>1, <1>2, ConcatRange
  <2> HIDE DEF c
  <2>2. c \o b \in Seq(AnEvent) /\ Range(c \o b) = Range(c) \cup Range(b)
    BY <1>2, <2>1, ConcatRange
  <2>3. QED
    BY <2>1, <2>2 DEF c
<1>6. /\ x \in WindowType /\ x.managed = r.managed /\ x.savevs = r.savevs
      /\ x.vs = r.vs /\ x.occupation = r.occupation
  <2> DEFINE y == [r EXCEPT !.exists = FALSE, !.asks = FALSE, !.up = FALSE]
             z == [y EXCEPT !.inFrame = FALSE, !.state = None, !.prop = {}]
  <2>1. x = z
    OBVIOUS
  <2>2. /\ y \in WindowType /\ y.managed = r.managed /\ y.savevs = r.savevs
        /\ y.vs = r.vs /\ y.occupation = r.occupation
    BY <1>1 DEF WindowType
  <2> HIDE DEF y
  <2>3. /\ z \in WindowType /\ z.managed = y.managed /\ z.savevs = y.savevs
        /\ z.vs = y.vs /\ z.occupation = y.occupation
    BY <2>2 DEF WindowType, WmState
  <2>4. QED
    BY <2>1, <2>2, <2>3
<1> HIDE DEF x, q
<1>7. /\ Win \in [Client -> WindowType] /\ Win[w] = x
      /\ \A u \in Client \ {w} : Win[u] = wm.win[u]
  BY <1>1, <1>6
<1> HIDE DEF Win
<1> DEFINE t == wm'
<1>8. /\ t \in WmType /\ t.win = Win /\ t.queue = q /\ t.current = wm.current
      /\ t.currentvs = wm.currentvs /\ t.occupyWin = wm.occupyWin
  BY <1>1, <1>3, <1>5, <1>7 DEF WmType, AnEvent
<1> HIDE DEF t
<1>9. \A u \in Client : /\ t.win[u].managed = wm.win[u].managed
                        /\ t.win[u].savevs = wm.win[u].savevs
                        /\ t.win[u].vs = wm.win[u].vs
                        /\ t.win[u].occupation = wm.win[u].occupation
  BY <1>6, <1>7, <1>8
<1>10. managed(t) = managed(wm) /\ managed(wm) \subseteq Client
  BY <1>9 DEF managed
<1>11. Sound(t)
  <2>1. DeathsAreTold(wm) /\ Tidy(wm) /\ wm.occupyWin \in managed(wm) \cup {None}
    BY DEF LifeInv, Sound
  <2>2. DeathsAreTold(t) /\ Tidy(t)
    BY <1>4, <1>5, <1>7, <1>8, <1>9, <2>1 DEF DeathsAreTold, Tidy
  <2>3. QED
    BY <1>8, <1>10, <2>1, <2>2 DEF Sound
<1>12. Fits(wm, t)
  <2>1. \A u \in Client : InPlace(wm.current, wm.win[u]) => InPlace(wm.current, t.win[u])
    BY <1>9 DEF InPlace, Screen
  <2>2. QED
    BY <1>8, <1>9, <2>1 DEF Fits, Fit
<1>13. Changes(wm, t)
  BY <1>8, <1>9, <1>10, <1>11, <1>12 DEF Changes, Fits, FitsUnhidden
<1>14. QED
  BY <1>12, <1>13 DEF Step, t

(***************************************************************************)
(* Functions.                                                               *)
(***************************************************************************)
\* Actions that change no occupation.
LEMMA GoesStep ==
  ASSUME NEW t, wm' = t, Goes(wm, t), Undisturbed => Fits(wm, t)
  PROVE  Step
BY GoesIsTransitive, MovesStep

\* What an action may rely on: the types, and that the session has such functions.
LEMMA Uses ==
  ASSUME LifeInv
  PROVE  /\ wm \in WmType
         /\ \A use, w : Invoked(use, w) => w \in Client /\ use \in uses
         /\ wm.currentvs \in VScreen /\ wm.current[wm.currentvs] \in WorkSpace
         /\ \A w \in Client : wm.win[w] \in WindowType /\ wm.win[w].occupation \in SUBSET WorkSpace
BY WmFields, Fields DEF LifeInv, TypeOK, Invoked, managed

\* De-iconifying by itself.
LEMMA DeIconifyStep ==
  ASSUME LifeInv, NEW w \in Client, wm' = DeIconify(wm, w)
  PROVE  Step
<1>1. Goes(wm, DeIconify(wm, w)) /\ (WarpCursor = {} => Fits(wm, DeIconify(wm, w)))
  BY DeIconifyGoes, Uses
<1>2. QED
  BY <1>1, GoesStep DEF Undisturbed

\* f.warpto.
LEMMA WarpToSteps ==
  ASSUME LifeInv, NEW w, WarpTo(w)
  PROVE  Step
<1> DEFINE u == IF wm.win[w].mapped THEN wm ELSE DeIconify(wm, w)
           t == WarpToWindow(u, w)
<1>1. w \in Client /\ "warp" \in uses /\ wm \in WmType
  BY Uses DEF WarpTo, Use
<1>2. wm' = t
  BY DEF WarpTo, Becomes
<1>3. Goes(wm, u)
  BY <1>1, DeIconifyGoes, StillIsTransitive, StillGoes
<1> HIDE DEF u
<1>4. u \in WmType
  BY <1>3 DEF Goes, Keeps
<1>5. Goes(wm, t)
  BY <1>1, <1>3, <1>4, WarpToWindowGoes, GoesIsTransitive
<1>6. ~Undisturbed
  BY <1>1 DEF Undisturbed, Disturbing
<1> HIDE DEF t
<1>7. QED
  BY <1>2, <1>5, <1>6, GoesStep

\* AutoPopupMaybe opens a window, or only says that it is mapped.
LEMMA AutoPopupGoes ==
  ASSUME NEW s \in WmType, NEW w \in Client
  PROVE  Goes(s, AutoPopupMaybe(s, w))
<1>1. Goes(s, s)
  BY StillIsTransitive, StillGoes
<1>2. Goes(s, [s EXCEPT !.win[w].mapped = TRUE])
  <2>1. Still(s, [s EXCEPT !.win[w].mapped = TRUE])
    BY HandlerStates, Zenon
  <2>2. QED
    BY <2>1, StillGoes, Zenon
<1>3. Goes(s, DeIconify(s, w))
  BY DeIconifyGoes
<1>4. QED
  BY <1>1, <1>2, <1>3 DEF AutoPopupMaybe

\* A new name may bring a window to other workspaces.
LEMMA NameChangeSteps ==
  ASSUME LifeInv, NEW w, NEW occ \in SUBSET WorkSpace, NameChange(w, occ)
  PROVE  Step
<1> DEFINE u == IF occ = {} THEN wm ELSE ChangeOccupation(wm, w, occ)
           t == AutoPopupMaybe(u, w)
<1>1. w \in Client /\ "names" \in uses /\ wm \in WmType
  BY Uses DEF NameChange, Use
<1>2. wm' = t
  BY DEF NameChange, Becomes
<1>3. Moves(wm, u) /\ u \in WmType
  BY <1>1, ChangeOccupationMoves, StillIsTransitive, StillGoes, GoesIsTransitive
<1> HIDE DEF u
<1>4. Moves(wm, t)
  BY <1>1, <1>3, AutoPopupGoes, GoesIsTransitive
<1>5. ~Undisturbed
  BY <1>1 DEF Undisturbed, Disturbing
<1> HIDE DEF t
<1>6. QED
  BY <1>2, <1>4, <1>5, MovesStep

\* f.occupy asks about a window that is there.
LEMMA OccupySteps ==
  ASSUME LifeInv, NEW w, Occupy(w)
  PROVE  /\ wm' \in WmType /\ Sound(wm') /\ Fits(wm, wm')
         /\ wm'.win = wm.win /\ wm'.currentvs = wm.currentvs /\ "occupy" \in uses
<1> DEFINE l == CanChangeOccupation(wm, w)
<1>1. w \in Client /\ w \in managed(wm) /\ "occupy" \in uses /\ wm \in WmType /\ l # None
  BY Uses DEF Occupy, Use, Invoked
<1>2. l \in managed(wm)
  BY <1>1 DEF CanChangeOccupation
<1>3. wm' = [wm EXCEPT !.occupyWin = l, !.occupyUp = TRUE]
  BY DEF Occupy, Becomes
<1>4. l \in Client
  BY <1>2 DEF managed
<1> HIDE DEF l
<1> DEFINE t == wm'
<1>5. /\ t \in WmType /\ t.win = wm.win /\ t.queue = wm.queue /\ t.current = wm.current
      /\ t.currentvs = wm.currentvs /\ t.occupyWin = l
  BY <1>1, <1>3, <1>4 DEF WmType
<1> HIDE DEF t
<1>6. Sound(t)
  BY <1>2, <1>5 DEF LifeInv, Sound, DeathsAreTold, Tidy, managed
<1>7. Fits(wm, t)
  BY <1>5 DEF Fits, Fit
<1>8. QED
  BY <1>1, <1>5, <1>6, <1>7 DEF t

\* All functions but f.occupy, which only asks.
LEMMA FunctionsStep ==
  ASSUME LifeInv, Functions
  PROVE  Step \/ \E w \in Client : Occupy(w)
<1>1. PICK w \in Client :
        \/ IconifyFunction(w) \/ ChangeState(w) \/ Popup(w) \/ WarpTo(w)
        \/ SqueezeFunction(w) \/ Occupy(w)
        \/ \E occ \in SUBSET WorkSpace : NameChange(w, occ)
  BY DEF Functions
<1>2. wm \in WmType
  BY Uses
<1>3. CASE IconifyFunction(w) \/ ChangeState(w) \/ Popup(w)
  <2>1. wm' = DeIconify(wm, w) \/ wm' = Iconify(wm, w)
    BY <1>3 DEF IconifyFunction, ChangeState, Popup, Becomes
  <2>2. Still(wm, Iconify(wm, w))
    BY <1>2, IconifyStill
  <2>3. QED
    BY <2>1, <2>2, DeIconifyStep, StillStep
<1>4. CASE SqueezeFunction(w)
  <2>1. wm' = Squeeze(wm, w)
    BY <1>4 DEF SqueezeFunction, Becomes
  <2>2. Still(wm, Squeeze(wm, w))
    BY <1>2, SqueezeStill
  <2>3. QED
    BY <2>1, <2>2, StillStep
<1>5. QED
  BY <1>1, <1>3, <1>4, WarpToSteps, NameChangeSteps

(***************************************************************************)
(* Functions on the occupation.                                             *)
(***************************************************************************)
\* Changing an occupation by itself.
LEMMA ChangeOccupationStep ==
  ASSUME LifeInv, NEW w \in Client, NEW occ \in SUBSET WorkSpace,
         wm' = ChangeOccupation(wm, w, occ), ~Undisturbed
  PROVE  Step
BY ChangeOccupationMoves, Uses, MovesStep

\* The functions that ask whose occupation to change.
LEMMA ChangesToSteps ==
  ASSUME LifeInv, NEW w, NEW occ \in SUBSET WorkSpace, ChangesTo(w, occ)
  PROVE  Step
<1> DEFINE l == CanChangeOccupation(wm, w)
<1>1. w \in Client /\ "occupation" \in uses /\ wm \in WmType
  BY Uses DEF ChangesTo, Use
<1>2. l # None /\ wm' = ChangeOccupation(wm, l, occ)
  BY DEF ChangesTo, Becomes
<1>3. l \in Client
  BY <1>1, <1>2, CanChangeOccupationIs
<1>4. ~Undisturbed
  BY <1>1 DEF Undisturbed, Disturbing
<1> HIDE DEF l
<1>5. QED
  BY <1>2, <1>3, <1>4, ChangeOccupationStep

\* What they start from are workspaces,
LEMMA OccupiedType ==
  ASSUME LifeInv, NEW w \in Client
  PROVE  Occupied(w) \in SUBSET WorkSpace
BY CanChangeOccupationIs, Uses DEF Occupied

\* and so are the neighbours of one.
LEMMA NextWorkSpaces ==
  ASSUME NEW here \in WorkSpace
  PROVE  /\ (IF here + 1 \in WorkSpace THEN here + 1 ELSE 0) \in WorkSpace
         /\ (IF here = 0 THEN NumWorkspaces - 1 ELSE here - 1) \in WorkSpace
BY ScreenAssumption DEF WorkSpace

\* All of them but one.
LEMMA AskedOccupationsStep ==
  ASSUME LifeInv, NEW w \in Client,
         \/ MoveToNextWorkSpace(w) \/ MoveToPrevWorkSpace(w) \/ OccupyAll(w)
         \/ \E ws \in WorkSpace : RemoveFromWorkSpace(w, ws) \/ ToggleOccupation(w, ws)
  PROVE  Step
<1> DEFINE here == wm.current[wm.currentvs]
           next == IF here + 1 \in WorkSpace THEN here + 1 ELSE 0
           prev == IF here = 0 THEN NumWorkspaces - 1 ELSE here - 1
<1>1. Occupied(w) \in SUBSET WorkSpace /\ here \in WorkSpace
  BY OccupiedType, Uses
<1>2. next \in WorkSpace /\ prev \in WorkSpace
  BY <1>1, NextWorkSpaces
<1>3. CASE MoveToNextWorkSpace(w)
  <2> DEFINE occ == SymDiff(Occupied(w), {here}) \cup {next}
  <2>1. ChangesTo(w, occ)
    BY <1>3 DEF MoveToNextWorkSpace
  <2> HIDE DEF here, next
  <2>2. occ \in SUBSET WorkSpace
    BY <1>1, <1>2 DEF SymDiff
  <2> HIDE DEF occ
  <2>3. QED
    BY <2>1, <2>2, ChangesToSteps
<1>4. CASE MoveToPrevWorkSpace(w)
  <2> DEFINE occ == SymDiff(Occupied(w), {here}) \cup {prev}
  <2>1. ChangesTo(w, occ)
    BY <1>4 DEF MoveToPrevWorkSpace
  <2> HIDE DEF here, prev
  <2>2. occ \in SUBSET WorkSpace
    BY <1>1, <1>2 DEF SymDiff
  <2> HIDE DEF occ
  <2>3. QED
    BY <2>1, <2>2, ChangesToSteps
<1>5. CASE OccupyAll(w)
  BY <1>5, ChangesToSteps DEF OccupyAll
<1>6. CASE \E ws \in WorkSpace : RemoveFromWorkSpace(w, ws) \/ ToggleOccupation(w, ws)
  <2>1. PICK ws \in WorkSpace : RemoveFromWorkSpace(w, ws) \/ ToggleOccupation(w, ws)
    BY <1>6
  <2>2. Occupied(w) \ {ws} \in SUBSET WorkSpace /\ SymDiff(Occupied(w), {ws}) \in SUBSET WorkSpace
    BY <1>1 DEF SymDiff
  <2>3. QED
    BY <2>1, <2>2, ChangesToSteps DEF RemoveFromWorkSpace, ToggleOccupation
<1>7. QED
  BY <1>3, <1>4, <1>5, <1>6

\* f.addtoworkspace.
LEMMA AddToSteps ==
  ASSUME LifeInv, NEW w, NEW ws \in WorkSpace, AddTo(w, ws)
  PROVE  Step
<1> DEFINE t == AddToWorkSpace(wm, w, ws)
<1>1. w \in Client /\ "occupation" \in uses /\ wm \in WmType
  BY Uses DEF AddTo, Use
<1>2. wm' = t
  BY DEF AddTo, Becomes
<1>3. Moves(wm, t)
  BY <1>1, AddToWorkSpaceMoves
<1>4. ~Undisturbed
  BY <1>1 DEF Undisturbed, Disturbing
<1> HIDE DEF t
<1>5. QED
  BY <1>2, <1>3, <1>4, MovesStep

\* The functions and messages that do not ask whose occupation to change.
LEMMA UnaskedOccupationsStep ==
  ASSUME LifeInv, NEW w,
         \/ WMgrRemoveFromCurrentWorkSpace(w)
         \/ \E to \in SUBSET WorkSpace : NetWmDesktop(w, to)
  PROVE  Step
<1> DEFINE here == wm.current[wm.currentvs]
           r == wm.win[w]
<1>1. CASE WMgrRemoveFromCurrentWorkSpace(w)
  <2> DEFINE occ == r.occupation \ {here}
  <2>1. w \in Client /\ "dialogs" \in uses /\ wm' = ChangeOccupation(wm, w, occ)
    BY <1>1, Uses DEF WMgrRemoveFromCurrentWorkSpace, Becomes, Use
  <2>2. occ \in SUBSET WorkSpace
    BY <2>1, Uses
  <2>3. ~Undisturbed
    BY <2>1 DEF Undisturbed, Disturbing
  <2> HIDE DEF occ
  <2>4. QED
    BY <2>1, <2>2, <2>3, ChangeOccupationStep
<1>2. ASSUME NEW to \in SUBSET WorkSpace, NetWmDesktop(w, to) PROVE Step
  <2> DEFINE left == IF r.vs = None THEN r.occupation
                     ELSE r.occupation \ {wm.current[r.vs]}
             occ == left \cup to
  <2>1. w \in Client /\ "dialogs" \in uses /\ wm' = ChangeOccupation(wm, w, occ)
    BY <1>2, Uses DEF NetWmDesktop, Becomes, Use
  <2>2. occ \in SUBSET WorkSpace
    BY <2>1, Uses
  <2>3. ~Undisturbed
    BY <2>1 DEF Undisturbed, Disturbing
  <2> HIDE DEF occ
  <2>4. QED
    BY <2>1, <2>2, <2>3, ChangeOccupationStep
<1>3. QED
  BY <1>1, <1>2

\* f.warphere puts a window in this workspace, opens it and goes to it.
LEMMA WarpHereSteps ==
  ASSUME LifeInv, NEW w, WMgrAddToCurrentWorkSpaceAndWarp(w)
  PROVE  Step
<1> DEFINE here == wm.current[wm.currentvs]
           occ == wm.win[w].occupation \cup {here}
           added == IF OCCUPY(wm.win[w], here) THEN wm ELSE ChangeOccupation(wm, w, occ)
           u == IF wm.win[w].mapped THEN added ELSE DeIconify(added, w)
           t == WarpToWindow(u, w)
<1>1. w \in Client /\ "dialogs" \in uses /\ wm \in WmType
  BY Uses DEF WMgrAddToCurrentWorkSpaceAndWarp, Use
<1>2. wm' = t
  BY DEF WMgrAddToCurrentWorkSpaceAndWarp, Becomes
<1>3. occ \in SUBSET WorkSpace
  BY <1>1, Uses
<1> HIDE DEF occ
<1>4. Moves(wm, added) /\ added \in WmType
  <2>1. Moves(wm, wm)
    BY <1>1, StillIsTransitive, StillGoes, GoesIsTransitive
  <2>2. Moves(wm, ChangeOccupation(wm, w, occ))
    BY <1>1, <1>3, ChangeOccupationMoves
  <2>3. QED
    BY <2>1, <2>2, GoesIsTransitive
<1> HIDE DEF added
<1>5. Goes(added, u) /\ u \in WmType
  <2>1. Goes(added, added) /\ Goes(added, DeIconify(added, w))
    BY <1>1, <1>4, DeIconifyGoes, StillIsTransitive, StillGoes
  <2>2. QED
    BY <2>1 DEF Goes, Keeps
<1> HIDE DEF u
<1>6. Goes(u, t)
  BY <1>1, <1>5, WarpToWindowGoes
<1> HIDE DEF t
<1>7. Moves(wm, t)
  BY <1>4, <1>5, <1>6, GoesIsTransitive
<1>8. ~Undisturbed
  BY <1>1 DEF Undisturbed, Disturbing
<1>9. QED
  BY <1>2, <1>7, <1>8, MovesStep

\* A client changes the property WM_OCCUPATION.
LEMMA OccupationPropertySteps ==
  ASSUME LifeInv, NEW w, NEW occ \in SUBSET WorkSpace, OccupationProperty(w, occ)
  PROVE  Step
<1> DEFINE x == [wm.win[w] EXCEPT !.prop = occ]
           u == [wm EXCEPT !.win[w] = x]
           t == ChangeOccupation(u, w, occ)
<1>1. w \in Client /\ "dialogs" \in uses /\ wm \in WmType /\ wm.win[w] \in WindowType
  BY Uses DEF OccupationProperty, Use
<1>2. wm' = t
  BY DEF OccupationProperty, Becomes
<1>3. Stays(wm.win[w], x)
  BY <1>1, ShowFields
<1> HIDE DEF x
<1>4. Still(wm, u) /\ u \in WmType
  BY <1>1, <1>3, SetWindow, StillIsTransitive
<1> HIDE DEF u
<1>5. Moves(u, t)
  BY <1>1, <1>4, ChangeOccupationMoves
<1> HIDE DEF t
<1>6. Moves(wm, t)
  BY <1>4, <1>5, StillGoes, GoesIsTransitive
<1>7. ~Undisturbed
  BY <1>1 DEF Undisturbed, Disturbing
<1>8. QED
  BY <1>2, <1>6, <1>7, MovesStep

\* The window of f.occupy is told to apply what it shows, or to forget it.
LEMMA OccupyHandleButtonEventSteps ==
  ASSUME LifeInv, NEW ok, NEW occ \in SUBSET WorkSpace, OccupyHandleButtonEvent(ok, occ)
  PROVE  Step
<1> DEFINE o == wm.occupyWin
           s == IF ok THEN ChangeOccupation(wm, o, occ) ELSE wm
           t == [s EXCEPT !.occupyWin = None, !.occupyUp = FALSE]
<1>1. wm \in WmType /\ o # None /\ o \in Client
  BY WmFields DEF OccupyHandleButtonEvent, LifeInv, TypeOK
<1>2. wm' = t
  BY DEF OccupyHandleButtonEvent, Becomes
<1>3. Moves(wm, s) /\ s \in WmType
  <2>1. Moves(wm, wm)
    BY <1>1, StillIsTransitive, StillGoes, GoesIsTransitive
  <2>2. Moves(wm, ChangeOccupation(wm, o, occ))
    BY <1>1, ChangeOccupationMoves
  <2>3. QED
    BY <2>1, <2>2, GoesIsTransitive
<1>4. ~Undisturbed
  BY <1>1 DEF Undisturbed
<1> HIDE DEF s, o
<1>5. Changes(wm, s)
  BY <1>3, MovesChanges
<1>6. /\ t \in WmType /\ t.win = s.win /\ t.queue = s.queue /\ t.current = s.current
      /\ t.currentvs = s.currentvs /\ t.occupyWin = None
  BY <1>3 DEF WmType
<1> HIDE DEF t
<1>7. Changes(wm, t)
  <2>1. Sound(s) => Sound(t)
    BY <1>6 DEF Sound, DeathsAreTold, Tidy, managed
  <2>2. managed(t) = managed(s)
    BY <1>6 DEF managed
  <2>3. FitsUnhidden(wm, s) => FitsUnhidden(wm, t)
    BY <1>6 DEF FitsUnhidden, Fit
  <2>4. QED
    BY <1>5, <1>6, <2>1, <2>2, <2>3 DEF Changes
<1>8. QED
  BY <1>2, <1>4, <1>7 DEF Step

\* Its being iconified is of no importance to the windows.
LEMMA OccupyWindowIconifySteps ==
  ASSUME LifeInv, OccupyWindowIconify
  PROVE  Step
<1> DEFINE b == ~wm.occupyUp
           t == [wm EXCEPT !.occupyUp = b]
<1>1. wm \in WmType /\ b \in BOOLEAN
  BY WmFields DEF LifeInv, TypeOK
<1>2. wm' = t
  BY DEF OccupyWindowIconify, Becomes
<1> HIDE DEF b
<1>3. /\ t \in WmType /\ t.win = wm.win /\ t.queue = wm.queue /\ t.current = wm.current
      /\ t.currentvs = wm.currentvs /\ t.occupyWin = wm.occupyWin
  BY <1>1 DEF WmType
<1> HIDE DEF t
<1>4. Still(wm, t)
  BY <1>1, <1>3, SameStays DEF Still, Keeps, Stays
<1>5. QED
  BY <1>2, <1>4, StillStep

\* All functions, messages and properties about occupations.
LEMMA OccupationsStep ==
  ASSUME LifeInv, Occupations
  PROVE  Step
<1>1. CASE \E w \in Client :
        \/ MoveToNextWorkSpace(w) \/ MoveToPrevWorkSpace(w) \/ OccupyAll(w)
        \/ WMgrRemoveFromCurrentWorkSpace(w) \/ WMgrAddToCurrentWorkSpaceAndWarp(w)
        \/ \E ws \in WorkSpace :
             \/ AddTo(w, ws) \/ RemoveFromWorkSpace(w, ws) \/ ToggleOccupation(w, ws)
        \/ \E to \in {{ws} : ws \in WorkSpace} \cup {WorkSpace} : NetWmDesktop(w, to)
        \/ \E occ \in SUBSET WorkSpace : OccupationProperty(w, occ)
  <2>1. PICK w \in Client :
        \/ MoveToNextWorkSpace(w) \/ MoveToPrevWorkSpace(w) \/ OccupyAll(w)
        \/ WMgrRemoveFromCurrentWorkSpace(w) \/ WMgrAddToCurrentWorkSpaceAndWarp(w)
        \/ \E ws \in WorkSpace :
             \/ AddTo(w, ws) \/ RemoveFromWorkSpace(w, ws) \/ ToggleOccupation(w, ws)
        \/ \E to \in {{ws} : ws \in WorkSpace} \cup {WorkSpace} : NetWmDesktop(w, to)
        \/ \E occ \in SUBSET WorkSpace : OccupationProperty(w, occ)
    BY <1>1
  <2>2. CASE \E to \in {{ws} : ws \in WorkSpace} \cup {WorkSpace} : NetWmDesktop(w, to)
    <3>1. {{ws} : ws \in WorkSpace} \cup {WorkSpace} \subseteq SUBSET WorkSpace
      OBVIOUS
    <3>2. QED
      BY <2>2, <3>1, UnaskedOccupationsStep
  <2>3. CASE \E occ \in SUBSET WorkSpace : OccupationProperty(w, occ)
    BY <2>3, OccupationPropertySteps
  <2>4. QED
    BY <2>1, <2>2, <2>3, AskedOccupationsStep, UnaskedOccupationsStep, WarpHereSteps, AddToSteps
<1>2. CASE \E ok \in BOOLEAN, occ \in SUBSET WorkSpace \ {{}} :
             OccupyHandleButtonEvent(ok, occ)
  BY <1>2, OccupyHandleButtonEventSteps
<1>3. CASE OccupyWindowIconify
  BY <1>3, OccupyWindowIconifySteps
<1>4. QED
  BY <1>1, <1>2, <1>3 DEF Occupations

(***************************************************************************)
(* Workspaces and virtual screens.                                          *)
(***************************************************************************)
\* f.gotoworkspace and the like.
LEMMA SwitchWorkSpaceSteps ==
  ASSUME LifeInv, NEW v \in VScreen, NEW ws \in WorkSpace, SwitchWorkSpace(v, ws)
  PROVE  Step
<1> DEFINE t == GotoWorkSpace(wm, v, ws)
<1>1. "workspaces" \in uses /\ wm' = t
  BY DEF SwitchWorkSpace, Becomes
<1>2. Goes(wm, t)
  BY Uses, GotoWorkSpaceGoes
<1>3. ~Undisturbed
  BY <1>1 DEF Undisturbed, Disturbing
<1> HIDE DEF t
<1>4. QED
  BY <1>1, <1>2, <1>3, GoesStep

\* The pointer moves, and nothing else.
LEMMA EnterVScreenIs ==
  ASSUME LifeInv, NEW v \in VScreen, EnterVScreen(v)
  PROVE  /\ wm' \in WmType /\ Sound(wm') /\ Fits(wm, wm')
         /\ wm'.win = wm.win /\ wm'.occupyWin = wm.occupyWin /\ "workspaces" \in uses
<1> DEFINE t == wm'
<1>1. wm \in WmType /\ "workspaces" \in uses /\ t = [wm EXCEPT !.currentvs = v]
  BY Uses DEF EnterVScreen, Becomes
<1>2. /\ t \in WmType /\ t.win = wm.win /\ t.queue = wm.queue /\ t.current = wm.current
      /\ t.occupyWin = wm.occupyWin
  BY <1>1 DEF WmType
<1> HIDE DEF t
<1>3. Sound(t)
  BY <1>2 DEF LifeInv, Sound, DeathsAreTold, Tidy, managed
<1>4. Fits(wm, t)
  BY <1>2 DEF Fits, Fit
<1>5. QED
  BY <1>1, <1>2, <1>3, <1>4 DEF t

\* The screen that ShowBackground remembers for a window.
LEMMA HideFields ==
  ASSUME NEW r \in WindowType, NEW v \in MaybeVScreen, NEW x, x = [r EXCEPT !.savevs = v]
  PROVE  /\ x \in WindowType /\ x.savevs = v
         /\ x.managed = r.managed /\ x.exists = r.exists
         /\ x.vs = r.vs /\ x.occupation = r.occupation
BY DEF WindowType, MaybeVScreen

\* What ShowBackground does to each window.
LEMMA ShowBackgroundIs ==
  ASSUME LifeInv, ShowBackground
  PROVE  /\ wm' \in WmType /\ Sound(wm')
         /\ wm'.current = wm.current /\ wm'.currentvs = wm.currentvs
         /\ wm'.occupyWin = wm.occupyWin /\ "background" \in uses
         /\ \A w \in Client :
              /\ wm'.win[w].managed = wm.win[w].managed
              /\ wm'.win[w].occupation = wm.win[w].occupation
              /\ wm.win[w].managed /\ ~background /\ wm.win[w].vs = wm.currentvs
                 => wm'.win[w].vs = None /\ wm'.win[w].savevs = wm.currentvs
              /\ wm.win[w].managed /\ background /\ wm.win[w].savevs = wm.currentvs
                 => /\ wm'.win[w].vs = IF wm.win[w].vs = None THEN wm.currentvs
                                       ELSE wm.win[w].vs
                    /\ wm'.win[w].savevs = None
              /\ ~(wm.win[w].managed /\ ~background /\ wm.win[w].vs = wm.currentvs)
                 /\ ~(wm.win[w].managed /\ background /\ wm.win[w].savevs = wm.currentvs)
                 => /\ wm'.win[w].vs = wm.win[w].vs
                    /\ wm'.win[w].savevs = IF background THEN None
                                           ELSE wm.win[w].savevs
<1> DEFINE v == wm.currentvs
           hides(r) == ~background /\ r.managed /\ r.vs = v
           shows(r) == background /\ r.managed /\ r.savevs = v
           other(r) == IF background THEN None ELSE r.savevs
           f(w, r) == CASE hides(r) -> Vanish(w, [r EXCEPT !.savevs = v])
                        [] shows(r) -> DisplayWin(v, w, [r EXCEPT !.savevs = None])
                        [] OTHER -> [r EXCEPT !.savevs = other(r)]
           Win == [w \in Client |-> f(w, wm.win[w])]
           t == wm'
<1>1. wm \in WmType /\ v \in VScreen /\ v \in MaybeVScreen /\ None \in MaybeVScreen
  BY Uses DEF MaybeVScreen
<1>2. t = [wm EXCEPT !.win = Win] /\ "background" \in uses
  BY DEF ShowBackground
<1>3. ASSUME NEW w \in Client, NEW r \in WindowType
      PROVE  /\ f(w, r) \in WindowType
             /\ f(w, r).managed = r.managed /\ f(w, r).exists = r.exists
             /\ f(w, r).occupation = r.occupation
             /\ hides(r) => f(w, r).vs = None /\ f(w, r).savevs = v
             /\ shows(r) => /\ f(w, r).vs = IF r.vs = None THEN v ELSE r.vs
                            /\ f(w, r).savevs = None
             /\ ~hides(r) /\ ~shows(r) => f(w, r).vs = r.vs /\ f(w, r).savevs = other(r)
  <2> DEFINE y == f(w, r)
  <2>1. CASE hides(r)
    <3> DEFINE x == [r EXCEPT !.savevs = v]
    <3>1. y = Vanish(w, x) /\ ~shows(r)
      BY <2>1
    <3>2. x \in WindowType /\ x.savevs = v /\ x.managed = r.managed /\ x.exists = r.exists
          /\ x.vs = r.vs /\ x.occupation = r.occupation
      BY <1>1, HideFields
    <3> HIDE DEF x, y
    <3>3. Alike(x, y) /\ y.occupation = x.occupation /\ y.vs = None
      BY <3>1, <3>2, VanishPlaces
    <3>4. QED
      BY <2>1, <3>1, <3>2, <3>3 DEF Alike, y
  <2>2. CASE shows(r)
    <3> DEFINE x == [r EXCEPT !.savevs = None]
    <3>1. y = DisplayWin(v, w, x) /\ ~hides(r)
      BY <2>2
    <3>2. x \in WindowType /\ x.savevs = None /\ x.managed = r.managed
          /\ x.exists = r.exists /\ x.vs = r.vs /\ x.occupation = r.occupation
      BY <1>1, HideFields
    <3> HIDE DEF x, y
    <3>3. /\ Alike(x, y) /\ y.occupation = x.occupation
          /\ y.vs = IF x.vs = None THEN v ELSE x.vs
      BY <1>1, <3>1, <3>2, DisplayWinPlaces
    <3>4. QED
      BY <2>2, <3>1, <3>2, <3>3 DEF Alike, y
  <2>3. CASE ~hides(r) /\ ~shows(r)
    <3> DEFINE o == other(r)
    <3>1. y = [r EXCEPT !.savevs = o]
      BY <2>3
    <3>2. o \in MaybeVScreen
      BY <1>1, Fields
    <3> HIDE DEF o, y
    <3>3. y \in WindowType /\ y.savevs = o /\ y.managed = r.managed
          /\ y.exists = r.exists /\ y.vs = r.vs /\ y.occupation = r.occupation
      BY <3>1, <3>2, HideFields
    <3>4. QED
      BY <2>3, <3>3 DEF o, y
  <2>4. QED
    BY <2>1, <2>2, <2>3
<1> DEFINE g(w) == f(w, wm.win[w])
<1>4. /\ \A w \in Client : Win[w] = g(w)
      /\ Win = [w \in Client |-> g(w)]
  OBVIOUS
<1>5. \A w \in Client :
        /\ g(w) \in WindowType
        /\ g(w).managed = wm.win[w].managed /\ g(w).exists = wm.win[w].exists
        /\ g(w).occupation = wm.win[w].occupation
        /\ hides(wm.win[w]) => g(w).vs = None /\ g(w).savevs = v
        /\ shows(wm.win[w]) => /\ g(w).vs = IF wm.win[w].vs = None THEN v
                                            ELSE wm.win[w].vs
                               /\ g(w).savevs = None
        /\ ~hides(wm.win[w]) /\ ~shows(wm.win[w])
           => g(w).vs = wm.win[w].vs /\ g(w).savevs = other(wm.win[w])
  BY <1>1, <1>3, WmFields
<1> HIDE DEF g, f
<1> HIDE DEF Win
<1>6. Win \in [Client -> WindowType]
  BY <1>4, <1>5
<1> HIDE DEF t
<1>7. /\ t \in WmType /\ t.win = Win /\ t.queue = wm.queue /\ t.current = wm.current
      /\ t.currentvs = wm.currentvs /\ t.occupyWin = wm.occupyWin
  BY <1>1, <1>2, <1>6 DEF WmType
<1>8. Sound(t)
  BY <1>4, <1>5, <1>7 DEF LifeInv, Sound, DeathsAreTold, Tidy, managed
<1>9. QED
  BY <1>2, <1>4, <1>5, <1>7, <1>8 DEF t

(***************************************************************************)
(* Restart.                                                                 *)
(***************************************************************************)
\* ctwm lets go of all windows, and takes those that are mapped over again.
LEMMA DoRestartIs ==
  ASSUME LifeInv, DoRestart
  PROVE  /\ wm' \in WmType /\ Sound(wm') /\ managed(wm') = {}
         /\ wm'.current = wm.current /\ wm'.occupyWin = None
         /\ \A w \in Client : wm'.win[w].savevs = None
         /\ starting' \in SUBSET Client
         /\ kept' \in [Client -> [isicon : BOOLEAN, occupation : SUBSET WorkSpace]]
<1> DEFINE Win == [w \in Client |-> Restored(w)]
           t == wm'
<1>1. wm \in WmType /\ \A w \in Client : wm.win[w] \in WindowType
  BY Uses
<1>2. t = [wm EXCEPT !.win = Win, !.queue = <<>>, !.currentvs = 1, !.occupyWin = None,
                     !.occupyUp = FALSE]
  BY DEF DoRestart
<1>3. ASSUME NEW w \in Client
      PROVE  /\ Restored(w) \in WindowType /\ Restored(w).managed = FALSE
             /\ Restored(w).savevs = IF wm.win[w].managed THEN None ELSE wm.win[w].savevs
  <2> DEFINE r == wm.win[w]
             shown == \E u \in managed(wm) :
                        /\ wm.win[u].squeezed /\ w \in Dialogs(wm, u)
                        /\ TransientFor[w] = u \/ r.isicon
             out == [r EXCEPT !.inFrame = FALSE]
             f == Forgotten(out)
             st == IF r.exists /\ shown THEN "Normal" ELSE f.state
             up == r.exists
  <2>1. r \in WindowType /\ r.managed \in BOOLEAN /\ up \in BOOLEAN
    BY <1>1, Fields
  <2>2. CASE ~r.managed
    BY <2>1, <2>2 DEF Restored
  <2>3. CASE r.managed
    <3>1. Restored(w) = [f EXCEPT !.up = up, !.state = st]
      BY <2>3 DEF Restored
    <3>2. out \in WindowType
      <4> HIDE DEF r
      <4>1. QED
        BY <2>1 DEF WindowType
    <3> HIDE DEF out, shown, up
    <3>3. f \in WindowType /\ f.managed = FALSE /\ f.savevs = None
      BY <3>2, ForgottenIs
    <3>4. st \in WmState
      BY <3>3, Fields DEF WmState
    <3> HIDE DEF f, st
    <3> DEFINE x == [f EXCEPT !.up = up, !.state = st]
    <3>5. x \in WindowType /\ x.managed = f.managed /\ x.savevs = f.savevs
      BY <2>1, <3>3, <3>4 DEF WindowType
    <3>6. QED
      BY <2>3, <3>1, <3>3, <3>5
  <2>4. QED
    BY <2>1, <2>2, <2>3
<1>4. Win \in [Client -> WindowType] /\ \A w \in Client : Win[w] = Restored(w)
  BY <1>3
<1>5. 1 \in VScreen /\ <<>> \in Seq([type : EventType, win : Client])
  BY ScreenAssumption DEF VScreen
<1>6. kept' \in [Client -> [isicon : BOOLEAN, occupation : SUBSET WorkSpace]]
  <2>1. kept' = [w \in Client |-> [isicon |-> wm.win[w].isicon,
                                   occupation |-> wm.win[w].occupation]]
    BY DEF DoRestart
  <2>2. \A w \in Client : [isicon |-> wm.win[w].isicon, occupation |-> wm.win[w].occupation]
                          \in [isicon : BOOLEAN, occupation : SUBSET WorkSpace]
    BY <1>1, Fields
  <2>3. QED
    BY <2>1, <2>2
<1>7. starting' \in SUBSET Client
  BY DEF DoRestart
<1> HIDE DEF Win, t
<1>8. /\ t \in WmType /\ t.win = Win /\ t.current = wm.current /\ t.occupyWin = None
  <2> DEFINE y == [wm EXCEPT !.win = Win, !.queue = <<>>, !.currentvs = 1]
  <2>1. y \in WmType /\ y.win = Win /\ y.current = wm.current
    BY <1>1, <1>4, <1>5 DEF WmType
  <2>2. t = [y EXCEPT !.occupyWin = None, !.occupyUp = FALSE]
    BY <1>2
  <2> HIDE DEF y
  <2>3. QED
    BY <2>1, <2>2 DEF WmType
<1>9. managed(t) = {} /\ DeathsAreTold(t)
  BY <1>3, <1>4, <1>8 DEF managed, DeathsAreTold
<1>10. \A w \in Client : t.win[w].savevs = None
  BY <1>3, <1>4, <1>8 DEF LifeInv, Sound, Tidy
<1>11. QED
  BY <1>6, <1>7, <1>8, <1>9, <1>10 DEF Sound, Tidy, t

\* A window is taken over as ctwm starts.
LEMMA TakeOverSteps ==
  ASSUME LifeInv, NEW w \in Client, TakeOver(w)
  PROVE  Step
<1> DEFINE u == [wm EXCEPT !.win[w].up = FALSE]
           t == MapRequest(u, w, TRUE)
<1>1. wm \in WmType
  BY Uses
<1>2. Still(wm, u)
  BY <1>1, HandlerStates, Zenon
<1>3. wm' = t
  BY DEF TakeOver
<1> HIDE DEF u
<1>4. Passes(wm, u) /\ u \in WmType
  BY <1>2, StillPasses, StillIsTransitive
<1>5. Changes(u, t) /\ (WarpCursor = {} => Fits(u, t))
  BY <1>4, MapRequestChanges
<1> HIDE DEF t
<1>6. t \in WmType
  BY <1>5 DEF Changes
<1>7. QED
  BY <1>3, <1>4, <1>5, <1>6, PassesThen

(***************************************************************************)
(* Every step.                                                              *)
(***************************************************************************)
\* What a step is, and what it does to the variables that are not `wm`.
LEMMA StepIs ==
  ASSUME LifeInv, [Next]_vars
  PROVE  /\ \/ Step /\ background' = background
            \/ (\E w \in Client : Occupy(w)) /\ background' = background
            \/ (\E v \in VScreen : EnterVScreen(v)) /\ background' = background
            \/ ShowBackground
            \/ DoRestart
         /\ background' \in BOOLEAN /\ uses' = uses
         /\ ~DoRestart => /\ starting' \in SUBSET Client
                          /\ kept' \in [Client -> [isicon : BOOLEAN,
                                                   occupation : SUBSET WorkSpace]]
<1> DEFINE Kept == [Client -> [isicon : BOOLEAN, occupation : SUBSET WorkSpace]]
           Same == UNCHANGED <<background, starting, kept, uses>>
<1>1. /\ background \in BOOLEAN /\ starting \in SUBSET Client /\ kept \in Kept
      /\ wm \in WmType
  BY DEF LifeInv, TypeOK
<1>2. CASE UNCHANGED vars
  <2>1. Still(wm, wm')
    BY <1>1, <1>2, StillIsTransitive DEF vars
  <2>2. QED
    BY <1>1, <1>2, <2>1, StillStep DEF vars
<1>3. CASE Events
  <2>1. Same
    BY <1>3 DEF Events, HandleMapRequest, HandleMapNotify, HandleUnmapNotify,
                HandleDestroyNotify, HandleReparentNotify
  <2>2. QED
    BY <1>1, <1>3, <2>1, EventsStep
<1>4. CASE Clients
  <2>1. Same
    BY <1>4 DEF Clients, ClientMap, ClientWithdraw, ClientDestroy
  <2>2. Step
    BY <1>4, ClientMapSteps, ClientWithdrawSteps, ClientDestroySteps DEF Clients
  <2>3. QED
    BY <1>1, <2>1, <2>2
<1>5. CASE Functions
  <2>1. Same
    BY <1>5 DEF Functions, IconifyFunction, ChangeState, Popup, WarpTo, SqueezeFunction,
                Occupy, NameChange, Becomes
  <2>2. QED
    BY <1>1, <1>5, <2>1, FunctionsStep
<1>6. CASE Occupations
  <2>1. Same
    BY <1>6 DEF Occupations, MoveToNextWorkSpace, MoveToPrevWorkSpace, OccupyAll,
                WMgrRemoveFromCurrentWorkSpace, WMgrAddToCurrentWorkSpaceAndWarp, AddTo,
                RemoveFromWorkSpace, ToggleOccupation, ChangesTo, NetWmDesktop,
                OccupationProperty, OccupyHandleButtonEvent, OccupyWindowIconify, Becomes
  <2>2. QED
    BY <1>1, <1>6, <2>1, OccupationsStep
<1>7. CASE Screens
  <2>1. CASE ShowBackground
    BY <1>1, <2>1 DEF ShowBackground
  <2>2. CASE \E v \in VScreen : EnterVScreen(v)
    BY <1>1, <2>2 DEF EnterVScreen, Becomes
  <2>3. CASE \E v \in VScreen : \E ws \in WorkSpace : SwitchWorkSpace(v, ws)
    <3>1. Same
      BY <2>3 DEF SwitchWorkSpace, Becomes
    <3>2. Step
      BY <2>3, SwitchWorkSpaceSteps
    <3>3. QED
      BY <1>1, <3>1, <3>2
  <2>4. QED
    BY <1>7, <2>1, <2>2, <2>3 DEF Screens
<1>8. CASE Restarts
  <2>1. CASE DoRestart
    BY <2>1 DEF DoRestart
  <2>2. CASE \E w \in Client : TakeOver(w)
    <3>1. PICK w \in Client : TakeOver(w)
      BY <2>2
    <3>2. /\ UNCHANGED <<background, uses>> /\ starting' \in SUBSET Client
          /\ kept' = NothingKept \/ kept' = kept
      BY <1>1, <3>1 DEF TakeOver
    <3>3. NothingKept \in Kept
      BY DEF NothingKept
    <3>4. QED
      BY <1>1, <3>1, <3>2, <3>3, TakeOverSteps
  <2>3. QED
    BY <1>8, <2>1, <2>2 DEF Restarts
<1>9. QED
  BY <1>2, <1>3, <1>4, <1>5, <1>6, <1>7, <1>8 DEF Next

\* ctwm starts with the workspaces of the property, and then the first ones.
LEMMA StartWorkSpacesType ==
  ASSUME NEW map \in VScreenMaps
  PROVE  StartWorkSpaces(map) \in [VScreen -> WorkSpace]
<1>1. map \in Seq(WorkSpace) /\ Len(map) <= NumVScreens
  BY LifeCycleAssumption
<1>2. ASSUME NEW v \in VScreen
      PROVE  (IF v <= Len(map) THEN map[v] ELSE v - Len(map) - 1) \in WorkSpace
  <2>1. CASE v <= Len(map)
    BY <1>1, <2>1 DEF VScreen
  <2>2. CASE ~(v <= Len(map))
    <3>1. Len(map) \in Nat /\ v \in Nat /\ v <= NumVScreens
      BY <1>1, ScreenAssumption DEF VScreen
    <3>2. QED
      BY <2>2, <3>1, ScreenAssumption DEF WorkSpace
  <2>3. QED
    BY <2>1, <2>2
<1>3. QED
  BY <1>2 DEF StartWorkSpaces

\* No window is known at the start, and all are on no screen.
LEMMA StartIs ==
  ASSUME Init
  PROVE  /\ LifeInv /\ ~background /\ wm.occupyWin = None /\ managed(wm) = {}
         /\ \A w \in Client : wm.win[w].savevs = None
         /\ \E map \in VScreenMaps : wm.current = StartWorkSpaces(map)
<1>1. PICK map \in VScreenMaps :
        wm = [ win       |-> [w \in Client |-> Unmanaged],
               queue     |-> <<>>,
               current   |-> StartWorkSpaces(map),
               currentvs |-> 1,
               occupyWin |-> None,
               occupyUp  |-> FALSE ]
  BY DEF Init
<1>2. Unmanaged \in WindowType /\ Unmanaged.managed = FALSE /\ Unmanaged.savevs = None
  BY DEF Unmanaged, WindowType, WmState
<1>3. 1 \in VScreen /\ <<>> \in Seq([type : EventType, win : Client])
  BY ScreenAssumption DEF VScreen
<1>4. wm \in WmType
  BY <1>1, <1>2, <1>3, StartWorkSpacesType DEF WmType
<1>5. /\ \A w \in Client : wm.win[w].managed = FALSE /\ wm.win[w].savevs = None
      /\ wm.occupyWin = None /\ wm.current = StartWorkSpaces(map)
  BY <1>1, <1>2
<1>6. managed(wm) = {} /\ Sound(wm)
  BY <1>4, <1>5 DEF managed, Sound, DeathsAreTold, Tidy
<1>7. NothingKept \in [Client -> [isicon : BOOLEAN, occupation : SUBSET WorkSpace]]
  BY DEF NothingKept
<1>8. TypeOK
  BY <1>4, <1>7 DEF Init, TypeOK
<1>9. QED
  BY <1>5, <1>6, <1>8 DEF LifeInv, Init

\* Types, every death known or told, nothing unknown remembered: the inductive
\* invariant of all that follows.
LEMMA LifeInvHolds ==
  Spec => []LifeInv
<1>1. Init => LifeInv
  BY StartIs
<1>2. LifeInv /\ [Next]_vars => LifeInv'
  <2> SUFFICES ASSUME LifeInv, [Next]_vars
               PROVE  LifeInv'
    OBVIOUS
  <2>1. /\ background' \in BOOLEAN /\ uses' = uses
        /\ ~DoRestart => /\ starting' \in SUBSET Client
                         /\ kept' \in [Client -> [isicon : BOOLEAN,
                                                  occupation : SUBSET WorkSpace]]
    BY StepIs
  <2>2. DoRestart => /\ starting' \in SUBSET Client
                     /\ kept' \in [Client -> [isicon : BOOLEAN,
                                              occupation : SUBSET WorkSpace]]
    BY DoRestartIs
  <2>3. Sound(wm) /\ uses \in Sessions
    BY DEF LifeInv, TypeOK
  <2>4. wm' \in WmType /\ Sound(wm')
    <3>1. CASE Step
      BY <2>3, <3>1 DEF Step, Changes
    <3>2. QED
      BY <3>1, StepIs, OccupySteps, EnterVScreenIs, ShowBackgroundIs, DoRestartIs
  <2>5. QED
    BY <2>1, <2>2, <2>3, <2>4 DEF LifeInv, TypeOK, Sound, DeathsAreTold, Tidy, managed
<1>3. QED
  BY <1>1, <1>2, PTL DEF Spec

(***************************************************************************)
(* Theorems.                                                                *)
(***************************************************************************)
\* Types: whatever clients and users do, in whatever order events arrive.
THEOREM TypeCorrect ==
  Spec => []TypeOK
<1>1. LifeInv => TypeOK
  BY DEF LifeInv
<1>2. QED
  BY <1>1, LifeInvHolds, PTL

\* A window that its client has destroyed is forgotten once the events that tell of
\* it are handled, and f.occupy never refers to one that is gone.
THEOREM TheDeadAreLetGo ==
  Spec => [](DeadAreForgotten /\ OccupyWindowIsThere)
<1>1. LifeInv => DeadAreForgotten /\ OccupyWindowIsThere
  <2> SUFFICES ASSUME LifeInv PROVE DeadAreForgotten /\ OccupyWindowIsThere
    OBVIOUS
  <2>1. ASSUME wm.queue = <<>>, NEW w \in managed(wm), ~wm.win[w].exists
        PROVE  FALSE
    <3>1. Event("Destroy", w) \in Range(wm.queue)
      BY <2>1 DEF LifeInv, Sound, DeathsAreTold, managed
    <3>2. wm.queue \in Seq(AnEvent) /\ Len(wm.queue) = 0
      BY <2>1, WmFields DEF LifeInv, TypeOK
    <3>3. \E i \in 1 .. Len(wm.queue) : Event("Destroy", w) = wm.queue[i]
      BY <3>1, <3>2, RangeIs
    <3>4. QED
      BY <3>2, <3>3
  <2>2. OccupyWindowIsThere
    BY DEF LifeInv, Sound, OccupyWindowIsThere
  <2>3. QED
    BY <2>1, <2>2 DEF DeadAreForgotten
<1>2. QED
  BY <1>1, LifeInvHolds, PTL

\* Whatever changes the occupation of a window, be it a function, a property, a
\* message or a name, changes that of its dialogs and theirs to the same.
THEOREM DialogsGoAlong ==
  Spec => DialogsFollow
<1> DEFINE A == ~TransientHasOccupation =>
                  \A w \in managed(wm), t \in managed(wm) :
                    /\ t \in Dialogs(wm, w)
                    /\ {w, t} \subseteq managed(wm')
                    /\ wm'.win[w].occupation # wm.win[w].occupation
                    => wm'.win[t].occupation = wm'.win[w].occupation
<1>1. LifeInv /\ [Next]_vars => [A]_vars
  <2> SUFFICES ASSUME LifeInv, [Next]_vars PROVE A
    OBVIOUS
  <2>0. managed(wm) \subseteq Client
    BY DEF managed
  <2>1. CASE Step
    BY <2>1 DEF Step, Changes
  <2>2. CASE \E w \in Client : Occupy(w)
    BY <2>0, <2>2, OccupySteps
  <2>3. CASE \E v \in VScreen : EnterVScreen(v)
    BY <2>0, <2>3, EnterVScreenIs
  <2>4. CASE ShowBackground
    BY <2>0, <2>4, ShowBackgroundIs
  <2>5. CASE DoRestart
    BY <2>0, <2>5, DoRestartIs
  <2>6. QED
    BY <2>1, <2>2, <2>3, <2>4, <2>5, StepIs
<1>2. QED
  BY <1>1, LifeInvHolds, PTL DEF Spec, DialogsFollow

(***************************************************************************)
(* Where windows are, and where they were before f.showbackground.          *)
(***************************************************************************)
\* In a session with f.showbackground the pointer stays on its virtual screen.
OneScreenAtATime == {"background", "workspaces"} \subseteq uses

\* Only ShowBackground hides, and only windows of the screen it was invoked on.
HiddenInv ==
  /\ background => "background" \in uses
  /\ ~background => NoneHidden(wm)
  /\ ~OneScreenAtATime => \A w \in Client : wm.win[w].savevs \in {None, wm.currentvs}

\* That is invariant.
LEMMA HiddenInvHolds ==
  Spec => []HiddenInv
<1>1. Init => HiddenInv
  BY StartIs DEF HiddenInv, NoneHidden
<1>2. LifeInv /\ HiddenInv /\ [Next]_vars => HiddenInv'
  <2> SUFFICES ASSUME LifeInv, HiddenInv, [Next]_vars PROVE HiddenInv'
    OBVIOUS
  <2>0. uses' = uses /\ background' \in BOOLEAN /\ background \in BOOLEAN
    BY StepIs DEF LifeInv, TypeOK
  <2>1. CASE Step /\ background' = background
    <3>1. /\ wm'.currentvs = wm.currentvs
          /\ \A w \in Client : wm'.win[w].savevs \in {None, wm.win[w].savevs}
      BY <2>1 DEF Step, Changes
    <3>2. QED
      BY <2>0, <2>1, <3>1 DEF HiddenInv, NoneHidden, OneScreenAtATime
  <2>2. CASE (\E w \in Client : Occupy(w)) /\ background' = background
    <3>1. wm'.win = wm.win /\ wm'.currentvs = wm.currentvs
      BY <2>2, OccupySteps
    <3>2. QED
      BY <2>0, <2>2, <3>1 DEF HiddenInv, NoneHidden, OneScreenAtATime
  <2>3. CASE (\E v \in VScreen : EnterVScreen(v)) /\ background' = background
    <3>1. wm'.win = wm.win /\ "workspaces" \in uses
      BY <2>3, EnterVScreenIs
    <3>2. background => OneScreenAtATime
      BY <3>1 DEF HiddenInv, OneScreenAtATime
    <3>3. QED
      BY <2>0, <2>3, <3>1, <3>2 DEF HiddenInv, NoneHidden, OneScreenAtATime
  <2>4. CASE ShowBackground
    <3>1. /\ background' = ~background /\ "background" \in uses
          /\ wm'.currentvs = wm.currentvs
      BY <2>4, ShowBackgroundIs DEF ShowBackground
    <3>2. ASSUME NEW w \in Client
          PROVE  /\ background => wm'.win[w].savevs = None
                 /\ ~background => wm'.win[w].savevs \in {wm.currentvs, wm.win[w].savevs}
      BY <2>4, ShowBackgroundIs
    <3>3. QED
      BY <2>0, <3>1, <3>2 DEF HiddenInv, NoneHidden, OneScreenAtATime
  <2>5. CASE DoRestart
    <3>1. background' = FALSE /\ \A w \in Client : wm'.win[w].savevs = None
      BY <2>5, DoRestartIs DEF DoRestart
    <3>2. QED
      BY <3>1 DEF HiddenInv, NoneHidden
  <2>6. QED
    BY <2>1, <2>2, <2>3, <2>4, <2>5, StepIs
<1>3. QED
  BY <1>1, <1>2, LifeInvHolds, PTL DEF Spec

\* f.showbackground is used on one virtual screen: what it remembers are the windows
\* of the screen the pointer was on, and it looks for those of the screen it is on.
BackgroundStays == \A s \in Sessions : ~({"background", "workspaces"} \subseteq s)

\* f.showbackground brings back what it took away, in whatever state it is then:
\* iconified, mapped again, or moved to other workspaces meanwhile.
THEOREM TheBackgroundGoesAway ==
  ASSUME BackgroundStays
  PROVE  Spec => BackgroundComesBack
<1> DEFINE A == background /\ ~background' =>
                  \A w \in managed(wm) \cap managed(wm') :
                    wm'.win[w].vs = Screen(wm.win[w])
<1>1. LifeInv /\ HiddenInv /\ [Next]_vars => [A]_vars
  <2> SUFFICES ASSUME LifeInv, HiddenInv, [Next]_vars, background, ~background',
                      NEW w \in managed(wm) \cap managed(wm')
               PROVE  wm'.win[w].vs = Screen(wm.win[w])
    OBVIOUS
  <2>1. w \in Client /\ wm.win[w].managed
    BY DEF managed
  <2>2. wm.win[w].savevs \in {None, wm.currentvs}
    BY <2>1 DEF HiddenInv, OneScreenAtATime, BackgroundStays, LifeInv, TypeOK
  <2>3. CASE ShowBackground
    <3>1. CASE wm.win[w].savevs = wm.currentvs
      BY <2>1, <2>3, <3>1, ShowBackgroundIs DEF Screen
    <3>2. CASE wm.win[w].savevs # wm.currentvs
      <4>1. wm.win[w].savevs = None /\ wm'.win[w].vs = wm.win[w].vs
        BY <2>1, <2>2, <2>3, <3>2, ShowBackgroundIs
      <4>2. QED
        BY <4>1 DEF Screen
    <3>3. QED
      BY <3>1, <3>2
  <2>4. CASE DoRestart
    BY <2>4, DoRestartIs
  <2>5. QED
    BY <2>3, <2>4, StepIs
<1>2. QED
  BY <1>1, LifeInvHolds, HiddenInvHolds, PTL DEF Spec, BackgroundComesBack

\* The property of the last ctwm, if there is one, gives every virtual screen a
\* workspace of its own.  With fewer entries than screens, the first workspaces
\* are given to the others, also those that are shown already.
WholeMaps ==
  \A map \in VScreenMaps : \A u, v \in VScreen :
    StartWorkSpaces(map)[u] = StartWorkSpaces(map)[v] => u = v

\* While f.showbackground hides windows nothing changes the workspaces that are
\* shown or that windows are in: what it remembers of a window is a screen.
Apart == "background" \in uses => WarpCursor = {} /\ uses \cap Disturbing = {}

\* Every window is where it should be; if f.occupy is not used, it asks nothing.
PlaceInv ==
  /\ Apart => Fit(wm)
  /\ "occupy" \notin uses => wm.occupyWin = None

\* Windows are where they should be at the start.
LEMMA StartFits ==
  ASSUME WholeMaps, Init
  PROVE  PlaceInv
<1>1. PICK map \in VScreenMaps : wm.current = StartWorkSpaces(map)
  BY StartIs
<1>2. \A w \in Client : ~wm.win[w].managed /\ wm.win[w].savevs = None
  BY StartIs DEF managed
<1>3. \A u, v \in VScreen : wm.current[u] = wm.current[v] => u = v
  BY <1>1 DEF WholeMaps
<1>4. Fit(wm)
  BY <1>2, <1>3 DEF Fit
<1>5. QED
  BY <1>4, StartIs DEF PlaceInv

\* f.showbackground leaves every window on the screen that it is or was on.
LEMMA ShowBackgroundFits ==
  ASSUME LifeInv, HiddenInv, Fit(wm), ~OneScreenAtATime, ShowBackground
  PROVE  Fit(wm')
<1>1. ASSUME NEW w \in Client
      PROVE  IF wm'.win[w].managed THEN InPlace(wm.current, wm'.win[w])
             ELSE wm'.win[w].savevs = None
  <2>1. wm'.win[w].managed = wm.win[w].managed
        /\ wm'.win[w].occupation = wm.win[w].occupation
    BY <1>1, ShowBackgroundIs
  <2>2. CASE ~wm.win[w].managed
    <3>1. wm.win[w].savevs = None
      BY <1>1, <2>2 DEF Fit
    <3>2. QED
      BY <1>1, <2>1, <2>2, <3>1, ShowBackgroundIs
  <2>3. CASE wm.win[w].managed
    <3>1. InPlace(wm.current, wm.win[w])
      BY <1>1, <2>3 DEF Fit
    <3>2. wm.win[w].savevs \in {None, wm.currentvs}
          /\ (~background => wm.win[w].savevs = None)
      BY <1>1 DEF HiddenInv, NoneHidden
    <3>3. wm.currentvs # None
      <4>1. wm.currentvs \in VScreen
        BY Uses
      <4>2. QED
        BY <4>1, ScreenAssumption
    <3>4. Screen(wm'.win[w]) = Screen(wm.win[w])
      <4>1. CASE ~background /\ wm.win[w].vs = wm.currentvs
        BY <1>1, <2>3, <3>3, <4>1, ShowBackgroundIs DEF Screen
      <4>2. CASE background /\ wm.win[w].savevs = wm.currentvs
        BY <1>1, <2>3, <3>3, <4>2, ShowBackgroundIs DEF Screen
      <4>3. CASE /\ ~(~background /\ wm.win[w].vs = wm.currentvs)
                 /\ ~(background /\ wm.win[w].savevs = wm.currentvs)
        <5>1. wm.win[w].savevs = None
          BY <3>2, <4>3
        <5>2. wm'.win[w].vs = wm.win[w].vs /\ wm'.win[w].savevs = None
          BY <1>1, <4>3, <5>1, ShowBackgroundIs
        <5>3. QED
          BY <5>1, <5>2 DEF Screen
      <4>4. QED
        BY <4>1, <4>2, <4>3
    <3>5. QED
      BY <2>1, <2>3, <3>1, <3>4 DEF InPlace
  <2>4. QED
    BY <2>2, <2>3
<1>2. wm'.current = wm.current
  BY ShowBackgroundIs
<1>3. QED
  BY <1>1, <1>2 DEF Fit

\* Every step leaves every window where it should be.
LEMMA PlaceInvStep ==
  ASSUME LifeInv, HiddenInv, PlaceInv, [Next]_vars
  PROVE  PlaceInv'
<1>0. uses' = uses
  BY StepIs
<1>1. ASSUME Apart PROVE Fit(wm')
  <2>0. Fit(wm)
    BY <1>1 DEF PlaceInv
  <2>1. CASE Step
    <3>1. CASE "background" \in uses
      <4>1. "occupy" \notin uses
        BY <1>1, <3>1 DEF Apart, Disturbing
      <4>2. Undisturbed
        BY <1>1, <3>1, <4>1 DEF Apart, Undisturbed, PlaceInv
      <4>3. QED
        BY <2>0, <2>1, <4>2 DEF Step, Fits
    <3>2. CASE "background" \notin uses
      <4>1. NoneHidden(wm)
        BY <3>2 DEF HiddenInv
      <4>2. QED
        BY <2>0, <2>1, <4>1 DEF Step, Changes, FitsUnhidden
    <3>3. QED
      BY <3>1, <3>2
  <2>2. CASE \E w \in Client : Occupy(w)
    BY <2>0, <2>2, OccupySteps DEF Fits
  <2>3. CASE \E v \in VScreen : EnterVScreen(v)
    BY <2>0, <2>3, EnterVScreenIs DEF Fits
  <2>4. CASE ShowBackground
    <3>1. ~OneScreenAtATime
      BY <1>1 DEF Apart, OneScreenAtATime, Disturbing
    <3>2. QED
      BY <2>0, <2>4, <3>1, ShowBackgroundFits
  <2>5. CASE DoRestart
    <3>1. managed(wm') = {} /\ wm'.current = wm.current
          /\ \A w \in Client : wm'.win[w].savevs = None
      BY <2>5, DoRestartIs
    <3>2. QED
      BY <2>0, <3>1 DEF Fit, managed
  <2>6. QED
    BY <2>1, <2>2, <2>3, <2>4, <2>5, StepIs
<1>2. ASSUME "occupy" \notin uses PROVE wm'.occupyWin = None
  <2>0. wm.occupyWin = None
    BY <1>2 DEF PlaceInv
  <2>1. CASE Step
    BY <2>0, <2>1 DEF Step, Changes
  <2>2. QED
    BY <1>2, <2>0, <2>1, StepIs, OccupySteps, EnterVScreenIs, ShowBackgroundIs, DoRestartIs
<1>3. QED
  BY <1>0, <1>1, <1>2 DEF PlaceInv, Apart

\* No workspace is ever shown twice, and every window is on a virtual screen if and
\* only if one shows a workspace that it occupies, and then on such a one, through
\* every interleaving of events, functions, properties and restarts.
THEOREM WindowsAreWhereTheyShouldBe ==
  ASSUME WholeMaps
  PROVE  Spec => [](Apart => OnScreenIffOccupies)
<1>1. Init => PlaceInv
  BY StartFits
<1>2. LifeInv /\ HiddenInv /\ PlaceInv /\ [Next]_vars => PlaceInv'
  BY PlaceInvStep
<1>3. LifeInv /\ PlaceInv => (Apart => OnScreenIffOccupies)
  <2> SUFFICES ASSUME PlaceInv, Apart PROVE OnScreenIffOccupies
    OBVIOUS
  <2>1. Fit(wm)
    BY DEF PlaceInv
  <2>2. ASSUME NEW w \in managed(wm)
        PROVE  IF Screen(wm.win[w]) = None
               THEN \A v \in VScreen : ~OCCUPY(wm.win[w], wm.current[v])
               ELSE OCCUPY(wm.win[w], wm.current[Screen(wm.win[w])])
    <3>1. InPlace(wm.current, wm.win[w])
      BY <2>1 DEF Fit, managed
    <3>2. QED
      BY <3>1 DEF InPlace, OCCUPY
  <2>3. QED
    BY <2>1, <2>2 DEF Fit, OnScreenIffOccupies
<1>4. QED
  BY <1>1, <1>2, <1>3, LifeInvHolds, HiddenInvHolds, PTL DEF Spec

=============================================================================
