------------------------- MODULE InteractionProofs -------------------------
(***************************************************************************)
(* Proofs about Interaction: for any menus, bindings and functions, and     *)
(* whatever the user does, the menus on the screen are those of the chain,  *)
(* no window stays the one that is dragged, and one that is dragged goes    *)
(* back to where it was when that is given up.                              *)
(*                                                                          *)
(* All need to know which loops run inside which: a loop of f.move or       *)
(* f.resize is the last one, under it at most that of UpdateMenu, and no    *)
(* menu is up while it runs.                                                *)
(***************************************************************************)
EXTENDS Interaction, SequenceFacts

(***************************************************************************)
(* The invariant.                                                           *)
(***************************************************************************)

MenuLoop == {l \in LoopType : l.loop = "menu" /\ l.rest = <<>>}

DragLoop ==
  {l \in LoopType : l.loop # "menu" /\ l.win \in Window /\ l.orig \in Place /\ l.now \in Place}

\* The stacks of loops: f.move and f.resize are the last ones, UpdateMenu the first.
LoopsFit(q) ==
  /\ q \in Seq(MenuLoop \cup DragLoop)
  /\ \A i \in 1 .. Len(q) : q[i].loop = "menu" => i = 1
  /\ \A i \in 1 .. Len(q) : q[i].loop # "menu" => i = Len(q)

\* f.move or f.resize is waiting for an event.
Dragging(q) == q # <<>> /\ Last(q).loop # "menu"

\* The chain of menus, and what is on the screen.
Chained(u) ==
  /\ u.depth = Len(u.active) /\ IsInjective(u.active)
  /\ \A m \in Menu : (m \in ToSet(u.active)) = (u.mapped[m] = "mapped")
  /\ \A m \in Menu : u.up[m] => m \in ToSet(u.active)
  /\ \A m \in MenuRoot \ Menu : u.up[m] = (u.mapped[m] = "mapped")

\* The item is one of the active menu.
Chain(u) ==
  /\ Chained(u)
  /\ u.item # 0 => u.active # <<>> /\ u.item <= Len(Items(ActiveMenu(u)))

Settled(u) == u.drag = None /\ u.resize = None /\ ~u.size

\* What is dragged is the window of the loop that drags.
Drags(u) ==
  \/ Settled(u)
  \/ /\ Dragging(u.loops)
     /\ u.drag # None => Last(u.loops).loop = "move" /\ u.drag = Last(u.loops).win
     /\ u.resize = IF Last(u.loops).loop = "resize" THEN Last(u.loops).win ELSE None

\* A function that is chosen knows its window, or is deferred.
Knows(ctx, w) ==
  /\ ctx \in {"root", "alternate", "title", "window"}
  /\ ctx \in {"title", "window"} => w \in Window

\* While a menu is up nothing is dragged, there is an UpdateMenu unless things are
\* being given up, and the window that the menu is about is there.
Asked(u) ==
  u.active # <<>> =>
    /\ Knows(u.context, u.win) /\ ~Dragging(u.loops)
    /\ ~u.cancel => InMenu(u)
    /\ InMenu(u) /\ ~Pinned(Head(u.active)) => u.win \in u.managed \cup {None}

\* A loop of f.move that has just been entered knows where the window is shown.
Fresh(u) ==
  Dragging(u.loops) /\ Last(u.loops).loop = "move" =>
    u.shown[Last(u.loops).win] = Last(u.loops).orig

\* Until an opaque move has begun to drag, and always for an outline, the window is
\* shown where it was.
Shows(u) == u.drag = None \/ ~OpaqueMove => Fresh(u)

\* What holds of a state, but for what a menu that has just come up still needs.
Sound(u) == u \in UiType /\ Chain(u) /\ LoopsFit(u.loops) /\ Drags(u)

InteractionInv == Sound(ui) /\ Asked(ui) /\ Shows(ui)

(***************************************************************************)
(* The stack of loops.                                                      *)
(***************************************************************************)

\* Loops are of two kinds.
LEMMA TwoKinds ==
  /\ MenuLoop \cup DragLoop \subseteq LoopType
  /\ \A l \in MenuLoop \cup DragLoop : l \in DragLoop <=> l.loop # "menu"
BY DEF MenuLoop, DragLoop

\* What is under the last loop.
LEMMA FrontIs ==
  ASSUME NEW S, NEW q \in Seq(S), q # <<>>
  PROVE  /\ Len(q) \in Nat \ {0} /\ Last(q) = q[Len(q)] /\ Last(q) \in S
         /\ Front(q) \in Seq(S) /\ Len(Front(q)) = Len(q) - 1
         /\ \A i \in 1 .. Len(q) - 1 : Front(q)[i] = q[i]
<1>1. Len(q) \in Nat \ {0} /\ \A i \in 1 .. Len(q) : q[i] \in S
  BY EmptySeq, ElementOfSeq
<1>2. Last(q) = q[Len(q)] /\ Last(q) \in S
  BY <1>1 DEF Last
<1> DEFINE p == SubSeq(q, 1, Len(q) - 1)
<1>3. \A i \in 1 .. Len(q) - 1 : q[i] \in S
  BY <1>1
<1>4. p \in Seq(S) /\ Len(p) = Len(q) - 1 /\ \A i \in 1 .. Len(q) - 1 : p[i] = q[i]
  <2> DEFINE n == Len(q) - 1
  <2>1. n \in Nat /\ n \in Int /\ 1 \in Int /\ \A i \in 1 .. n : q[i] \in S
    BY <1>1, <1>3
  <2> HIDE DEF n
  <2>2. /\ SubSeq(q, 1, n) \in Seq(S)
        /\ Len(SubSeq(q, 1, n)) = IF 1 <= n THEN n - 1 + 1 ELSE 0
        /\ \A i \in 1 .. n - 1 + 1 : SubSeq(q, 1, n)[i] = q[1 + i - 1]
    BY <2>1, SubSeqProperties
  <2>3. Len(SubSeq(q, 1, n)) = n /\ n - 1 + 1 = n /\ \A i \in 1 .. n : 1 + i - 1 = i
    BY <2>1, <2>2
  <2>4. QED
    BY <2>1, <2>2, <2>3 DEF n
<1>5. Front(q) = p
  BY DEF Front
<1>6. QED
  BY <1>1, <1>2, <1>4, <1>5

\* Of a stack: its last loop, and what is under it.
LEMMA LoopsAre ==
  ASSUME NEW q, LoopsFit(q), q # <<>>
  PROVE  /\ q \in Seq(LoopType) /\ Len(q) \in 1 .. 2 /\ Last(q) = q[Len(q)]
         /\ Front(q) \in Seq(LoopType) /\ Len(Front(q)) = Len(q) - 1
         /\ LoopsFit(Front(q)) /\ ~Dragging(Front(q))
         /\ Dragging(q) => Last(q) \in DragLoop
         /\ ~Dragging(q) => Last(q) \in MenuLoop /\ Front(q) = <<>>
<1> DEFINE S == MenuLoop \cup DragLoop
           f == Front(q)
           n == Len(q)
<1>1. q \in Seq(S) /\ \A i \in 1 .. n : q[i] \in S
  BY ElementOfSeq DEF LoopsFit
<1>2. /\ n \in Nat \ {0} /\ Last(q) = q[n] /\ Last(q) \in S
      /\ f \in Seq(S) /\ Len(f) = n - 1 /\ \A i \in 1 .. n - 1 : f[i] = q[i]
  BY <1>1, FrontIs
<1>3. q \in Seq(LoopType) /\ f \in Seq(LoopType)
  BY <1>1, <1>2, TwoKinds, SeqMonotonic
<1>4. n \in 1 .. 2 /\ \A i \in 1 .. n - 1 : i = 1 /\ q[i].loop = "menu"
  <2>1. \A i \in 1 .. n - 1 : q[i].loop = "menu"
    BY <1>2 DEF LoopsFit
  <2>2. \A i \in 1 .. n - 1 : i = 1
    BY <1>2, <2>1 DEF LoopsFit
  <2>3. n <= 2
    <3>1. SUFFICES ASSUME n > 2 PROVE FALSE
      BY <1>2
    <3>2. 2 \in 1 .. n - 1
      BY <1>2, <3>1
    <3>3. QED
      BY <2>2, <3>2
  <2>4. QED
    BY <1>2, <2>1, <2>2, <2>3
<1>5. LoopsFit(f)
  BY <1>2, <1>4 DEF LoopsFit
<1>6. ~Dragging(f)
  <2>1. CASE f = <<>>
    BY <2>1 DEF Dragging
  <2>2. CASE f # <<>>
    <3>1. Last(f) = f[Len(f)] /\ Len(f) \in Nat \ {0}
      BY <1>2, <2>2, FrontIs
    <3>2. Last(f).loop = "menu"
      BY <1>2, <1>4, <3>1
    <3>3. QED
      BY <3>2 DEF Dragging
  <2>3. QED
    BY <2>1, <2>2
<1>7. Dragging(q) => Last(q) \in DragLoop
  BY <1>2, TwoKinds DEF Dragging
<1>8. ~Dragging(q) => Last(q) \in MenuLoop /\ f = <<>>
  <2>1. SUFFICES ASSUME ~Dragging(q) PROVE Last(q) \in MenuLoop /\ f = <<>>
    OBVIOUS
  <2>2. Last(q).loop = "menu"
    BY <2>1 DEF Dragging
  <2>3. n = 1
    BY <1>2, <2>2 DEF LoopsFit
  <2>4. f = <<>>
    BY <1>2, <2>3, EmptySeq
  <2>5. QED
    BY <1>2, <2>2, <2>4, TwoKinds
<1>9. QED
  BY <1>2, <1>3, <1>4, <1>5, <1>6, <1>7, <1>8

\* What the last loop becomes.
LEMMA DragChanges ==
  ASSUME NEW q, LoopsFit(q), Dragging(q), NEW d \in DragLoop
  PROVE  LET r == [q EXCEPT ![Len(q)] = d]
         IN  /\ LoopsFit(r) /\ Dragging(r) /\ Last(r) = d /\ Len(r) = Len(q)
             /\ \A i \in 1 .. Len(q) : (r[i].loop = "menu") = (q[i].loop = "menu")
<1> DEFINE S == MenuLoop \cup DragLoop
           n == Len(q)
           r == [q EXCEPT ![n] = d]
<1>1. q \in Seq(S) /\ q # <<>> /\ n \in 1 .. n /\ Last(q) = q[n] /\ q[n].loop # "menu"
  <2>1. q \in Seq(S) /\ q # <<>>
    BY DEF LoopsFit, Dragging
  <2>2. Len(q) \in Nat \ {0} /\ Last(q) = q[n]
    BY <2>1, FrontIs
  <2>3. QED
    BY <2>1, <2>2 DEF Dragging
<1>2. d \in S /\ d.loop # "menu"
  BY DEF DragLoop
<1>3. r \in Seq(S) /\ Len(r) = n /\ \A j \in 1 .. n : r[j] = IF j = n THEN d ELSE q[j]
  <2> HIDE DEF S
  <2>1. QED
    BY <1>1, <1>2, ExceptSeq
<1>4. LoopsFit(r)
  BY <1>1, <1>2, <1>3 DEF LoopsFit
<1>5. r # <<>> /\ Last(r) = d
  <2>1. r # <<>>
    BY <1>1, <1>3, EmptySeq
  <2>2. Last(r) = r[n]
    BY <1>3, <2>1, FrontIs
  <2>3. QED
    BY <1>1, <1>3, <2>1, <2>2
<1>6. QED
  BY <1>1, <1>2, <1>3, <1>4, <1>5 DEF Dragging

\* A loop that begins: UpdateMenu as the first, f.move or f.resize over it.
LEMMA LoopBegins ==
  ASSUME NEW q, LoopsFit(q), ~Dragging(q), NEW l \in MenuLoop \cup DragLoop,
         l \in MenuLoop => q = <<>>
  PROVE  LET r == Append(q, l)
         IN  /\ LoopsFit(r) /\ (Dragging(r) <=> l \in DragLoop) /\ Last(r) = l
             /\ Len(r) = Len(q) + 1 /\ r # <<>> /\ r \in Seq(LoopType)
             /\ \A i \in 1 .. Len(q) : r[i] = q[i]
<1> DEFINE S == MenuLoop \cup DragLoop
           r == Append(q, l)
           n == Len(q)
<1>1. q \in Seq(S) /\ n \in Nat
  BY LenProperties DEF LoopsFit
<1>2. /\ r \in Seq(S) /\ r # <<>> /\ Len(r) = n + 1 /\ r[n + 1] = l
      /\ \A i \in 1 .. n : r[i] = q[i]
  <2> HIDE DEF S
  <2>1. l \in S
    BY DEF S
  <2>2. QED
    BY <1>1, <2>1, AppendProperties
<1>3. Last(r) = l
  BY <1>2, FrontIs
<1>4. (Dragging(r) <=> l \in DragLoop) /\ (l \in DragLoop <=> l.loop # "menu")
  BY <1>2, <1>3, TwoKinds DEF Dragging
<1>5. \A i \in 1 .. n : q[i].loop = "menu" /\ i = 1
  <2>1. CASE q = <<>>
    BY <2>1, EmptySeq
  <2>2. CASE q # <<>>
    <3>1. n \in Nat \ {0} /\ Last(q) = q[n]
      BY <1>1, <2>2, FrontIs
    <3>2. n \in 1 .. n /\ q[n].loop = "menu"
      BY <2>2, <3>1 DEF Dragging
    <3>3. n = 1
      BY <3>2 DEF LoopsFit
    <3>4. QED
      BY <3>2, <3>3
  <2>3. QED
    BY <2>1, <2>2
<1>6. LoopsFit(r)
  <2>1. \A i \in 1 .. Len(r) : r[i].loop = "menu" => i = 1
    <3>1. TAKE i \in 1 .. Len(r)
    <3>2. CASE i \in 1 .. n
      BY <1>2, <1>5, <3>2
    <3>3. CASE i = n + 1
      <4>1. l.loop = "menu" => n = 0
        BY <1>4, EmptySeq
      <4>2. QED
        BY <1>2, <3>3, <4>1
    <3>4. QED
      BY <1>1, <1>2, <3>2, <3>3
  <2>2. \A i \in 1 .. Len(r) : r[i].loop # "menu" => i = Len(r)
    <3>1. TAKE i \in 1 .. Len(r)
    <3>2. CASE i \in 1 .. n
      BY <1>2, <1>5, <3>2
    <3>3. CASE i = n + 1
      BY <1>2, <3>3
    <3>4. QED
      BY <1>1, <1>2, <3>2, <3>3
  <2>3. QED
    BY <1>2, <2>1, <2>2 DEF LoopsFit
<1>7. r \in Seq(LoopType)
  BY <1>2, TwoKinds, SeqMonotonic
<1>8. QED
  BY <1>2, <1>3, <1>4, <1>6, <1>7

(***************************************************************************)
(* Menus.                                                                   *)
(***************************************************************************)

\* No frame has moved, nor has the server been told to move one.
Still(u, v) == v.frame = u.frame /\ v.shown = u.shown

\* Of a state that has changed: nothing of the loops, of what is dragged, and of
\* what is asked for has.
Kept(u, v) ==
  /\ v.loops = u.loops /\ v.drag = u.drag /\ v.resize = u.resize /\ v.size = u.size
  /\ v.context = u.context /\ v.win = u.win /\ v.cancel = u.cancel
  /\ v.managed = u.managed /\ v.at = u.at /\ Still(u, v)

\* Nor of the menus.
MenusKept(u, v) ==
  /\ v.active = u.active /\ v.depth = u.depth /\ v.mapped = u.mapped /\ v.up = u.up
  /\ v.item = u.item

\* The menu that is active, and its items.
LEMMA ActiveIs ==
  ASSUME NEW u \in UiType
  PROVE  /\ ActiveMenu(u) = None <=> u.active = <<>>
         /\ u.active # <<>> => /\ ActiveMenu(u) \in MenuRoot
                               /\ ActiveMenu(u) = u.active[Len(u.active)]
                               /\ Len(u.active) \in Nat \ {0}
<1>1. u.active \in Seq(MenuRoot)
  BY DEF UiType
<1>2. u.active # <<>> => /\ Last(u.active) \in MenuRoot /\ Len(u.active) \in Nat \ {0}
                         /\ Last(u.active) = u.active[Len(u.active)]
  BY <1>1, FrontIs
<1>3. QED
  BY <1>2, InteractionAssumption DEF ActiveMenu

LEMMA ItemsAre ==
  ASSUME NEW m \in MenuRoot
  PROVE  /\ Base(m) \in Menu /\ Items(m) \in Seq(Action)
         /\ \A i \in 1 .. Len(Items(m)) : Items(m)[i] \in Action
<1>1. Base(m) \in Menu
  BY DEF Base, Pinned, MenuRoot
<1>2. Items(m) \in Seq(Action)
  BY <1>1, InteractionAssumption DEF Items
<1>3. QED
  BY <1>1, <1>2, ElementOfSeq

\* Menus are put away.
LEMMA PutAwayIs ==
  ASSUME NEW u \in UiType, NEW ms
  PROVE  LET v == PutAway(u, ms)
         IN  /\ v \in UiType /\ Kept(u, v)
             /\ v.active = u.active /\ v.depth = u.depth /\ v.item = u.item
             /\ \A m \in MenuRoot : v.up[m] <=> m \notin ms /\ u.up[m]
             /\ \A m \in MenuRoot : v.mapped[m] = IF m \in ms THEN "unmapped" ELSE u.mapped[m]
<1> DEFINE up == [m \in MenuRoot |-> m \notin ms /\ u.up[m]]
           mapped == [m \in MenuRoot |-> IF m \in ms THEN "unmapped" ELSE u.mapped[m]]
<1>1. PutAway(u, ms) = [u EXCEPT !.up = up, !.mapped = mapped]
  BY DEF PutAway, UiType
<1>2. up \in [MenuRoot -> BOOLEAN] /\ mapped \in [MenuRoot -> {"never", "unmapped", "mapped"}]
  BY DEF UiType
<1>3. /\ \A m \in MenuRoot : up[m] <=> m \notin ms /\ u.up[m]
      /\ \A m \in MenuRoot : mapped[m] = IF m \in ms THEN "unmapped" ELSE u.mapped[m]
  OBVIOUS
<1> HIDE DEF up, mapped
<1>4. [u EXCEPT !.up = up, !.mapped = mapped] \in UiType
  BY ZenonT(60), <1>2 DEF UiType
<1>5. LET v == [u EXCEPT !.up = up, !.mapped = mapped]
      IN  /\ Kept(u, v) /\ v.active = u.active /\ v.depth = u.depth /\ v.item = u.item
          /\ v.up = up /\ v.mapped = mapped
  BY DEF UiType, Kept, Still
<1>6. QED
  BY <1>1, <1>3, <1>4, <1>5
\* Without a menu nothing of the chain is on the screen.
LEMMA ChainIsEmpty ==
  ASSUME NEW u \in UiType, u.active = <<>>, u.depth = 0, u.item = 0,
         \A m \in Menu : u.mapped[m] # "mapped" /\ ~u.up[m],
         \A m \in MenuRoot \ Menu : u.up[m] = (u.mapped[m] = "mapped")
  PROVE  Chain(u) /\ Asked(u)
<1>1. Len(u.active) = 0 /\ ToSet(u.active) = {} /\ IsInjective(u.active)
  BY DEF ToSet, IsInjective
<1>2. QED
  BY <1>1 DEF Chain, Chained, Asked

\* The same chain, and the same loops: nothing has changed.
LEMMA SoundKept ==
  ASSUME NEW u, Sound(u), NEW v \in UiType, Kept(u, v), MenusKept(u, v)
  PROVE  Sound(v) /\ (Asked(u) => Asked(v)) /\ (Fresh(u) => Fresh(v))
         /\ (Shows(u) => Shows(v))
<1>1. Chain(v)
  BY DEF Chain, Chained, Sound, MenusKept, ActiveMenu
<1>2. LoopsFit(v.loops)
  BY DEF Sound, Kept, Still
<1>3. Drags(v)
  BY DEF Drags, Settled, Sound, Kept, Still
<1>4. Asked(u) => Asked(v)
  BY DEF Asked, InMenu, MenusKept, Kept, Still
<1>5. (Fresh(u) => Fresh(v)) /\ (Shows(u) => Shows(v))
  BY DEF Fresh, Shows, Kept, Still
<1>6. QED
  BY <1>1, <1>2, <1>3, <1>4, <1>5 DEF Sound

\* All the menus are put away.
LEMMA PoppedDown ==
  ASSUME NEW u, Sound(u)
  PROVE  LET v == PopDownMenu(u)
         IN  Sound(v) /\ Asked(v) /\ Kept(u, v) /\ v.active = <<>>
<1>1. u \in UiType /\ u.active \in Seq(MenuRoot)
  BY DEF Sound, UiType
<1>2. CASE u.active = <<>>
  <2>1. PopDownMenu(u) = u
    BY <1>2 DEF PopDownMenu
  <2>2. QED
    BY <1>2, <2>1 DEF Kept, Still, Asked
<1>3. CASE u.active # <<>>
  <2> DEFINE ms == {m \in Menu : \E i \in DOMAIN u.active : u.active[i] = m}
             p == PutAway(u, ms)
             from == u.fromWin \/ u.context \in {"window", "title"}
             v == [p EXCEPT !.active = <<>>, !.item = 0, !.depth = 0, !.keyboard = FALSE,
                            !.fromWin = from]
  <2>1. /\ p \in UiType /\ Kept(u, p)
        /\ \A m \in MenuRoot : p.up[m] <=> m \notin ms /\ u.up[m]
        /\ \A m \in MenuRoot : p.mapped[m] = IF m \in ms THEN "unmapped" ELSE u.mapped[m]
    BY <1>1, PutAwayIs
  <2>2. p.fromWin = u.fromWin /\ p.context = u.context
    BY <1>1 DEF PutAway, UiType
  <2>3. PopDownMenu(u) = v
    BY <1>3, <2>1, <2>2 DEF PopDownMenu, UiType
  <2>4. \A m \in Menu : m \in ms <=> m \in ToSet(u.active)
    BY DEF ToSet
  <2>5. /\ \A m \in Menu : p.mapped[m] # "mapped" /\ ~p.up[m]
        /\ \A m \in MenuRoot \ Menu : p.up[m] = (p.mapped[m] = "mapped")
    <3>1. /\ \A m \in Menu : m \in MenuRoot
          /\ \A m \in ms : m \in Menu
      BY DEF MenuRoot
    <3> HIDE DEF ms, p
    <3>2. /\ \A m \in Menu : m \notin ms => u.mapped[m] # "mapped" /\ ~u.up[m]
          /\ \A m \in MenuRoot \ Menu : u.up[m] = (u.mapped[m] = "mapped")
      BY <2>4 DEF Sound, Chain, Chained
    <3>3. \A m \in MenuRoot \ Menu : m \notin ms /\ p.up[m] = u.up[m] /\ p.mapped[m] = u.mapped[m]
      <4>1. u.up \in [MenuRoot -> BOOLEAN] /\ p.up \in [MenuRoot -> BOOLEAN]
        BY <1>1, <2>1 DEF UiType
      <4>2. QED
        BY <2>1, <3>1, <4>1
    <3>4. QED
      BY <2>1, <3>1, <3>2, <3>3
  <2> HIDE DEF p
  <2>6. from \in BOOLEAN /\ <<>> \in Seq(MenuRoot)
    BY <1>1 DEF UiType
  <2> HIDE DEF from
  <2>7. v \in UiType
    BY ZenonT(60), <2>1, <2>6 DEF UiType
  <2>8. /\ Kept(p, v) /\ v.active = <<>> /\ v.item = 0 /\ v.depth = 0
        /\ v.mapped = p.mapped /\ v.up = p.up
    BY <2>1 DEF Kept, Still, UiType
  <2> HIDE DEF v
  <2>9. Kept(u, v)
    BY <2>1, <2>8 DEF Kept, Still
  <2>10. Chain(v) /\ Asked(v)
    BY <2>5, <2>7, <2>8, ChainIsEmpty
  <2>11. LoopsFit(v.loops) /\ Drags(v)
    BY <2>9 DEF Sound, Kept, Still, Drags, Settled
  <2>12. QED
    BY <2>3, <2>7, <2>8, <2>9, <2>10, <2>11 DEF Sound
<1>4. QED
  BY <1>2, <1>3

\* The chain with one menu more.
LEMMA ChainGrows ==
  ASSUME NEW q \in Seq(MenuRoot), IsInjective(q), NEW m \in MenuRoot, m \notin ToSet(q)
  PROVE  LET r == Append(q, m)
         IN  /\ r \in Seq(MenuRoot) /\ r # <<>> /\ Len(r) = Len(q) + 1 /\ IsInjective(r)
             /\ \A n : n \in ToSet(r) <=> n \in ToSet(q) \/ n = m
             /\ Head(r) = IF q = <<>> THEN m ELSE Head(q)
             /\ Last(r) = m
<1> DEFINE r == Append(q, m)
<1>1. Len(q) \in Nat /\ DOMAIN q = 1 .. Len(q)
  BY LenProperties
<1>2. /\ r \in Seq(MenuRoot) /\ r # <<>> /\ Len(r) = Len(q) + 1
      /\ \A i \in 1 .. Len(q) : r[i] = q[i]
      /\ r[Len(q) + 1] = m
  BY AppendProperties
<1>3. Head(r) = IF q = <<>> THEN m ELSE Head(q)
  BY HeadTailAppend
<1>4. Last(r) = m
  BY <1>2, FrontIs
<1>5. DOMAIN r = 1 .. Len(q) + 1
  BY <1>2, LenProperties
<1> HIDE DEF r
<1>6. \A i \in 1 .. Len(q) : q[i] # m
  BY <1>1 DEF ToSet
<1>7. IsInjective(r)
  <2>1. SUFFICES ASSUME NEW i \in 1 .. Len(q) + 1, NEW j \in 1 .. Len(q) + 1, r[i] = r[j]
                 PROVE  i = j
    BY <1>5 DEF IsInjective
  <2>2. CASE i \in 1 .. Len(q) /\ j \in 1 .. Len(q)
    BY <1>1, <1>2, <2>1, <2>2 DEF IsInjective
  <2>3. CASE i = Len(q) + 1 \/ j = Len(q) + 1
    BY <1>1, <1>2, <1>6, <2>1, <2>3
  <2>4. QED
    BY <1>1, <2>2, <2>3
<1>8. \A n : n \in ToSet(r) <=> n \in ToSet(q) \/ n = m
  <2>1. \A n : n \in ToSet(r) <=> \E i \in 1 .. Len(q) + 1 : n = r[i]
    BY <1>5 DEF ToSet
  <2>2. \A n : n \in ToSet(q) <=> \E i \in 1 .. Len(q) : n = q[i]
    BY <1>1 DEF ToSet
  <2>3. \A n : (\E i \in 1 .. Len(q) + 1 : n = r[i]) <=> (\E i \in 1 .. Len(q) : n = q[i]) \/ n = m
    BY <1>1, <1>2
  <2>4. QED
    BY <2>1, <2>2, <2>3
<1>9. QED
  BY <1>2, <1>3, <1>4, <1>7, <1>8 DEF r

\* A menu comes up.  A pinned one only begins a chain.
LEMMA PopsUp ==
  ASSUME NEW u, Sound(u), NEW m \in MenuRoot, Pinned(m) => u.active = <<>>, CanPopUp(u, m)
  PROVE  LET v == PopUpMenu(u, m)
         IN  /\ v \in UiType /\ Kept(u, v) /\ Chained(v) /\ v.item = u.item
             /\ v.active # <<>> /\ ActiveMenu(v) = m
             /\ Head(v.active) = IF u.active = <<>> THEN m ELSE Head(u.active)
             /\ u.item = 0 => Sound(v)
<1> DEFINE v == PopUpMenu(u, m)
           r == Append(u.active, m)
           mapped == [u.mapped EXCEPT ![m] = "mapped"]
           up == [u.up EXCEPT ![m] = TRUE]
           entered == [u.entered EXCEPT ![m] = Pinned(m)]
           pointer == ~Pinned(m) \/ u.pointer
           keyboard == ~Pinned(m) \/ u.keyboard
           x == [u EXCEPT !.active = r, !.depth = u.depth + 1, !.mapped = mapped, !.up = up,
                          !.entered = entered, !.pointer = pointer, !.keyboard = keyboard]
<1>1. /\ u \in UiType /\ Chained(u) /\ u.active \in Seq(MenuRoot) /\ IsInjective(u.active)
      /\ u.mapped \in [MenuRoot -> {"never", "unmapped", "mapped"}]
      /\ u.up \in [MenuRoot -> BOOLEAN] /\ u.entered \in [MenuRoot -> BOOLEAN]
      /\ u.pointer \in BOOLEAN /\ u.keyboard \in BOOLEAN /\ u.depth \in Nat
  BY DEF Sound, Chain, Chained, UiType
<1>2. m \notin ToSet(u.active)
  <2>1. CASE Pinned(m)
    <3>1. ToSet(u.active) = {}
      BY <2>1 DEF ToSet
    <3>2. QED
      BY <3>1
  <2>2. CASE ~Pinned(m)
    BY <1>1, <2>2 DEF CanPopUp, Pinned, Chained
  <2>3. QED
    BY <2>1, <2>2
<1>3. /\ r \in Seq(MenuRoot) /\ r # <<>> /\ Len(r) = Len(u.active) + 1 /\ IsInjective(r)
      /\ \A n : n \in ToSet(r) <=> n \in ToSet(u.active) \/ n = m
      /\ Head(r) = IF u.active = <<>> THEN m ELSE Head(u.active)
      /\ Last(r) = m
  BY <1>1, <1>2, ChainGrows
<1>4. v = x
  <2>1. v = PoppedUp(u, m)
    BY DEF PopUpMenu
  <2>2. CASE Pinned(m)
    <3>1. v = [u EXCEPT !.active = r, !.depth = u.depth + 1, !.mapped = mapped, !.up = up,
                        !.entered = entered]
      BY <1>1, <2>1, <2>2 DEF PoppedUp, UiType
    <3>2. pointer = u.pointer /\ keyboard = u.keyboard
      BY <1>1, <2>2
    <3> HIDE DEF v, r, mapped, up, entered, pointer, keyboard
    <3>3. QED
      BY <1>1, <3>1, <3>2 DEF UiType
  <2>3. CASE ~Pinned(m)
    <3>1. v = [u EXCEPT !.active = r, !.depth = u.depth + 1, !.mapped = mapped, !.up = up,
                        !.entered = entered, !.pointer = TRUE, !.keyboard = TRUE]
      <4>1. entered = [u.entered EXCEPT ![m] = FALSE]
        BY <2>3 DEF Pinned
      <4>2. v = [[u EXCEPT !.active = r, !.depth = u.depth + 1, !.mapped = mapped, !.up = up]
                   EXCEPT !.entered = [u.entered EXCEPT ![m] = FALSE], !.pointer = TRUE,
                          !.keyboard = TRUE]
        <5> HIDE DEF v, r, mapped, up, pointer, keyboard
        <5>1. [u EXCEPT !.active = r, !.depth = u.depth + 1, !.mapped = mapped, !.up = up].entered
                = u.entered
          BY <1>1 DEF UiType
        <5>2. QED
          BY <1>1, <2>1, <2>3, <5>1 DEF PoppedUp, r, mapped, up
      <4> HIDE DEF v, r, mapped, up, entered, pointer, keyboard
      <4>3. QED
        BY <4>1, <4>2
    <3>2. pointer = TRUE /\ keyboard = TRUE
      BY <2>3
    <3> HIDE DEF v, r, mapped, up, entered, pointer, keyboard
    <3>3. QED
      BY <3>1, <3>2
  <2>4. QED
    BY <2>2, <2>3
<1>5. /\ mapped \in [MenuRoot -> {"never", "unmapped", "mapped"}] /\ mapped[m] = "mapped"
      /\ up \in [MenuRoot -> BOOLEAN] /\ up[m] = TRUE
      /\ \A n \in MenuRoot : n # m => mapped[n] = u.mapped[n] /\ up[n] = u.up[n]
      /\ entered \in [MenuRoot -> BOOLEAN] /\ pointer \in BOOLEAN /\ keyboard \in BOOLEAN
  BY <1>1 DEF Pinned
<1> HIDE DEF v, r, mapped, up, entered, pointer, keyboard
<1>6. x \in UiType
  <2> DEFINE depth == u.depth + 1
  <2>1. depth \in Nat
    BY <1>1
  <2> HIDE DEF depth
  <2>2. [u EXCEPT !.active = r, !.depth = depth, !.mapped = mapped, !.up = up,
                  !.entered = entered, !.pointer = pointer, !.keyboard = keyboard] \in UiType
    BY ZenonT(60), <1>1, <1>3, <1>5, <2>1 DEF UiType
  <2>3. QED
    BY <2>2 DEF depth
<1>7. /\ Kept(u, x) /\ x.active = r /\ x.depth = u.depth + 1 /\ x.mapped = mapped
      /\ x.up = up /\ x.item = u.item
  BY <1>1 DEF Kept, Still, UiType
<1>8. Chained(x)
  <2>1. x.depth = Len(x.active) /\ IsInjective(x.active)
    BY <1>1, <1>3, <1>7 DEF Chained
  <2>2. \A n \in Menu : n \in MenuRoot
    BY DEF MenuRoot
  <2>3. \A n \in Menu : (n \in ToSet(r)) = (mapped[n] = "mapped")
    BY <1>1, <1>3, <1>5, <2>2 DEF Chained
  <2>4. \A n \in Menu : up[n] => n \in ToSet(r)
    BY <1>1, <1>3, <1>5, <2>2 DEF Chained
  <2>5. \A n \in MenuRoot \ Menu : up[n] = (mapped[n] = "mapped")
    BY <1>1, <1>5 DEF Chained
  <2>6. QED
    BY <1>7, <2>1, <2>3, <2>4, <2>5 DEF Chained
<1>9. u.item = 0 => Sound(x)
  BY <1>6, <1>7, <1>8 DEF Sound, Chain, Kept, Still, Drags, Settled
<1>10. ActiveMenu(x) = m
  BY <1>3, <1>7 DEF ActiveMenu
<1>11. QED
  BY <1>3, <1>4, <1>6, <1>7, <1>8, <1>9, <1>10 DEF v

From == {"press", "release", "key", "enter"}

\* There is an UpdateMenu if there is a loop that does not drag.
LEMMA InMenuIs ==
  ASSUME NEW u, LoopsFit(u.loops)
  PROVE  /\ u.loops = <<>> => ~InMenu(u)
         /\ u.loops # <<>> /\ ~Dragging(u.loops) => InMenu(u)
<1>1. DOMAIN u.loops = 1 .. Len(u.loops)
  BY LenProperties DEF LoopsFit
<1>2. u.loops = <<>> => ~InMenu(u)
  BY DEF InMenu
<1>3. u.loops # <<>> /\ ~Dragging(u.loops) => InMenu(u)
  <2>1. SUFFICES ASSUME u.loops # <<>>, ~Dragging(u.loops) PROVE InMenu(u)
    OBVIOUS
  <2>2. /\ Len(u.loops) \in 1 .. 2 /\ Last(u.loops) = u.loops[Len(u.loops)]
    BY <2>1, LoopsAre
  <2>3. Len(u.loops) \in DOMAIN u.loops /\ u.loops[Len(u.loops)].loop = "menu"
    BY <1>1, <2>1, <2>2 DEF Dragging
  <2>4. QED
    BY <2>3 DEF InMenu
<1>4. QED
  BY <1>2, <1>3

\* A new loop.
LEMMA MenuLoopIs ==
  ASSUME NEW from \in From
  PROVE  Loop("menu", None, FALSE, None, from) \in MenuLoop
<1>1. <<>> \in Seq(Func)
  BY EmptySeq
<1>2. QED
  BY <1>1 DEF Loop, LoopType, MenuLoop, From

LEMMA DragLoopIs ==
  ASSUME NEW loop \in {"move", "resize", "center"}, NEW w \in Window, NEW t \in BOOLEAN,
         NEW p \in Place, NEW from \in From
  PROVE  LET l == Loop(loop, w, t, p, from)
         IN  l \in DragLoop /\ l.loop = loop /\ l.win = w /\ l.orig = p
<1>1. <<>> \in Seq(Func)
  BY EmptySeq
<1>2. QED
  BY <1>1 DEF Loop, LoopType, DragLoop, From

\* UpdateMenu, for a menu that has come up.
LEMMA UpdatesMenu ==
  ASSUME NEW u, Sound(u), ~Dragging(u.loops), NEW from \in From,
         u.active # <<>> => /\ Knows(u.context, u.win)
                            /\ ~Pinned(Head(u.active)) => u.win \in u.managed \cup {None}
  PROVE  LET v == UpdateMenu(u, from)
         IN  Sound(v) /\ Asked(v) /\ v.at = u.at /\ ~Dragging(v.loops)
<1>1. u \in UiType /\ LoopsFit(u.loops)
  BY DEF Sound
<1>2. CASE InMenu(u)
  BY <1>2 DEF UpdateMenu, Asked
<1>3. CASE ~InMenu(u) /\ u.fromWin /\ from = "press"
  <2> DEFINE p == PopDownMenu(u)
             v == [p EXCEPT !.fromWin = FALSE]
  <2>1. Sound(p) /\ Asked(p) /\ Kept(u, p)
    BY PoppedDown
  <2> HIDE DEF p
  <2>2. v \in UiType /\ Kept(p, v) /\ MenusKept(p, v)
    <3>1. p \in UiType
      BY <2>1 DEF Sound
    <3>2. v \in UiType
      BY ZenonT(60), <3>1 DEF UiType
    <3>3. Kept(p, v) /\ MenusKept(p, v)
      BY <3>1 DEF UiType, Kept, Still, MenusKept
    <3>4. QED
      BY <3>2, <3>3
  <2> HIDE DEF v
  <2>3. Sound(v) /\ Asked(v)
    BY <2>1, <2>2, SoundKept
  <2>4. v.at = u.at /\ ~Dragging(v.loops)
    BY <2>1, <2>2 DEF Kept, Still
  <2>5. UpdateMenu(u, from) = v
    BY <1>3 DEF UpdateMenu, v, p
  <2>6. QED
    BY <2>3, <2>4, <2>5
<1>4. CASE ~InMenu(u) /\ ~(u.fromWin /\ from = "press")
  <2> DEFINE l == Loop("menu", None, FALSE, None, from)
             r == Append(u.loops, l)
             v == [u EXCEPT !.loops = r]
  <2>1. UpdateMenu(u, from) = v
    BY <1>4, <1>1 DEF UpdateMenu, UiType
  <2>2. l \in MenuLoop
    BY MenuLoopIs
  <2>3. u.loops = <<>>
    BY <1>1, <1>4, InMenuIs
  <2> HIDE DEF l
  <2>4. /\ LoopsFit(r) /\ (Dragging(r) <=> l \in DragLoop) /\ Len(r) = Len(u.loops) + 1
    BY <1>1, <2>2, <2>3, LoopBegins
  <2>5. ~Dragging(r) /\ r # <<>> /\ r \in Seq(LoopType)
    <3>1. l \notin DragLoop
      BY <2>2 DEF MenuLoop, DragLoop
    <3>2. r # <<>>
      BY <2>3, <2>4, EmptySeq
    <3>3. QED
      BY <2>4, <3>1, <3>2, LoopsAre
  <2> HIDE DEF r
  <2>6. v \in UiType
    BY ZenonT(60), <1>1, <2>5 DEF UiType
  <2>7. /\ MenusKept(u, v) /\ v.loops = r /\ v.drag = u.drag /\ v.resize = u.resize
        /\ v.size = u.size /\ v.context = u.context /\ v.win = u.win /\ v.at = u.at
        /\ v.managed = u.managed
    BY <1>1 DEF MenusKept, UiType
  <2> HIDE DEF v
  <2>8. Chain(v)
    BY <2>7 DEF Chain, Chained, Sound, MenusKept, ActiveMenu
  <2>9. Drags(v)
    BY <2>7 DEF Sound, Drags, Settled
  <2>10. InMenu(v)
    BY <2>4, <2>5, <2>7, InMenuIs
  <2>11. Asked(v)
    BY <2>5, <2>7, <2>10 DEF Asked, MenusKept
  <2>12. QED
    BY <2>1, <2>4, <2>5, <2>6, <2>7, <2>8, <2>9, <2>11 DEF Sound
<1>5. QED
  BY <1>2, <1>3, <1>4

\* do_menu and do_key_menu: the menu comes up, and UpdateMenu is called.
LEMMA MenuIsDone ==
  ASSUME NEW u, Sound(u), Asked(u), ~Dragging(u.loops), NEW m \in Menu, NEW from \in From,
         u.item = 0, Knows(u.context, u.win),
         u.active = <<>> => u.win \in u.managed \cup {None},
         u.active # <<>> => ~u.cancel
  PROVE  LET v == do_menu(u, m, from)
         IN  Sound(v) /\ Asked(v) /\ ~Dragging(v.loops)
<1> DEFINE server == u.server \/ (GrabServer /\ from = "press")
           s == [u EXCEPT !.server = server]
           p == PopUpMenu(s, m)
<1>1. u \in UiType /\ m \in MenuRoot /\ ~Pinned(m)
  BY DEF Sound, MenuRoot, Pinned
<1>2. server \in BOOLEAN
  BY <1>1, InteractionAssumption DEF UiType
<1> HIDE DEF server
<1>3. s \in UiType /\ Kept(u, s) /\ MenusKept(u, s)
  <2>1. s \in UiType
    BY ZenonT(60), <1>1, <1>2 DEF UiType
  <2>2. Kept(u, s) /\ MenusKept(u, s)
    BY <1>1 DEF UiType, Kept, Still, MenusKept
  <2>3. QED
    BY <2>1, <2>2
<1>4. do_menu(u, m, from) = IF CanPopUp(s, m) THEN UpdateMenu(p, from) ELSE s
  BY <1>1 DEF do_menu, server, UiType
<1> HIDE DEF s
<1>5. Sound(s) /\ Asked(s)
  BY <1>3, SoundKept
<1>6. CASE ~CanPopUp(s, m)
  BY <1>3, <1>4, <1>5, <1>6 DEF Kept, Still
<1>7. CASE CanPopUp(s, m)
  <2>1. s.item = 0
    BY <1>3 DEF MenusKept
  <2>2. /\ Sound(p) /\ Kept(s, p) /\ p.active # <<>>
        /\ Head(p.active) = IF s.active = <<>> THEN m ELSE Head(s.active)
    BY <1>1, <1>5, <1>7, <2>1, PopsUp
  <2> HIDE DEF p
  <2>3. /\ ~Dragging(p.loops) /\ p.context = u.context /\ p.win = u.win
        /\ p.managed = u.managed /\ InMenu(p) = InMenu(u) /\ s.active = u.active
    BY <1>3, <2>2 DEF Kept, Still, MenusKept, InMenu
  <2>4. ~Pinned(Head(p.active)) => p.win \in p.managed \cup {None}
    <3>1. CASE u.active = <<>>
      BY <2>3, <3>1
    <3>2. CASE u.active # <<>>
      BY <2>2, <2>3, <3>2 DEF Asked
    <3>3. QED
      BY <3>1, <3>2
  <2>5. /\ Sound(UpdateMenu(p, from)) /\ Asked(UpdateMenu(p, from))
        /\ ~Dragging(UpdateMenu(p, from).loops)
    BY <2>2, <2>3, <2>4, UpdatesMenu
  <2>6. QED
    BY <1>4, <1>7, <2>5
<1>8. QED
  BY <1>6, <1>7

\* f.pin.
LEMMA PinIs ==
  ASSUME NEW u, Sound(u), Asked(u)
  PROVE  LET v == PinFunction(u)
         IN  Sound(v) /\ Asked(v) /\ Kept(u, v)
<1> DEFINE m == ActiveMenu(u)
           p == PinnedOf[m]
<1>1. u \in UiType /\ u.up \in [MenuRoot -> BOOLEAN]
      /\ u.mapped \in [MenuRoot -> {"never", "unmapped", "mapped"}]
  BY DEF Sound, UiType
<1>2. Kept(u, u)
  BY DEF Kept, Still
<1>3. CASE m = None
  BY <1>2, <1>3 DEF PinFunction
<1>4. CASE m # None /\ Pinned(m)
  <2> DEFINE h == HideMenu(u, m)
  <2>1. m \in MenuRoot /\ m \notin Menu
    BY <1>1, <1>4, ActiveIs DEF Pinned
  <2>2. /\ h \in UiType /\ Kept(u, h)
        /\ h.active = u.active /\ h.depth = u.depth /\ h.item = u.item
        /\ \A n \in MenuRoot : h.up[n] <=> n \notin {m} /\ u.up[n]
        /\ \A n \in MenuRoot : h.mapped[n] = IF n \in {m} THEN "unmapped" ELSE u.mapped[n]
    BY <1>1, PutAwayIs DEF HideMenu
  <2>3. PinFunction(u) = PopDownMenu(h)
    BY <1>4 DEF PinFunction
  <2> HIDE DEF h, m
  <2>4. Chain(h)
    <3>1. /\ \A n \in Menu : n \in MenuRoot /\ n # m
          /\ h.up \in [MenuRoot -> BOOLEAN]
      BY <2>1, <2>2 DEF MenuRoot, UiType
    <3>2. /\ \A n \in Menu : h.mapped[n] = u.mapped[n] /\ h.up[n] = u.up[n]
          /\ \A n \in MenuRoot \ Menu : h.up[n] = (h.mapped[n] = "mapped")
      BY <1>1, <2>1, <2>2, <3>1 DEF Sound, Chain, Chained
    <3>3. QED
      BY <2>2, <3>2 DEF Sound, Chain, Chained, ActiveMenu
  <2>5. Sound(h)
    BY <2>2, <2>4 DEF Sound, Kept, Still, Drags, Settled
  <2>6. Sound(PopDownMenu(h)) /\ Asked(PopDownMenu(h)) /\ Kept(h, PopDownMenu(h))
    BY <2>5, PoppedDown
  <2>7. QED
    BY <2>2, <2>3, <2>6 DEF Kept, Still
<1>5. CASE m # None /\ ~Pinned(m) /\ u.mapped[p] = "mapped"
  BY <1>2, <1>5 DEF PinFunction
<1>6. CASE m # None /\ ~Pinned(m) /\ u.mapped[p] # "mapped"
  <2> DEFINE up == [u.up EXCEPT ![p] = TRUE]
             mapped == [u.mapped EXCEPT ![p] = "mapped"]
             h == [u EXCEPT !.up = up, !.mapped = mapped]
  <2>1. PinFunction(u) = PopDownMenu(h)
    BY <1>1, <1>6 DEF PinFunction, UiType
  <2>2. p \in MenuRoot \ Menu
    <3>1. m \in Menu
      BY <1>1, <1>6, ActiveIs DEF Pinned
    <3>2. QED
      BY <3>1, InteractionAssumption
  <2> HIDE DEF p, m
  <2>3. /\ up \in [MenuRoot -> BOOLEAN] /\ mapped \in [MenuRoot -> {"never", "unmapped", "mapped"}]
        /\ up[p] = TRUE /\ mapped[p] = "mapped"
        /\ \A n \in MenuRoot : n # p => up[n] = u.up[n] /\ mapped[n] = u.mapped[n]
    BY <1>1, <2>2
  <2> HIDE DEF up, mapped
  <2>4. h \in UiType
    BY ZenonT(60), <1>1, <2>3 DEF UiType
  <2>5. /\ Kept(u, h) /\ h.active = u.active /\ h.depth = u.depth /\ h.item = u.item
        /\ h.up = up /\ h.mapped = mapped
    BY <1>1 DEF Kept, Still, UiType
  <2> HIDE DEF h
  <2>6. Chain(h)
    <3>1. \A n \in Menu : n \in MenuRoot /\ n # p
      BY <2>2 DEF MenuRoot
    <3>2. /\ \A n \in Menu : h.mapped[n] = u.mapped[n] /\ h.up[n] = u.up[n]
          /\ \A n \in MenuRoot \ Menu : h.up[n] = (h.mapped[n] = "mapped")
      BY <2>2, <2>3, <2>5, <3>1 DEF Sound, Chain, Chained
    <3>3. QED
      BY <2>5, <3>2 DEF Sound, Chain, Chained, ActiveMenu
  <2>7. Sound(h)
    BY <2>4, <2>5, <2>6 DEF Sound, Kept, Still, Drags, Settled
  <2>8. Sound(PopDownMenu(h)) /\ Asked(PopDownMenu(h)) /\ Kept(h, PopDownMenu(h))
    BY <2>7, PoppedDown
  <2>9. QED
    BY <2>1, <2>5, <2>8 DEF Kept, Still
<1>7. QED
  BY <1>3, <1>4, <1>5, <1>6

(***************************************************************************)
(* Functions.                                                               *)
(***************************************************************************)

\* What a function makes of a state: it enters a loop, or no loop begins or ends,
\* and no window moves before its loop has read an event.
Done(u, v) ==
  /\ Sound(v) /\ Asked(v)
  /\ v.loops = u.loops \/ (Dragging(v.loops) /\ Len(v.loops) = Len(u.loops) + 1)
  /\ Still(u, v) /\ Fresh(v)

\* f.move and f.resize enter a loop, without a menu.
LEMMA LoopEntered ==
  ASSUME NEW u, Sound(u), u.active = <<>>, ~Dragging(u.loops),
         NEW d \in DragLoop, NEW v \in UiType, MenusKept(u, v), v.loops = Append(u.loops, d),
         v.drag # None => d.loop = "move" /\ v.drag = d.win,
         v.resize = IF d.loop = "resize" THEN d.win ELSE None,
         Still(u, v), d.loop = "move" => v.shown[d.win] = d.orig
  PROVE  Done(u, v)
<1> DEFINE r == Append(u.loops, d)
<1>1. d \notin MenuLoop /\ LoopsFit(u.loops)
  BY DEF MenuLoop, DragLoop, Sound
<1>2. LoopsFit(r) /\ Dragging(r) /\ Last(r) = d /\ Len(r) = Len(u.loops) + 1
  BY <1>1, LoopBegins
<1>3. Chain(v)
  BY DEF Chain, Chained, Sound, MenusKept, ActiveMenu
<1>4. Drags(v)
  BY <1>2 DEF Drags
<1>5. Asked(v)
  BY DEF Asked, MenusKept
<1>6. Fresh(v)
  BY <1>2 DEF Fresh
<1>7. QED
  BY <1>2, <1>3, <1>4, <1>5, <1>6 DEF Done, Sound

\* f.move.
LEMMA MoveIs ==
  ASSUME NEW u, Sound(u), ~Dragging(u.loops), NEW w \in Window, NEW ctx \in Context, NEW from \in From
  PROVE  Done(u, MoveFunction(u, w, ctx, from))
<1> DEFINE p == PopDownMenu(u)
           title == ctx = "title" /\ from = "press"
           d == Loop("move", w, title, u.shown[w], from)
           server == p.server \/ GrabServer \/ ~OpaqueMove
           drag == IF ~OpaqueMove /\ ~HasMoveDelta THEN w ELSE None
           at == IF p.fromWin THEN w ELSE p.at
           r == Append(p.loops, d)
           v == [p EXCEPT !.quiet = TRUE, !.size = TRUE, !.pointer = TRUE, !.server = server,
                          !.drag = drag, !.at = at, !.loops = r]
<1>1. Sound(p) /\ Kept(u, p) /\ p.active = <<>> /\ p \in UiType /\ u \in UiType
  BY PoppedDown DEF Sound
<1>2. MoveFunction(u, w, ctx, from) = v
  <2> HIDE DEF p
  <2>1. QED
    BY <1>1 DEF MoveFunction, UiType, p
<1>3. d \in DragLoop /\ d.loop = "move" /\ d.win = w /\ d.orig = u.shown[w]
  <2>1. u.shown[w] \in Place /\ title \in BOOLEAN
    BY <1>1 DEF UiType
  <2> HIDE DEF title
  <2>2. QED
    BY <2>1, DragLoopIs
<1> HIDE DEF p, d
<1>4. p.loops = u.loops /\ ~Dragging(p.loops) /\ LoopsFit(p.loops)
  BY <1>1 DEF Kept, Still, Sound
<1>5. r \in Seq(LoopType)
  <2>1. d \notin MenuLoop
    BY <1>3 DEF MenuLoop, DragLoop
  <2>2. QED
    BY <1>3, <1>4, <2>1, LoopBegins
<1>6. server \in BOOLEAN /\ drag \in Window \cup {None} /\ at \in MenuRoot \cup Window \cup {"root"}
  BY <1>1, InteractionAssumption DEF UiType
<1>7. drag # None => drag = w
  OBVIOUS
<1> HIDE DEF server, drag, at, r
<1>8. v \in UiType
  BY ZenonT(60), <1>1, <1>5, <1>6 DEF UiType
<1>9. MenusKept(p, v) /\ v.loops = r /\ v.drag = drag /\ v.resize = p.resize /\ Still(p, v)
  BY <1>1 DEF MenusKept, UiType, Still
<1>10. p.resize = None
  BY <1>1, <1>4 DEF Sound, Drags, Settled
<1>13. v.shown[d.win] = d.orig
  BY <1>1, <1>3, <1>9 DEF Kept, Still
<1> HIDE DEF v
<1>11. Done(p, v)
  BY <1>1, <1>3, <1>4, <1>7, <1>8, <1>9, <1>10, <1>13, LoopEntered DEF r
<1>12. QED
  BY <1>1, <1>2, <1>4, <1>11 DEF Done, Kept, Still, v

\* f.resize.
LEMMA ResizeIs ==
  ASSUME NEW u, Sound(u), ~Dragging(u.loops), NEW w \in Window, NEW ctx \in Context, NEW from \in From
  PROVE  Done(u, ResizeFunction(u, w, ctx, from))
<1> DEFINE p == PopDownMenu(u)
           center == InMenu(u) /\ u.context \in {"window", "title", "root"}
           title == ctx = "title" /\ from = "press"
           d == Loop(IF center THEN "center" ELSE "resize", w, title, u.shown[w], from)
           server == p.server \/ ~OpaqueResize
           r == Append(p.loops, d)
           s == [p EXCEPT !.quiet = TRUE, !.size = TRUE, !.pointer = TRUE, !.server = server,
                          !.loops = r]
           at == IF center THEN w ELSE p.at
           resize == IF center THEN p.resize ELSE w
           reset == center /\ p.reset
           v == [s EXCEPT !.at = at, !.resize = resize, !.reset = reset]
<1>1. Sound(p) /\ Kept(u, p) /\ p.active = <<>> /\ p \in UiType /\ u \in UiType
  BY PoppedDown DEF Sound
<1>2. ResizeFunction(u, w, ctx, from) = v
  <2>1. ResizeFunction(u, w, ctx, from)
          = IF center THEN [s EXCEPT !.at = w] ELSE [s EXCEPT !.resize = w, !.reset = FALSE]
    <3> HIDE DEF p
    <3>1. QED
      BY <1>1 DEF ResizeFunction, UiType, p
  <2> HIDE DEF p, d, r, server
  <2>2. CASE center
    <3>1. at = w /\ resize = p.resize /\ reset = p.reset
      BY <1>1, <2>2 DEF UiType
    <3>2. [s EXCEPT !.at = w] = [s EXCEPT !.at = w, !.resize = p.resize, !.reset = p.reset]
      BY <1>1 DEF UiType
    <3> HIDE DEF center, at, resize, reset, s
    <3>3. QED
      BY <2>1, <2>2, <3>1, <3>2
  <2>3. CASE ~center
    <3>1. at = p.at /\ resize = w /\ reset = FALSE
      BY <2>3
    <3>2. [s EXCEPT !.resize = w, !.reset = FALSE]
            = [s EXCEPT !.at = p.at, !.resize = w, !.reset = FALSE]
      BY <1>1 DEF UiType
    <3> HIDE DEF center, at, resize, reset, s
    <3>3. QED
      BY <2>1, <2>3, <3>1, <3>2
  <2>4. QED
    BY <2>2, <2>3
<1>3. d \in DragLoop /\ d.win = w /\ d.loop = IF center THEN "center" ELSE "resize"
  <2>1. u.shown[w] \in Place /\ title \in BOOLEAN
    BY <1>1 DEF UiType
  <2> DEFINE loop == IF center THEN "center" ELSE "resize"
  <2>2. loop \in {"move", "resize", "center"} /\ (~center => loop = "resize")
    OBVIOUS
  <2> HIDE DEF title, loop
  <2>3. LET l == Loop(loop, w, title, u.shown[w], from)
        IN  l \in DragLoop /\ l.loop = loop /\ l.win = w
    BY <2>1, <2>2, DragLoopIs
  <2>4. QED
    BY <2>2, <2>3 DEF loop
<1> HIDE DEF p, d
<1>4. p.loops = u.loops /\ ~Dragging(p.loops) /\ LoopsFit(p.loops)
  BY <1>1 DEF Kept, Still, Sound
<1>5. r \in Seq(LoopType)
  <2>1. d \notin MenuLoop
    BY <1>3 DEF MenuLoop, DragLoop
  <2>2. QED
    BY <1>3, <1>4, <2>1, LoopBegins
<1>6. p.drag = None /\ p.resize = None
  BY <1>1, <1>4 DEF Sound, Drags, Settled
<1>7. /\ server \in BOOLEAN /\ at \in MenuRoot \cup Window \cup {"root"}
      /\ resize \in Window \cup {None} /\ reset \in BOOLEAN
  BY <1>1, <1>6, InteractionAssumption DEF UiType
<1>13. resize = IF d.loop = "resize" THEN d.win ELSE None
  BY <1>3, <1>6
<1> HIDE DEF server, resize, at, r, reset, center
<1>8. s \in UiType
  BY ZenonT(60), <1>1, <1>5, <1>7 DEF UiType
<1>9. MenusKept(p, v) /\ v.loops = r /\ v.drag = p.drag /\ v.resize = resize /\ Still(p, v)
  BY <1>1 DEF MenusKept, UiType, Still
<1> HIDE DEF s
<1>10. v \in UiType
  BY ZenonT(60), <1>7, <1>8 DEF UiType
<1> HIDE DEF v
<1>14. d.loop # "move"
  BY <1>3
<1>11. Done(p, v)
  BY <1>1, <1>3, <1>4, <1>6, <1>9, <1>10, <1>13, <1>14, LoopEntered DEF r
<1>12. QED
  BY <1>1, <1>2, <1>4, <1>11 DEF Done, Kept, Still, v

\* What changes neither menus nor loops.
LEMMA DoneKept ==
  ASSUME NEW u, NEW v, Done(u, v), NEW x \in UiType, Kept(v, x), MenusKept(v, x)
  PROVE  Done(u, x)
<1>1. Sound(x) /\ Asked(x) /\ x.loops = v.loops /\ Still(v, x)
  BY SoundKept DEF Done, Kept, Still
<1>2. Fresh(x) /\ Still(u, x)
  BY <1>1 DEF Done, Fresh, Still
<1>3. QED
  BY <1>1, <1>2 DEF Done

LEMMA NothingDone ==
  ASSUME NEW u, Sound(u), Asked(u), ~Dragging(u.loops), NEW x \in UiType, Kept(u, x), MenusKept(u, x)
  PROVE  Done(u, x)
<1>1. Done(u, u)
  BY DEF Done, Still, Fresh
<1>2. QED
  BY <1>1, DoneKept

\* The table of functions.
LEMMA Dispatched ==
  ASSUME NEW u, Sound(u), Asked(u), ~Dragging(u.loops), NEW f, NEW w \in Window \cup {None},
         f \in {"move", "resize"} => w \in Window, NEW ctx \in Context, NEW from \in From
  PROVE  Done(u, Dispatch(u, f, w, ctx, from))
<1>1. u \in UiType
  BY DEF Sound
<1>2. CASE f = "pin"
  <2>1. LET v == PinFunction(u)
        IN  Sound(v) /\ Asked(v) /\ v.loops = u.loops /\ Still(u, v)
    BY PinIs DEF Kept, Still
  <2>2. QED
    BY <1>2, <2>1 DEF Dispatch, Done, Fresh
<1>3. CASE f = "move"
  BY <1>3, MoveIs DEF Dispatch
<1>4. CASE f = "resize"
  BY <1>4, ResizeIs DEF Dispatch
<1>5. CASE f = "delete"
  <2> DEFINE v == [u EXCEPT !.gone = u.gone \cup {w}]
  <2>1. CASE w = None
    BY <1>1, <1>5, <2>1, NothingDone DEF Dispatch, Kept, Still, MenusKept
  <2>2. CASE w # None
    <3>1. u.gone \cup {w} \in SUBSET Window
      BY <1>1, <2>2 DEF UiType
    <3>2. v \in UiType
      BY ZenonT(60), <1>1, <3>1 DEF UiType
    <3>3. Kept(u, v) /\ MenusKept(u, v)
      BY <1>1 DEF UiType, Kept, Still, MenusKept
    <3>4. Dispatch(u, f, w, ctx, from) = v
      BY <1>1, <1>5, <2>2 DEF Dispatch, UiType
    <3> HIDE DEF v
    <3>5. QED
      BY <3>2, <3>3, <3>4, NothingDone
  <2>3. QED
    BY <2>1, <2>2
<1>6. CASE f = "exec"
  <2> DEFINE p == PopDownMenu(u)
             server == p.server /\ ~GrabServer
             v == [p EXCEPT !.server = server, !.pointer = FALSE]
  <2>1. Sound(p) /\ Asked(p) /\ Kept(u, p) /\ p \in UiType
    BY PoppedDown DEF Sound
  <2>2. Done(u, p)
    BY <2>1 DEF Done, Kept, Still, Fresh
  <2>3. Dispatch(u, f, w, ctx, from) = v
    <3> HIDE DEF p
    <3>1. QED
      BY <1>6, <2>1 DEF Dispatch, UiType, p
  <2>4. server \in BOOLEAN
    BY <2>1, InteractionAssumption DEF UiType
  <2> HIDE DEF p, server
  <2>5. v \in UiType
    BY ZenonT(60), <2>1, <2>4 DEF UiType
  <2>6. Kept(p, v) /\ MenusKept(p, v)
    BY <2>1 DEF UiType, Kept, Still, MenusKept
  <2> HIDE DEF v
  <2>7. QED
    BY <2>2, <2>3, <2>5, <2>6, DoneKept
<1>7. CASE f = "identify"
  <2> DEFINE v == [u EXCEPT !.info = TRUE]
  <2>1. v \in UiType
    BY ZenonT(60), <1>1 DEF UiType
  <2>2. Kept(u, v) /\ MenusKept(u, v)
    BY <1>1 DEF UiType, Kept, Still, MenusKept
  <2>3. Dispatch(u, f, w, ctx, from) = v
    BY <1>7 DEF Dispatch
  <2>4. QED
    BY <2>1, <2>2, <2>3, NothingDone
<1>8. CASE f = "altkeymap"
  <2> DEFINE v == [u EXCEPT !.altkey = TRUE, !.pointer = TRUE, !.keyboard = TRUE, !.reset = FALSE]
  <2>1. v \in UiType
    BY ZenonT(60), <1>1 DEF UiType
  <2>2. Kept(u, v) /\ MenusKept(u, v)
    BY <1>1 DEF UiType, Kept, Still, MenusKept
  <2>3. Dispatch(u, f, w, ctx, from) = v
    BY <1>8 DEF Dispatch
  <2>4. QED
    BY <2>1, <2>2, <2>3, NothingDone
<1>9. CASE f = "altcontext"
  <2> DEFINE v == [u EXCEPT !.altctx = TRUE, !.pointer = TRUE, !.keyboard = TRUE, !.reset = FALSE]
  <2>1. v \in UiType
    BY ZenonT(60), <1>1 DEF UiType
  <2>2. Kept(u, v) /\ MenusKept(u, v)
    BY <1>1 DEF UiType, Kept, Still, MenusKept
  <2>3. Dispatch(u, f, w, ctx, from) = v
    BY <1>9 DEF Dispatch
  <2>4. QED
    BY <2>1, <2>2, <2>3, NothingDone
<1>10. CASE f \notin {"pin", "move", "resize", "delete", "exec", "identify", "altkeymap", "altcontext"}
  <2>1. Dispatch(u, f, w, ctx, from) = u
    BY <1>10 DEF Dispatch
  <2>2. QED
    BY <2>1 DEF Done, Still, Fresh
<1>11. QED
  BY <1>2, <1>3, <1>4, <1>5, <1>6, <1>7, <1>8, <1>9, <1>10

\* The pointer is let go.
LEMMA FinishedIs ==
  ASSUME NEW u \in UiType
  PROVE  LET v == Finished(u)
         IN  v \in UiType /\ Kept(u, v) /\ MenusKept(u, v)
<1> DEFINE x == [u EXCEPT !.pointer = FALSE, !.reset = FALSE]
<1>1. x \in UiType
  BY ZenonT(60) DEF UiType
<1>2. Kept(u, x) /\ MenusKept(u, x)
  BY DEF UiType, Kept, Still, MenusKept
<1>3. Kept(u, u) /\ MenusKept(u, u)
  BY DEF Kept, Still, MenusKept
<1>4. QED
  BY <1>1, <1>2, <1>3 DEF Finished

\* A function that is not a list of others is executed.
LEMMA Executed ==
  ASSUME NEW u, Sound(u), Asked(u), ~Dragging(u.loops), NEW f \in Func,
         NEW w \in Window \cup {None}, NEW ctx \in Context, Knows(ctx, w), NEW from \in From
  PROVE  Done(u, Execute(u, f, w, ctx, from))
<1> DEFINE s == [u EXCEPT !.rootFn = None]
           d == [s EXCEPT !.pointer = TRUE, !.rootFn = f]
           pointer == s.pointer \/ Waits(f)
           reset == Waits(f)
           g == [s EXCEPT !.pointer = pointer, !.reset = reset]
           r == Dispatch(g, f, w, ctx, from)
<1>1. u \in UiType
  BY DEF Sound
<1>2. s \in UiType /\ Kept(u, s) /\ MenusKept(u, s)
  <2>1. s \in UiType
    BY ZenonT(60), <1>1 DEF UiType
  <2>2. Kept(u, s) /\ MenusKept(u, s)
    BY <1>1 DEF UiType, Kept, Still, MenusKept
  <2>3. QED
    BY <2>1, <2>2
<1>3. Execute(u, f, w, ctx, from)
        = IF u.cancel \/ f \in {"nop", "title"} THEN s
          ELSE IF should_defer(f) /\ ctx \in {"root", "alternate"} THEN d
          ELSE FinishedUnlessLooping(u, r)
  <2> HIDE DEF s
  <2>1. g = [s EXCEPT !.pointer = @ \/ Waits(f), !.reset = Waits(f)]
    BY <1>2 DEF UiType
  <2>2. QED
    BY <2>1 DEF Execute, DeferExecution, s
<1> HIDE DEF s
<1>4. CASE u.cancel \/ f \in {"nop", "title"}
  <2>1. Done(u, s)
    BY <1>2, NothingDone
  <2>2. QED
    BY <1>3, <1>4, <2>1
<1>5. CASE ~(u.cancel \/ f \in {"nop", "title"}) /\ should_defer(f) /\ ctx \in {"root", "alternate"}
  <2>1. d \in UiType
    BY ZenonT(60), <1>2 DEF UiType
  <2>2. Kept(s, d) /\ MenusKept(s, d)
    BY <1>2 DEF UiType, Kept, Still, MenusKept
  <2>3. Done(u, d)
    <3> HIDE DEF d
    <3>1. QED
      BY <1>2, <2>1, <2>2, NothingDone, DoneKept
  <2>4. QED
    BY <1>3, <1>5, <2>3
<1>6. CASE ~(u.cancel \/ f \in {"nop", "title"}) /\ ~(should_defer(f) /\ ctx \in {"root", "alternate"})
  <2>1. pointer \in BOOLEAN /\ reset \in BOOLEAN
    BY <1>2 DEF UiType, Waits
  <2> HIDE DEF pointer, reset
  <2>2. g \in UiType
    BY ZenonT(60), <1>2, <2>1 DEF UiType
  <2>3. Kept(s, g) /\ MenusKept(s, g)
    BY <1>2 DEF UiType, Kept, Still, MenusKept
  <2> HIDE DEF g
  <2>4. Sound(g) /\ Asked(g) /\ g.loops = u.loops /\ Still(u, g)
    <3>1. Sound(s) /\ Asked(s) /\ s.loops = u.loops /\ Still(u, s)
      BY <1>2, SoundKept DEF Kept, Still
    <3>2. QED
      BY <2>2, <2>3, <3>1, SoundKept DEF Kept, Still
  <2>5. f \in {"move", "resize"} => w \in Window
    BY <1>6 DEF should_defer, Knows
  <2>6. Done(g, r)
    BY <2>4, <2>5, Dispatched
  <2> HIDE DEF r
  <2>7. Done(u, r)
    BY <2>4, <2>6 DEF Done, Still
  <2>8. Done(u, FinishedUnlessLooping(u, r))
    <3>1. Done(u, Finished(r))
      <4>1. r \in UiType
        BY <2>7 DEF Done, Sound
      <4>2. QED
        BY <2>7, <4>1, FinishedIs, DoneKept
    <3>2. QED
      BY <2>7, <3>1 DEF FinishedUnlessLooping
  <2>9. QED
    BY <1>3, <1>6, <2>8
<1>7. QED
  BY <1>4, <1>5, <1>6

\* What a list of functions has come to: the state, and whether it stops.
Outcomes(u) == [s : {v \in UiType : Done(u, v)}, stop : BOOLEAN]

\* What is left of a list waits for the loop to end.
LEMMA RestWaits ==
  ASSUME NEW u, NEW v, Done(u, v), Dragging(v.loops), NEW f \in Func,
         Len(v.loops) = Len(u.loops) + 1
  PROVE  LET d == [Last(v.loops) EXCEPT !.rest = Append(@, f)]
             x == [v EXCEPT !.loops = [v.loops EXCEPT ![Len(v.loops)] = d]]
         IN  x \in UiType /\ Done(u, x)
<1> DEFINE l == Last(v.loops)
           d == [l EXCEPT !.rest = Append(@, f)]
           r == [v.loops EXCEPT ![Len(v.loops)] = d]
           x == [v EXCEPT !.loops = r]
<1>1. Sound(v) /\ Asked(v) /\ v \in UiType /\ LoopsFit(v.loops) /\ v.loops # <<>>
  BY DEF Done, Sound, Dragging
<1>2. l \in DragLoop
  BY <1>1, LoopsAre
<1>3. d \in DragLoop /\ d.loop = l.loop /\ d.win = l.win /\ d.orig = l.orig
  <2> HIDE DEF l
  <2>1. l \in LoopType
    BY <1>2 DEF DragLoop
  <2>2. Append(l.rest, f) \in Seq(Func)
    BY <2>1 DEF LoopType
  <2>3. d \in LoopType
    BY <2>1, <2>2 DEF LoopType
  <2>4. d.loop = l.loop /\ d.win = l.win /\ d.orig = l.orig /\ d.now = l.now
    BY <2>1 DEF LoopType
  <2>5. QED
    BY <1>2, <2>3, <2>4 DEF DragLoop
<1> HIDE DEF d
<1>4. LoopsFit(r) /\ Dragging(r) /\ Last(r) = d /\ Len(r) = Len(v.loops)
  BY <1>1, <1>3, DragChanges
<1>5. r \in Seq(LoopType)
  BY <1>4, LoopsAre DEF Dragging
<1> HIDE DEF r
<1>6. x \in UiType
  BY ZenonT(60), <1>1, <1>5 DEF UiType
<1>7. MenusKept(v, x) /\ x.loops = r /\ x.drag = v.drag /\ x.resize = v.resize /\ x.size = v.size
      /\ Still(v, x)
  BY <1>1 DEF MenusKept, UiType, Still
<1> HIDE DEF x
<1>8. Chain(x)
  BY <1>1, <1>7 DEF Chain, Chained, Sound, MenusKept, ActiveMenu
<1>9. Drags(x)
  <2>1. x.drag # None => l.loop = "move" /\ x.drag = l.win
    BY <1>1, <1>7 DEF Sound, Drags, Settled
  <2>2. CASE Settled(v)
    BY <1>1, <1>7, <2>2 DEF Sound, Drags, Settled
  <2>3. CASE ~Settled(v)
    <3>1. x.resize = IF l.loop = "resize" THEN l.win ELSE None
      BY <1>1, <1>7, <2>3 DEF Sound, Drags
    <3>2. QED
      BY <1>3, <1>4, <1>7, <2>1, <3>1 DEF Drags
  <2>4. QED
    BY <2>2, <2>3
<1>10. Asked(x)
  BY <1>1, <1>7 DEF Asked, MenusKept
<1>13. Fresh(x) /\ Still(u, x)
  BY <1>3, <1>4, <1>7 DEF Fresh, Still, Done
<1>11. Done(u, x)
  BY <1>4, <1>6, <1>7, <1>8, <1>9, <1>10, <1>13 DEF Done, Sound
<1>12. QED
  BY <1>6, <1>11 DEF x, r, d

\* One function of a list.
LEMMA ItemExecuted ==
  ASSUME NEW u, LoopsFit(u.loops), ~Dragging(u.loops), NEW a \in Outcomes(u), NEW f \in Func,
         NEW w \in Window \cup {None}, NEW ctx \in Context, Knows(ctx, w), NEW from \in From
  PROVE  ExecuteItem(u, a, f, w, ctx, from) \in Outcomes(u)
<1> DEFINE v == a.s
           top == Len(v.loops)
           n == Len(u.loops)
<1>1. /\ v \in UiType /\ Done(u, v) /\ a.stop \in BOOLEAN
      /\ \A x \in UiType : Done(u, x) => [a EXCEPT !.s = x] \in Outcomes(u)
      /\ [a EXCEPT !.stop = TRUE] \in Outcomes(u)
  BY DEF Outcomes
<1>2. n \in Nat
  BY LenProperties DEF LoopsFit
<1>3. CASE a.stop
  BY <1>3 DEF ExecuteItem
<1>4. CASE ~a.stop /\ top > n
  <2> DEFINE d == [Last(v.loops) EXCEPT !.rest = Append(@, f)]
             x == [v EXCEPT !.loops = [v.loops EXCEPT ![top] = d]]
  <2>1. Dragging(v.loops) /\ top = n + 1
    BY <1>1, <1>2, <1>4 DEF Done
  <2>2. x \in UiType /\ Done(u, x)
    BY <1>1, <2>1, RestWaits
  <2>3. [a EXCEPT !.s.loops[top].rest = Append(@, f)] = [a EXCEPT !.s = x]
    <3>1. v.loops[top] = Last(v.loops)
      BY DEF Last
    <3>2. [a EXCEPT !.s.loops[top].rest = Append(@, f)]
            = [a EXCEPT !.s = [v EXCEPT !.loops = [v.loops EXCEPT ![top] =
                                [v.loops[top] EXCEPT !.rest = Append(@, f)]]]]
      OBVIOUS
    <3>3. QED
      BY <3>1, <3>2
  <2> HIDE DEF x
  <2>4. [a EXCEPT !.s = x] \in Outcomes(u)
    BY <1>1, <2>2
  <2>5. QED
    BY <1>4, <2>3, <2>4 DEF ExecuteItem
<1>5. CASE ~a.stop /\ ~(top > n) /\ f = "deltastop" /\ v.moved
  BY <1>1, <1>5 DEF ExecuteItem
<1>6. CASE ~a.stop /\ ~(top > n) /\ ~(f = "deltastop" /\ v.moved)
  <2> DEFINE x == Execute(v, f, w, ctx, from)
  <2>1. v.loops = u.loops
    BY <1>1, <1>2, <1>6 DEF Done
  <2>2. Done(v, x)
    BY <1>1, <2>1, Executed DEF Done
  <2>3. x \in UiType /\ Done(u, x)
    BY <1>1, <2>1, <2>2 DEF Done, Sound, Still
  <2>4. ExecuteItem(u, a, f, w, ctx, from) = [a EXCEPT !.s = x]
    BY <1>6 DEF ExecuteItem
  <2> HIDE DEF x
  <2>5. QED
    BY <1>1, <2>3, <2>4
<1>7. QED
  BY <1>3, <1>4, <1>5, <1>6

\* g holds what the first functions of a list have come to, for each number of them.
Upto(g, u, fs, w, ctx, from) ==
  g = [n \in 0 .. Len(fs) |->
         IF n = 0 THEN [s |-> u, stop |-> FALSE]
         ELSE ExecuteItem(u, g[n - 1], fs[n], w, ctx, from)]

\* A list of functions.
LEMMA ItemsExecuted ==
  ASSUME NEW u, Sound(u), Asked(u), ~Dragging(u.loops), NEW fs \in Seq(Func),
         NEW w \in Window \cup {None}, NEW ctx \in Context, Knows(ctx, w), NEW from \in From
  PROVE  Done(u, ExecuteItems(u, fs, w, ctx, from))
<1> DEFINE N == Len(fs)
           A == Outcomes(u)
           first == [s |-> u, stop |-> FALSE]
           Step(a, n) == ExecuteItem(u, a, fs[n], w, ctx, from)
           h == [p \in A \X (1 .. N) |-> Step(p[1], p[2])]
           U(g) == Upto(g, u, fs, w, ctx, from)
           V(g, n) == IF n = 0 THEN first ELSE Step(g[n - 1], n)
<1>1. N \in Nat /\ \A n \in 1 .. N : fs[n] \in Func
  BY LenProperties, ElementOfSeq
<1>2. first \in A /\ u \in UiType /\ LoopsFit(u.loops)
  BY DEF Outcomes, Done, Sound, Still, Fresh
<1>3. \A a \in A, n \in 1 .. N : Step(a, n) \in A
  <2> HIDE DEF A, N
  <2>1. TAKE a \in A, n \in 1 .. N
  <2>2. QED
    BY <1>1, <1>2, ItemExecuted DEF A
<1> HIDE DEF N, A, first, Step
<1>4. \A g : U(g) <=> g = [n \in 0 .. N |-> V(g, n)]
  BY DEF Upto, N, first, Step
<1>5. \E g : U(g)
  <2>1. h \in [A \X (1 .. N) -> A]
    BY <1>3
  <2> HIDE DEF h
  <2>2. PICK g : Recursion(g, N, A, first, h)
    BY <1>1, <1>2, <2>1, RecursionExists
  <2>3. g \in [0 .. N -> A] /\ g[0] = first /\ \A n \in 1 .. N : g[n] = h[<<g[n - 1], n>>]
    BY <2>2 DEF Recursion
  <2>4. \A n \in 1 .. N : g[n] = Step(g[n - 1], n)
    <3>1. TAKE n \in 1 .. N
    <3>2. n - 1 \in 0 .. N
      BY <1>1
    <3>3. <<g[n - 1], n>> \in A \X (1 .. N)
      BY <2>3, <3>2
    <3>4. h[<<g[n - 1], n>>] = Step(g[n - 1], n)
      BY <3>3 DEF h
    <3>5. QED
      BY <2>3, <3>4
  <2>5. \A n \in 0 .. N : g[n] = V(g, n)
    <3>1. \A n \in 0 .. N : n = 0 \/ n \in 1 .. N
      BY <1>1
    <3>2. QED
      BY <2>3, <2>4, <3>1
  <2> HIDE DEF V
  <2>6. g = [n \in 0 .. N |-> V(g, n)]
    BY <2>3, <2>5
  <2>7. QED
    BY <1>4, <2>6
<1> DEFINE g == CHOOSE x : U(x)
<1>6. U(g)
  BY <1>5
<1>7. ExecuteItems(u, fs, w, ctx, from) = g[N].s
  BY DEF ExecuteItems, Upto, N
<1> HIDE DEF g, U
<1>8. \A n \in 0 .. N : g[n] = V(g, n)
  <2>1. g = [n \in 0 .. N |-> V(g, n)]
    BY <1>4, <1>6
  <2> HIDE DEF V
  <2>2. QED
    BY <2>1
<1>9. \A n \in 0 .. N : g[n] \in A
  <2> DEFINE T == {n \in 0 .. N : g[n] \notin A}
  <2>1. SUFFICES ASSUME T # {} PROVE FALSE
    OBVIOUS
  <2>2. PICK m \in T : \A k \in T : m <= k
    <3>1. T \in SUBSET Nat
      OBVIOUS
    <3>2. QED
      BY <2>1, <3>1, LeastNat
  <2>3. m # 0
    BY <1>2, <1>8, <2>2
  <2>4. m \in 1 .. N /\ m - 1 \in 0 .. N /\ m - 1 \notin T
    BY <1>1, <2>2, <2>3
  <2>5. g[m - 1] \in A
    BY <2>4
  <2>6. g[m] = Step(g[m - 1], m)
    BY <1>8, <2>2, <2>3
  <2>7. QED
    BY <1>3, <2>2, <2>4, <2>5, <2>6
<1>10. g[N] \in A
  BY <1>1, <1>9
<1>11. QED
  BY <1>7, <1>10 DEF A, Outcomes

\* A function, and one that is a list of others.
LEMMA FunctionExecuted ==
  ASSUME NEW u, Sound(u), Asked(u), ~Dragging(u.loops), NEW f \in Func,
         NEW w \in Window \cup {None}, NEW ctx \in Context, Knows(ctx, w), NEW from \in From
  PROVE  Done(u, ExecuteFunction(u, f, w, ctx, from))
<1> DEFINE s == [u EXCEPT !.rootFn = None, !.pointer = TRUE, !.reset = TRUE]
           c == [u EXCEPT !.rootFn = None]
           d == [s EXCEPT !.pointer = TRUE, !.rootFn = f]
           r == ExecuteItems(s, FunctionItems, w, ctx, from)
           defers == \E i \in DOMAIN FunctionItems : should_defer(FunctionItems[i])
<1>1. u \in UiType
  BY DEF Sound
<1>2. s \in UiType /\ c \in UiType
  <2>1. s \in UiType
    BY ZenonT(60), <1>1 DEF UiType
  <2>2. c \in UiType
    BY <1>1 DEF UiType
  <2>3. QED
    BY <2>1, <2>2
<1>3. Kept(u, s) /\ MenusKept(u, s)
  BY <1>1 DEF UiType, Kept, Still, MenusKept
<1>4. Kept(u, c) /\ MenusKept(u, c)
  BY <1>1 DEF UiType, Kept, Still, MenusKept
<1>5. ExecuteFunction(u, f, w, ctx, from)
        = IF f # "function" THEN Execute(u, f, w, ctx, from)
          ELSE IF u.cancel THEN c
          ELSE IF defers /\ ctx \in {"root", "alternate"} THEN d
          ELSE FinishedUnlessLooping(u, r)
  BY DEF ExecuteFunction, DeferExecution
<1> HIDE DEF s, c, defers
<1>6. Done(u, c)
  BY <1>2, <1>4, NothingDone
<1>7. Sound(s) /\ Asked(s) /\ s.loops = u.loops /\ Still(u, s)
  BY <1>2, <1>3, SoundKept DEF Kept, Still
<1>8. Done(u, d)
  <2>1. d \in UiType
    BY ZenonT(60), <1>2 DEF UiType
  <2>2. Kept(s, d) /\ MenusKept(s, d)
    BY <1>2 DEF UiType, Kept, Still, MenusKept
  <2> HIDE DEF d
  <2>3. Done(s, d)
    BY <1>7, <2>1, <2>2, NothingDone
  <2>4. QED
    BY <1>7, <2>3 DEF Done, Still
<1>9. Done(u, FinishedUnlessLooping(u, r))
  <2>1. FunctionItems \in Seq(Func)
    <3>1. Func \ {"function", "menu", "pin"} \subseteq Func
      OBVIOUS
    <3>2. QED
      BY <3>1, InteractionAssumption, SeqMonotonic
  <2>2. Done(s, r)
    BY <1>7, <2>1, ItemsExecuted
  <2> HIDE DEF r
  <2>3. Done(u, r) /\ r \in UiType
    BY <1>7, <2>2 DEF Done, Sound, Still
  <2>4. Done(u, Finished(r))
    BY <2>3, FinishedIs, DoneKept
  <2>5. QED
    BY <2>3, <2>4 DEF FinishedUnlessLooping
<1> HIDE DEF d, r
<1>10. QED
  BY <1>5, <1>6, <1>8, <1>9, Executed

(***************************************************************************)
(* Buttons.                                                                 *)
(***************************************************************************)

\* What no menu waits for may change.
LEMMA Unasked ==
  ASSUME NEW u, Sound(u), u.active = <<>>, NEW v \in UiType, MenusKept(u, v),
         v.loops = u.loops, v.drag = u.drag, v.resize = u.resize, v.size = u.size
  PROVE  Sound(v) /\ Asked(v) /\ v.active = <<>>
<1>1. Chain(v)
  BY DEF Chain, Chained, Sound, MenusKept, ActiveMenu
<1>2. LoopsFit(v.loops) /\ Drags(v)
  BY DEF Sound, Drags, Settled
<1>3. v.active = <<>>
  BY DEF MenusKept
<1>4. QED
  BY <1>1, <1>2, <1>3 DEF Sound, Asked

\* What is being done is given up.
LEMMA Cancelled ==
  ASSUME NEW u, Sound(u), Asked(u)
  PROVE  LET v == CancelPress(u)
         IN  Sound(v) /\ Asked(v) /\ v.loops = u.loops /\ Settled(v) /\ v.active = u.active
             /\ v.frame = u.frame /\ (u.drag = None => v.shown = u.shown)
<1> DEFINE q == OpaqueMove /\ u.drag # None /\ ~u.fromWin
           shown == IF q THEN [u.shown EXCEPT ![u.drag] = Last(u.loops).orig] ELSE u.shown
           s == [u EXCEPT !.shown = shown]
           v == [s EXCEPT !.cancel = TRUE, !.size = FALSE, !.resize = None, !.drag = None,
                          !.pointer = TRUE]
<1>1. u \in UiType
  BY DEF Sound
<1>2. CancelPress(u) = v
  <2>1. CASE q
    BY <1>1, <2>1 DEF CancelPress, UiType
  <2>2. CASE ~q
    <3>1. shown = u.shown
      BY <2>2
    <3>2. u = [u EXCEPT !.shown = u.shown]
      BY <1>1 DEF UiType
    <3> HIDE DEF shown
    <3>3. QED
      BY <2>2, <3>1, <3>2 DEF CancelPress
  <2>3. QED
    BY <2>1, <2>2
<1>3. shown \in [Window -> Place]
  <2>1. CASE q
    <3>1. Dragging(u.loops) /\ u.loops # <<>> /\ LoopsFit(u.loops)
      BY <2>1 DEF Sound, Drags, Settled, Dragging
    <3>2. Last(u.loops).orig \in Place
      BY <3>1, LoopsAre DEF DragLoop
    <3>3. QED
      BY <1>1, <3>2 DEF UiType
  <2>2. CASE ~q
    BY <1>1, <2>2 DEF UiType
  <2>3. QED
    BY <2>1, <2>2
<1>13. u.drag = None => shown = u.shown
  OBVIOUS
<1> HIDE DEF shown, q
<1>4. s \in UiType
  BY ZenonT(60), <1>1, <1>3 DEF UiType
<1>5. /\ MenusKept(u, s) /\ s.loops = u.loops /\ s.context = u.context /\ s.win = u.win
      /\ s.managed = u.managed /\ s.frame = u.frame /\ s.shown = shown
  BY <1>1 DEF UiType, MenusKept
<1> HIDE DEF s
<1>6. v \in UiType
  BY ZenonT(60), <1>4 DEF UiType
<1>7. /\ MenusKept(s, v) /\ v.loops = s.loops /\ v.context = s.context /\ v.win = s.win
      /\ v.managed = s.managed /\ v.cancel = TRUE
      /\ v.drag = None /\ v.resize = None /\ v.size = FALSE
      /\ Still(s, v)
  BY <1>4 DEF UiType, MenusKept, Still
<1> HIDE DEF v
<1>8. MenusKept(u, v) /\ v.loops = u.loops
  BY <1>5, <1>7 DEF MenusKept
<1>9. Chain(v)
  BY <1>8 DEF Chain, Chained, Sound, MenusKept, ActiveMenu
<1>10. LoopsFit(v.loops) /\ Settled(v) /\ Drags(v)
  BY <1>7, <1>8 DEF Sound, Drags, Settled
<1>11. Asked(v)
  BY <1>5, <1>7, <1>8 DEF Asked, MenusKept, InMenu
<1>14. v.frame = u.frame /\ (u.drag = None => v.shown = u.shown)
  BY <1>5, <1>7, <1>13 DEF Still
<1>12. QED
  BY <1>2, <1>6, <1>8, <1>9, <1>10, <1>11, <1>14 DEF Sound, MenusKept

\* Where a button goes.
LEMMA ContextIs ==
  ASSUME NEW u \in UiType, NEW ctx \in {"title", "window"}
  PROVE  /\ PressContext(u, ctx) \in {"none", "root", "alternate", "title", "window"}
         /\ PressWindow(u) \in u.managed \cup {None} /\ PressWindow(u) \in Window \cup {None}
         /\ PressContext(u, ctx) # "none" => Knows(PressContext(u, ctx), PressWindow(u))
<1>1. u.managed \in SUBSET Window
  BY DEF UiType
<1>2. QED
  BY <1>1 DEF PressContext, PressWindow, Knows

LEMMA AltIs ==
  ASSUME NEW u, Sound(u), u.active = <<>>, NEW ctx \in {"title", "window"}
  PROVE  LET v == AltContextGiven(u, ctx)
         IN  /\ Sound(v) /\ Asked(v) /\ v.active = <<>> /\ v.loops = u.loops
             /\ v.managed = u.managed /\ v.at = u.at /\ v.context = PressContext(u, ctx)
<1> DEFINE c == PressContext(u, ctx)
           pointer == u.pointer /\ ~u.altctx
           keyboard == u.keyboard /\ ~u.altctx
           v == [u EXCEPT !.context = c, !.altctx = FALSE, !.pointer = pointer,
                          !.keyboard = keyboard]
<1>1. u \in UiType
  BY DEF Sound
<1>2. AltContextGiven(u, ctx) = v
  BY <1>1 DEF AltContextGiven, UiType
<1>3. c \in Context /\ pointer \in BOOLEAN /\ keyboard \in BOOLEAN
  <2>1. c \in Context
    BY <1>1, ContextIs DEF Context
  <2>2. QED
    BY <1>1, <2>1 DEF UiType
<1> HIDE DEF c, pointer, keyboard
<1>4. v \in UiType
  BY ZenonT(60), <1>1, <1>3 DEF UiType
<1>5. /\ MenusKept(u, v) /\ v.loops = u.loops /\ v.drag = u.drag /\ v.resize = u.resize
      /\ v.size = u.size /\ v.managed = u.managed /\ v.at = u.at /\ v.context = c
  BY <1>1 DEF UiType, MenusKept
<1> HIDE DEF v
<1>6. Sound(v) /\ Asked(v) /\ v.active = <<>>
  BY <1>4, <1>5, Unasked
<1>7. QED
  BY <1>2, <1>5, <1>6 DEF c

\* A press for a function that waits for a window.
LEMMA RootPressed ==
  ASSUME NEW u, Sound(u), u.active = <<>>, ~Dragging(u.loops), u.rootFn # None
  PROVE  LET v == RootFunctionPress(u)
         IN  Sound(v) /\ Asked(v) /\ Fresh(v)
<1> DEFINE ctx == IF u.context = "title" THEN "title" ELSE "window"
           c == [u EXCEPT !.context = ctx]
           s == ExecuteFunction(c, u.rootFn, u.at, ctx, "press")
           n == [u EXCEPT !.rootFn = None]
           r == [s EXCEPT !.rootFn = None]
<1>1. u \in UiType /\ u.managed \in SUBSET Window /\ u.rootFn \in Func
  BY DEF Sound, UiType
<1>2. RootFunctionPress(u) = IF u.at \in u.managed THEN r ELSE n
  BY DEF RootFunctionPress
<1>0. ctx \in {"title", "window"}
  OBVIOUS
<1> HIDE DEF ctx
<1>3. CASE u.at \notin u.managed
  <2>1. n \in UiType
    BY ZenonT(60), <1>1 DEF UiType
  <2>2. /\ MenusKept(u, n) /\ n.loops = u.loops /\ n.drag = u.drag /\ n.resize = u.resize
        /\ n.size = u.size
    BY <1>1 DEF UiType, MenusKept
  <2> HIDE DEF n
  <2>3. QED
    BY <1>2, <1>3, <2>1, <2>2, Unasked DEF Fresh
<1>4. CASE u.at \in u.managed
  <2>1. c \in UiType
    BY <1>0, <1>1 DEF UiType, Context
  <2>2. /\ MenusKept(u, c) /\ c.loops = u.loops /\ c.drag = u.drag /\ c.resize = u.resize
        /\ c.size = u.size
    BY <1>1 DEF UiType, MenusKept
  <2> HIDE DEF c
  <2>3. Sound(c) /\ Asked(c) /\ ~Dragging(c.loops)
    BY <2>1, <2>2, Unasked
  <2>4. u.at \in Window /\ Knows(ctx, u.at) /\ ctx \in Context /\ "press" \in From
    BY <1>0, <1>1, <1>4 DEF Knows, Context, From
  <2>5. Done(c, s)
    BY <1>1, <2>3, <2>4, FunctionExecuted
  <2> HIDE DEF s
  <2>6. s \in UiType /\ Sound(s) /\ Asked(s) /\ Fresh(s)
    BY <2>5 DEF Done, Sound
  <2>7. r \in UiType
    BY ZenonT(60), <2>6 DEF UiType
  <2>8. Kept(s, r) /\ MenusKept(s, r)
    BY <2>6 DEF UiType, Kept, Still, MenusKept
  <2> HIDE DEF r
  <2>9. QED
    BY <1>2, <1>4, <2>6, <2>7, <2>8, SoundKept
<1>5. QED
  BY <1>3, <1>4

\* A press that something is bound to.
LEMMA BoundPressed ==
  ASSUME NEW u, Sound(u), u.active = <<>>, ~Dragging(u.loops),
         NEW w \in Window \cup {None}, w \in u.managed \cup {None},
         u.context # "none" => Knows(u.context, w), NEW bound \in Action
  PROVE  LET v == BoundPress(u, w, bound)
         IN  Sound(v) /\ Asked(v) /\ Fresh(v)
<1> DEFINE pointer == u.pointer /\ ~u.altkey
           keyboard == u.keyboard /\ ~u.altkey
           s == [u EXCEPT !.win = w, !.altkey = FALSE, !.pointer = pointer, !.keyboard = keyboard]
           f == [s EXCEPT !.rootFn = None]
<1>1. u \in UiType
  BY DEF Sound
<1>2. BoundPress(u, w, bound)
        = IF s.context \in {"none", "identify"} THEN s
          ELSE IF bound.func = "menu" THEN do_menu(f, bound.sub, "press")
          ELSE ExecuteFunction(f, bound.func, w, f.context, "press")
  BY <1>1 DEF BoundPress, UiType
<1>3. pointer \in BOOLEAN /\ keyboard \in BOOLEAN
  BY <1>1 DEF UiType
<1> HIDE DEF pointer, keyboard
<1>4. s \in UiType
  BY ZenonT(60), <1>1, <1>3 DEF UiType
<1>5. /\ MenusKept(u, s) /\ s.loops = u.loops /\ s.drag = u.drag /\ s.resize = u.resize
      /\ s.size = u.size /\ s.win = w /\ s.context = u.context /\ s.managed = u.managed
  BY <1>1 DEF UiType, MenusKept
<1> HIDE DEF s
<1>6. Sound(s) /\ Asked(s) /\ s.active = <<>>
  BY <1>4, <1>5, Unasked
<1>7. f \in UiType
  BY ZenonT(60), <1>4 DEF UiType
<1>8. Kept(s, f) /\ MenusKept(s, f)
  BY <1>4 DEF UiType, Kept, Still, MenusKept
<1> HIDE DEF f
<1>9. /\ Sound(f) /\ Asked(f) /\ ~Dragging(f.loops) /\ f.active = <<>> /\ f.item = 0
      /\ f.win = w /\ f.context = u.context /\ f.managed = u.managed
  <2>1. Sound(f) /\ Asked(f) /\ f.active = <<>>
    BY <1>6, <1>7, <1>8, SoundKept DEF MenusKept
  <2>2. f.item = 0
    BY <2>1 DEF Sound, Chain
  <2>3. QED
    BY <1>5, <1>8, <2>1, <2>2 DEF Kept, Still
<1>10. CASE s.context \in {"none", "identify"}
  BY <1>2, <1>5, <1>6, <1>10 DEF Fresh
<1>11. CASE s.context \notin {"none", "identify"}
  <2>1. Knows(f.context, w) /\ f.context \in Context /\ "press" \in From
    BY <1>5, <1>7, <1>9, <1>11 DEF UiType, From
  <2>2. CASE bound.func = "menu"
    <3>1. bound.sub \in Menu
      BY <2>2 DEF Action
    <3>2. LET v == do_menu(f, bound.sub, "press") IN Sound(v) /\ Asked(v) /\ Fresh(v)
      BY <1>9, <2>1, <3>1, MenuIsDone DEF Fresh
    <3>3. QED
      BY <1>2, <1>11, <2>2, <3>2
  <2>3. CASE bound.func # "menu"
    <3>1. bound.func \in Func
      BY DEF Action
    <3>2. Done(f, ExecuteFunction(f, bound.func, w, f.context, "press"))
      BY <1>9, <2>1, <3>1, FunctionExecuted
    <3>3. QED
      BY <1>2, <1>11, <2>3, <3>2 DEF Done
  <2>4. QED
    BY <2>2, <2>3
<1>12. QED
  BY <1>10, <1>11

\* HandleButtonPress.
LEMMA Pressed ==
  ASSUME NEW u, Sound(u), Asked(u), ~Dragging(u.loops), NEW b \in Button,
         NEW ctx \in {"title", "window"}, NEW bound \in Action
  PROVE  LET v == HandleButtonPress(u, b, ctx, bound)
         IN  Sound(v) /\ Asked(v) /\ Fresh(v)
<1> DEFINE a == ActiveMenu(u)
           v == IF a # None /\ u.rootFn # None /\ u.at # a THEN PopDownMenu(u) ELSE u
           x == [v EXCEPT !.pressed = b]
           y == AltContextGiven(x, ctx)
           z == [x EXCEPT !.context = "root"]
<1>1. HandleButtonPress(u, b, ctx, bound)
        = IF a # None /\ ~Pinned(a) /\ u.at # a THEN PopDownMenu(u)
          ELSE IF v.pressed # None /\ ~v.info THEN CancelPress(v)
          ELSE IF ActiveMenu(x) # None /\ Pinned(ActiveMenu(x)) THEN z
          ELSE IF x.resize # None \/ x.drag # None \/ ActiveMenu(x) # None THEN x
          ELSE IF y.rootFn # None THEN RootFunctionPress(y)
          ELSE BoundPress(y, PressWindow(x), bound)
  BY DEF HandleButtonPress
<1>2. LET p == PopDownMenu(u) IN Sound(p) /\ Asked(p) /\ p.loops = u.loops
  BY PoppedDown DEF Kept, Still
<1>3. Sound(v) /\ Asked(v) /\ ~Dragging(v.loops) /\ v \in UiType
  BY <1>2 DEF Sound
<1> HIDE DEF v, a
<1>4. LET p == CancelPress(v) IN Sound(p) /\ Asked(p) /\ ~Dragging(p.loops)
  BY <1>3, Cancelled
<1>5. x \in UiType
  BY ZenonT(60), <1>3 DEF UiType
<1>6. Kept(v, x) /\ MenusKept(v, x)
  BY <1>3 DEF UiType, Kept, Still, MenusKept
<1> HIDE DEF x
<1>7. Sound(x) /\ Asked(x) /\ ~Dragging(x.loops)
  BY <1>3, <1>5, <1>6, SoundKept DEF Kept, Still
<1>8. Sound(z) /\ Asked(z) /\ ~Dragging(z.loops)
  <2>1. z \in UiType
    BY <1>5 DEF UiType, Context
  <2>2. /\ MenusKept(x, z) /\ z.loops = x.loops /\ z.drag = x.drag /\ z.resize = x.resize
        /\ z.size = x.size /\ z.win = x.win /\ z.managed = x.managed /\ z.cancel = x.cancel
        /\ z.context = "root"
    BY <1>5 DEF UiType, MenusKept
  <2> HIDE DEF z
  <2>3. Chain(z)
    BY <1>7, <2>2 DEF Chain, Chained, Sound, MenusKept, ActiveMenu
  <2>4. LoopsFit(z.loops) /\ Drags(z)
    BY <1>7, <2>2 DEF Sound, Drags, Settled
  <2>5. Asked(z)
    BY <1>7, <2>2 DEF Asked, MenusKept, InMenu, Knows
  <2>6. QED
    BY <1>7, <2>1, <2>2, <2>3, <2>4, <2>5 DEF Sound
<1>9. ASSUME ActiveMenu(x) = None
      PROVE  LET q == IF y.rootFn # None THEN RootFunctionPress(y)
                      ELSE BoundPress(y, PressWindow(x), bound)
             IN  Sound(q) /\ Asked(q) /\ Fresh(q)
  <2>1. x.active = <<>>
    BY <1>5, <1>9, ActiveIs
  <2>2. /\ Sound(y) /\ Asked(y) /\ y.active = <<>> /\ y.loops = x.loops
        /\ y.managed = x.managed /\ y.context = PressContext(x, ctx)
    BY <1>7, <2>1, AltIs
  <2> HIDE DEF y
  <2>3. /\ PressWindow(x) \in Window \cup {None} /\ PressWindow(x) \in y.managed \cup {None}
        /\ y.context # "none" => Knows(y.context, PressWindow(x))
    BY <1>5, <2>2, ContextIs
  <2>4. CASE y.rootFn # None
    BY <1>7, <2>2, <2>4, RootPressed
  <2>5. CASE y.rootFn = None
    BY <1>7, <2>2, <2>3, <2>5, BoundPressed
  <2>6. QED
    BY <2>4, <2>5
<1> HIDE DEF y, z
<1>10. QED
  BY <1>1, <1>2, <1>4, <1>7, <1>8, <1>9 DEF Fresh

(***************************************************************************)
(* Releases.                                                                *)
(***************************************************************************)

\* A drag ends: the frame is where the outline was.
LEMMA DragEnded ==
  ASSUME NEW u, Sound(u), Asked(u)
  PROVE  LET v == EndDrag(u)
         IN  /\ Sound(v) /\ Asked(v) /\ MenusKept(u, v) /\ v.loops = u.loops /\ v.drag = None
             /\ v.context = u.context /\ v.win = u.win /\ v.size = u.size
             /\ v.rootFn = u.rootFn
<1>1. u \in UiType
  BY DEF Sound
<1>2. CASE u.drag = None
  BY <1>2 DEF EndDrag, MenusKept
<1>3. CASE u.drag # None
  <2> DEFINE now == Last(u.loops).now
             frame == [u.frame EXCEPT ![u.drag] = now]
             shown == [u.shown EXCEPT ![u.drag] = now]
             v == [u EXCEPT !.frame = frame, !.shown = shown, !.drag = None]
  <2>1. EndDrag(u) = v
    BY <1>1, <1>3 DEF EndDrag, UiType
  <2>2. Dragging(u.loops) /\ u.loops # <<>> /\ LoopsFit(u.loops) /\ Last(u.loops).loop = "move"
    BY <1>3 DEF Sound, Drags, Settled, Dragging
  <2>3. now \in Place
    BY <2>2, LoopsAre DEF DragLoop
  <2> HIDE DEF now
  <2>4. frame \in [Window -> Place] /\ shown \in [Window -> Place]
    BY <1>1, <2>3 DEF UiType
  <2> HIDE DEF frame, shown
  <2>5. v \in UiType
    BY ZenonT(60), <1>1, <2>4 DEF UiType
  <2>6. /\ MenusKept(u, v) /\ v.loops = u.loops /\ v.drag = None /\ v.context = u.context
        /\ v.win = u.win /\ v.size = u.size /\ v.rootFn = u.rootFn /\ v.resize = u.resize
    BY <1>1 DEF UiType, MenusKept
  <2> HIDE DEF v
  <2>7. u.active = <<>>
    BY <2>2 DEF Asked
  <2>8. Chain(v) /\ Asked(v)
    BY <2>6, <2>7 DEF Chain, Chained, Sound, MenusKept, ActiveMenu, Asked
  <2>9. Drags(v)
    BY <1>3, <2>2, <2>6 DEF Sound, Drags, Settled
  <2>10. QED
    BY <2>1, <2>5, <2>6, <2>8, <2>9 DEF Sound
<1>4. QED
  BY <1>2, <1>3

\* The parts of a state that a resize sets.
LEMMA SizeIsSet ==
  ASSUME NEW u \in UiType, NEW zoomed \in [Window -> BOOLEAN], NEW frame \in [Window -> Place],
         NEW shown \in [Window -> Place]
  PROVE  [u EXCEPT !.size = FALSE, !.resize = None, !.zoomed = zoomed, !.frame = frame,
                   !.shown = shown] \in UiType
BY ZenonT(60) DEF UiType

\* So does a resize.
LEMMA ResizeEnded ==
  ASSUME NEW u, Sound(u), Asked(u), u.drag = None
  PROVE  LET v == EndResize(u)
         IN  /\ Sound(v) /\ Asked(v) /\ MenusKept(u, v) /\ v.loops = u.loops /\ v.drag = None
             /\ v.context = u.context /\ v.win = u.win /\ v.resize = None
             /\ v.rootFn = u.rootFn
             /\ Dragging(u.loops) /\ Last(u.loops).loop = "resize" => ~v.size
<1>1. u \in UiType
  BY DEF Sound
<1>2. CASE u.resize = None
  <2>1. EndResize(u) = u
    BY <1>2 DEF EndResize
  <2>2. Last(u.loops).loop = "resize" /\ ~Settled(u) => Last(u.loops).win = None
    BY <1>2 DEF Sound, Drags
  <2>3. ASSUME Dragging(u.loops), Last(u.loops).loop = "resize" PROVE ~u.size
    <3>1. CASE Settled(u)
      BY <3>1 DEF Settled
    <3>2. CASE ~Settled(u)
      <4>1. None \in Window
        <5>1. Last(u.loops) \in DragLoop
          BY <2>3, LoopsAre DEF Sound, Dragging
        <5>2. QED
          BY <2>2, <2>3, <3>2, <5>1 DEF DragLoop
      <4>2. QED
        BY <4>1, InteractionAssumption
    <3>3. QED
      BY <3>1, <3>2
  <2>4. QED
    BY <1>2, <2>1, <2>3 DEF MenusKept
<1>3. CASE u.resize # None
  <2> DEFINE w == u.resize
             now == Last(u.loops).now
             frame == [u.frame EXCEPT ![w] = now]
             shown == [u.shown EXCEPT ![w] = now]
             zoomed == [u.zoomed EXCEPT ![w] = @ /\ now = u.frame[w]]
             v == [u EXCEPT !.size = FALSE, !.resize = None, !.zoomed = zoomed, !.frame = frame,
                            !.shown = shown]
  <2>1. EndResize(u) = v
    BY <1>1, <1>3 DEF EndResize, UiType
  <2>2. Dragging(u.loops) /\ u.loops # <<>> /\ LoopsFit(u.loops)
    BY <1>3 DEF Sound, Drags, Settled, Dragging
  <2>3. now \in Place
    BY <2>2, LoopsAre DEF DragLoop
  <2> HIDE DEF now
  <2>4. frame \in [Window -> Place] /\ shown \in [Window -> Place]
    BY <1>1, <2>3 DEF UiType
  <2>5. zoomed \in [Window -> BOOLEAN]
    BY <1>1 DEF UiType
  <2> HIDE DEF frame, shown, zoomed
  <2>6. v \in UiType
    BY <1>1, <2>4, <2>5, SizeIsSet
  <2>7. /\ MenusKept(u, v) /\ v.loops = u.loops /\ v.drag = u.drag /\ v.context = u.context
        /\ v.win = u.win /\ v.size = FALSE /\ v.rootFn = u.rootFn /\ v.resize = None
    BY <1>1 DEF UiType, MenusKept
  <2> HIDE DEF v
  <2>8. u.active = <<>>
    BY <2>2 DEF Asked
  <2>9. Chain(v) /\ Asked(v)
    BY <2>7, <2>8 DEF Chain, Chained, Sound, MenusKept, ActiveMenu, Asked
  <2>10. Drags(v)
    BY <2>7 DEF Drags, Settled
  <2>11. QED
    BY <2>1, <2>6, <2>7, <2>9, <2>10 DEF Sound
<1>4. QED
  BY <1>2, <1>3

\* The last button is released: no menu is up by then.
LEMMA LastReleased ==
  ASSUME NEW u, Sound(u), Asked(u), NEW b, u.active = <<>> \/ u.rootFn # None
  PROVE  LET v == LastRelease(u, b)
         IN  /\ Sound(v) /\ Asked(v) /\ MenusKept(u, v) /\ v.loops = u.loops /\ v.drag = u.drag
             /\ v.resize = u.resize /\ v.size = u.size /\ v.at = u.at /\ Still(u, v)
<1> DEFINE x == [u EXCEPT !.pressed = None]
           y == [u EXCEPT !.pointer = FALSE, !.server = FALSE, !.quiet = FALSE,
                          !.pressed = None, !.cancel = FALSE]
           busy == u.rootFn # None \/ u.resize # None \/ u.drag # None
           alt == u.altkey \/ u.altctx
<1>1. u \in UiType
  BY DEF Sound
<1>2. LastRelease(u, b) = IF alt \/ busy THEN x ELSE IF u.held \ {b} # {} THEN u ELSE y
  BY DEF LastRelease
<1>3. CASE alt \/ busy
  <2>1. x \in UiType
    BY ZenonT(60), <1>1 DEF UiType
  <2>2. Kept(u, x) /\ MenusKept(u, x)
    BY <1>1 DEF UiType, Kept, Still, MenusKept
  <2> HIDE DEF x, alt, busy
  <2>3. QED
    BY <1>2, <1>3, <2>1, <2>2, SoundKept DEF Kept, Still
<1>4. CASE ~(alt \/ busy) /\ u.held \ {b} # {}
  BY <1>2, <1>4 DEF MenusKept, Still
<1>5. CASE ~(alt \/ busy) /\ ~(u.held \ {b} # {})
  <2>1. y \in UiType
    BY ZenonT(60), <1>1 DEF UiType
  <2>2. /\ MenusKept(u, y) /\ y.loops = u.loops /\ y.drag = u.drag /\ y.resize = u.resize
        /\ y.size = u.size /\ y.at = u.at /\ Still(u, y)
    BY <1>1 DEF UiType, MenusKept, Still
  <2>3. u.active = <<>>
    BY <1>5
  <2> HIDE DEF x, y, alt, busy
  <2>4. QED
    BY <1>2, <1>5, <2>1, <2>2, <2>3, Unasked
<1> HIDE DEF x, y, alt, busy
<1>6. QED
  BY <1>3, <1>4, <1>5

\* What follows the function that was chosen.
LEMMA AfterChoiceIs ==
  ASSUME NEW u, Sound(u), NEW b
  PROVE  LET v == AfterChoice(u, b)
         IN  /\ Sound(v) /\ Asked(v) /\ v.loops = u.loops /\ v.drag = u.drag
             /\ v.resize = u.resize /\ v.size = u.size /\ v.active = <<>> /\ v.at = u.at
             /\ Still(u, v)
<1> DEFINE n == [u EXCEPT !.context = "none", !.win = None]
           p == PopDownMenu(n)
           v == LastRelease(p, b)
<1>1. u \in UiType
  BY DEF Sound
<1>2. n \in UiType
  BY ZenonT(60), <1>1 DEF UiType, Context
<1>3. /\ MenusKept(u, n) /\ n.loops = u.loops /\ n.drag = u.drag /\ n.resize = u.resize
      /\ n.size = u.size /\ n.at = u.at /\ Still(u, n)
  BY <1>1 DEF UiType, MenusKept, Still
<1> HIDE DEF n
<1>4. Sound(n)
  BY <1>2, <1>3 DEF Sound, Chain, Chained, MenusKept, ActiveMenu, Drags, Settled
<1>5. Sound(p) /\ Asked(p) /\ Kept(n, p) /\ p.active = <<>>
  BY <1>4, PoppedDown
<1> HIDE DEF p
<1>6. /\ Sound(v) /\ Asked(v) /\ MenusKept(p, v) /\ v.loops = p.loops /\ v.drag = p.drag
      /\ v.resize = p.resize /\ v.size = p.size /\ v.at = p.at /\ Still(p, v)
  BY <1>5, LastReleased
<1>7. AfterChoice(u, b) = v
  BY DEF AfterChoice, n, p
<1> HIDE DEF v
<1>8. QED
  BY <1>3, <1>5, <1>6, <1>7 DEF Kept, Still, MenusKept

\* The item that is active.
LEMMA ActiveItemIs ==
  ASSUME NEW u, Sound(u), u.item # 0
  PROVE  u.active # <<>> /\ ActiveItem(u) \in Action
<1>1. u \in UiType /\ u.item \in Nat /\ u.active # <<>> /\ u.item <= Len(Items(ActiveMenu(u)))
  BY DEF Sound, Chain, UiType
<1>2. ActiveMenu(u) \in MenuRoot
  BY <1>1, ActiveIs
<1>3. Items(ActiveMenu(u)) \in Seq(Action)
  BY <1>2, ItemsAre
<1>4. u.item \in 1 .. Len(Items(ActiveMenu(u)))
  BY <1>1, <1>3, LenProperties
<1>5. Items(ActiveMenu(u))[u.item] \in Action
  BY <1>3, <1>4, ElementOfSeq
<1>6. QED
  BY <1>1, <1>5 DEF ActiveItem

\* The item of a menu is chosen.
LEMMA ItemChosen ==
  ASSUME NEW u, Sound(u), Asked(u), u.item # 0
  PROVE  Done(u, ChooseItem(u))
<1> DEFINE i == ActiveItem(u)
           x == [u EXCEPT !.pressed = None]
           s == IF i.func \in {"move", "delete"} THEN x ELSE u
           p == IF i.func \in {"pin", "menu"} THEN s ELSE PopDownMenu(s)
           r == ExecuteFunction(p, i.func, u.win, u.context, "release")
<1>1. u \in UiType /\ u.active # <<>> /\ i \in Action /\ i.func \in Func
  BY ActiveItemIs DEF Sound, Action
<1>2. ChooseItem(u) = r
  BY DEF ChooseItem
<1>3. x \in UiType
  BY ZenonT(60), <1>1 DEF UiType
<1>4. Kept(u, x) /\ MenusKept(u, x)
  BY <1>1 DEF UiType, Kept, Still, MenusKept
<1> HIDE DEF x, i
<1>5. Sound(s) /\ Asked(s) /\ s.loops = u.loops /\ Still(u, s)
  BY <1>3, <1>4, SoundKept DEF Kept, Still
<1> HIDE DEF s
<1>6. Sound(p) /\ Asked(p) /\ p.loops = u.loops /\ Still(u, p)
  BY <1>5, PoppedDown DEF Kept, Still
<1> HIDE DEF p
<1>7. /\ ~Dragging(p.loops) /\ Knows(u.context, u.win) /\ u.win \in Window \cup {None}
      /\ u.context \in Context /\ "release" \in From
  BY <1>1, <1>6 DEF Asked, UiType, From
<1>8. Done(p, r)
  BY <1>1, <1>6, <1>7, FunctionExecuted
<1>9. QED
  BY <1>2, <1>6, <1>8 DEF Done, Still

\* A release: in a menu, or of the last button.
LEMMA MenuReleased ==
  ASSUME NEW u, Sound(u), Asked(u), NEW b
  PROVE  LET v == ReleaseInMenu(u, b)
         IN  /\ Sound(v) /\ Asked(v)
             /\ Dragging(u.loops) => /\ v.loops = u.loops /\ v.drag = u.drag
                                     /\ v.resize = u.resize /\ v.size = u.size
             /\ ~Dragging(u.loops) => Fresh(v)
<1> DEFINE a == ActiveMenu(u)
           stays == /\ StayUpMenus
                    /\ IF u.item = 0 THEN ~u.entered[a] ELSE ActiveItem(u).func = "title"
           x == [u EXCEPT !.pressed = None]
           p == PopDownMenu(u)
           c == ChooseItem(u)
<1>1. u \in UiType
  BY DEF Sound
<1>2. ReleaseInMenu(u, b)
        = IF a = None \/ u.rootFn # None THEN LastRelease(u, b)
          ELSE IF stays THEN x
          ELSE IF u.item = 0 THEN LastRelease(p, b)
          ELSE Chosen(u, c, b)
  BY DEF ReleaseInMenu
<1>3. a = None <=> u.active = <<>>
  BY <1>1, ActiveIs
<1> HIDE DEF a, stays
<1>4. Dragging(u.loops) => a = None
  BY <1>3 DEF Asked
<1>5. CASE a = None \/ u.rootFn # None
  BY <1>2, <1>3, <1>5, LastReleased DEF Fresh
<1>6. CASE ~(a = None \/ u.rootFn # None) /\ stays
  <2>1. x \in UiType
    BY ZenonT(60), <1>1 DEF UiType
  <2>2. Kept(u, x) /\ MenusKept(u, x)
    BY <1>1 DEF UiType, Kept, Still, MenusKept
  <2> HIDE DEF x
  <2>3. QED
    BY <1>2, <1>4, <1>6, <2>1, <2>2, SoundKept DEF Fresh
<1>7. CASE ~(a = None \/ u.rootFn # None) /\ ~stays /\ u.item = 0
  <2>1. Sound(p) /\ Asked(p) /\ p.active = <<>> /\ p.loops = u.loops
    BY PoppedDown DEF Kept
  <2> HIDE DEF p
  <2>2. LET v == LastRelease(p, b) IN Sound(v) /\ Asked(v) /\ v.loops = u.loops
    BY <2>1, LastReleased
  <2>3. QED
    BY <1>2, <1>4, <1>7, <2>2 DEF Fresh
<1>8. CASE ~(a = None \/ u.rootFn # None) /\ ~stays /\ u.item # 0
  <2>1. Sound(c) /\ Asked(c) /\ Fresh(c)
    BY <1>8, ItemChosen DEF Done
  <2> HIDE DEF c
  <2>2. LET v == Chosen(u, c, b) IN Sound(v) /\ Asked(v) /\ Fresh(v)
    BY <2>1, AfterChoiceIs DEF Chosen, Fresh, Still
  <2>3. QED
    BY <1>2, <1>4, <1>8, <2>2
<1>9. QED
  BY <1>5, <1>6, <1>7, <1>8

\* HandleButtonRelease: what was dragged is let go.
LEMMA Released ==
  ASSUME NEW u, Sound(u), Asked(u), NEW b
  PROVE  LET v == HandleButtonRelease(u, b)
         IN  /\ Sound(v) /\ Asked(v)
             /\ Dragging(u.loops) => /\ v.loops = u.loops /\ v.drag = None /\ v.resize = None
                                     /\ Last(u.loops).loop = "resize" => ~v.size
             /\ ~Dragging(u.loops) => Fresh(v)
<1> DEFINE x == [u EXCEPT !.info = FALSE, !.context = "none"]
           i == IF u.info /\ u.context = "identify" THEN x ELSE u
           d == EndDrag(i)
           e == EndResize(d)
<1>1. u \in UiType
  BY DEF Sound
<1>2. Sound(i) /\ Asked(i) /\ i.loops = u.loops
  <2>1. CASE u.info /\ u.context = "identify"
    <3>1. x \in UiType
      BY ZenonT(60), <1>1 DEF UiType, Context
    <3>2. /\ MenusKept(u, x) /\ x.loops = u.loops /\ x.drag = u.drag /\ x.resize = u.resize
          /\ x.size = u.size
      BY <1>1 DEF UiType, MenusKept
    <3> HIDE DEF x
    <3>3. u.active = <<>>
      BY <2>1 DEF Asked, Knows
    <3>4. QED
      BY <2>1, <3>1, <3>2, <3>3, Unasked
  <2>2. CASE ~(u.info /\ u.context = "identify")
    BY <2>2
  <2>3. QED
    BY <2>1, <2>2
<1> HIDE DEF i
<1>3. Sound(d) /\ Asked(d) /\ d.loops = u.loops /\ d.drag = None
  BY <1>2, DragEnded
<1> HIDE DEF d
<1>4. /\ Sound(e) /\ Asked(e) /\ e.loops = u.loops /\ e.drag = None /\ e.resize = None
      /\ Dragging(u.loops) /\ Last(u.loops).loop = "resize" => ~e.size
  BY <1>3, ResizeEnded
<1> HIDE DEF e
<1>5. HandleButtonRelease(u, b) = ReleaseInMenu(e, b)
  BY DEF HandleButtonRelease, i, d, e
<1>6. LET v == ReleaseInMenu(e, b)
      IN  /\ Sound(v) /\ Asked(v)
          /\ Dragging(e.loops) => /\ v.loops = e.loops /\ v.drag = e.drag
                                  /\ v.resize = e.resize /\ v.size = e.size
          /\ ~Dragging(e.loops) => Fresh(v)
  BY <1>4, MenuReleased
<1>7. QED
  BY <1>4, <1>5, <1>6

(***************************************************************************)
(* Keys.                                                                    *)
(***************************************************************************)

LEMMA LetIs ==
  ASSUME NEW u, Sound(u), Asked(u)
  PROVE  LET v == Let(u)
         IN  Sound(v) /\ Asked(v) /\ (Fresh(u) => Fresh(v))
<1> DEFINE v == [u EXCEPT !.pointer = FALSE]
<1>1. u \in UiType
  BY DEF Sound
<1>2. v \in UiType
  BY ZenonT(60), <1>1 DEF UiType
<1>3. Kept(u, v) /\ MenusKept(u, v)
  BY <1>1 DEF UiType, Kept, Still, MenusKept
<1>4. Let(u) = v
  BY DEF Let
<1> HIDE DEF v
<1>5. QED
  BY <1>2, <1>3, <1>4, SoundKept

\* A key pressed in a menu.
LEMMA KeyedInMenu ==
  ASSUME NEW u, Sound(u), Asked(u), u.active # <<>>, ~u.cancel, NEW k
  PROVE  LET v == KeyInMenu(u, k)
         IN  Sound(v) /\ Asked(v) /\ Fresh(v)
<1> DEFINE i == ActiveItem(u)
           d == PopDownMenu(u)
           p == IF i.func = "pin" THEN u ELSE d
           r == ExecuteFunction(u, "menu", u.win, u.context, "key")
           x == [u EXCEPT !.item = 0]
           e == ExecuteFunction(p, i.func, u.win, u.context, "key")
<1>1. u \in UiType
  BY DEF Sound
<1>2. Sound(d) /\ Asked(d) /\ d.loops = u.loops
  BY PoppedDown DEF Kept, Still
<1>3. /\ ~Dragging(u.loops) /\ Knows(u.context, u.win) /\ u.win \in Window \cup {None}
      /\ u.context \in Context /\ "key" \in From
  BY <1>1 DEF Asked, UiType, From
<1>4. CASE i = None
  <2>1. KeyInMenu(u, k) = Let(d)
    BY <1>4 DEF KeyInMenu
  <2> HIDE DEF d
  <2>2. QED
    BY <1>2, <1>3, <2>1, LetIs DEF Fresh
<1>5. CASE i # None
  <2>1. i \in Action
    <3>1. u.item # 0
      BY <1>5 DEF ActiveItem
    <3>2. QED
      BY <3>1, ActiveItemIs
  <2>2. i.func \in Func
    BY <2>1 DEF Action
  <2> HIDE DEF i
  <2>3. CASE i.func \in {"nop", "title"}
    <3>1. KeyInMenu(u, k) = u
      BY <1>5, <2>3 DEF KeyInMenu, i
    <3>2. QED
      BY <1>3, <3>1 DEF Fresh
  <2>4. CASE i.func = "menu" /\ k = "return"
    <3>1. KeyInMenu(u, k) = PopDownMenu(r)
      BY <1>5, <2>4 DEF KeyInMenu, i
    <3>2. Sound(r) /\ Fresh(r)
      BY <1>3, FunctionExecuted DEF Done, Func
    <3> HIDE DEF r
    <3>3. QED
      BY <3>1, <3>2, PoppedDown DEF Fresh, Kept, Still
  <2>5. CASE i.func = "menu" /\ k = "right"
    <3>1. KeyInMenu(u, k) = do_menu(x, i.sub, "key")
      BY <1>5, <2>5 DEF KeyInMenu, i
    <3>2. i.sub \in Menu
      BY <2>1, <2>5 DEF Action
    <3>3. x \in UiType
      BY ZenonT(60), <1>1 DEF UiType
    <3>4. /\ Kept(u, x) /\ x.active = u.active /\ x.depth = u.depth /\ x.mapped = u.mapped
          /\ x.up = u.up /\ x.item = 0
      BY <1>1 DEF UiType, Kept, Still
    <3> HIDE DEF x
    <3>5. Sound(x) /\ Asked(x)
      <4>1. Chain(x)
        BY <3>4 DEF Chain, Chained, Sound
      <4>2. Drags(x) /\ LoopsFit(x.loops)
        BY <3>4 DEF Sound, Drags, Settled, Kept, Still
      <4>3. Asked(x)
        BY <3>4 DEF Asked, Kept, Still, InMenu
      <4>4. QED
        BY <3>3, <4>1, <4>2, <4>3 DEF Sound
    <3>6. /\ ~Dragging(x.loops) /\ Knows(x.context, x.win) /\ x.active # <<>> /\ ~x.cancel
      BY <1>3, <3>4 DEF Kept, Still
    <3>7. LET v == do_menu(x, i.sub, "key") IN Sound(v) /\ Asked(v) /\ Fresh(v)
      BY <1>3, <3>2, <3>4, <3>5, <3>6, MenuIsDone DEF Fresh
    <3>8. QED
      BY <3>1, <3>7
  <2>6. CASE i.func \notin {"nop", "title"} /\ ~(i.func = "menu" /\ k \in {"return", "right"})
    <3>1. KeyInMenu(u, k) = e
      BY <1>5, <2>6 DEF KeyInMenu, i
    <3> HIDE DEF d
    <3>2. Sound(p) /\ Asked(p) /\ p.loops = u.loops
      BY <1>2
    <3> HIDE DEF p
    <3>3. Done(p, e)
      BY <1>3, <2>2, <3>2, FunctionExecuted
    <3>4. QED
      BY <3>1, <3>3 DEF Done
  <2>7. QED
    BY <2>3, <2>4, <2>5, <2>6
<1>6. QED
  BY <1>4, <1>5

\* Escape: a menu goes, and the last one takes the chain along.
LEMMA MenuEscaped ==
  ASSUME NEW u, Sound(u), Asked(u), u.active # <<>>
  PROVE  LET v == EscapeMenu(u)
         IN  Sound(v) /\ Asked(v) /\ Fresh(v)
<1> DEFINE a == ActiveMenu(u)
           d == PopDownMenu(u)
           up == [u.up EXCEPT ![a] = FALSE]
           v == [u EXCEPT !.up = up]
<1>1. u \in UiType /\ u.up \in [MenuRoot -> BOOLEAN] /\ a \in MenuRoot
      /\ ~Dragging(u.loops)
  BY ActiveIs DEF Sound, UiType, Asked
<1>2. CASE Pinned(a)
  BY <1>1, <1>2 DEF EscapeMenu, Fresh
<1>3. CASE ~Pinned(a) /\ u.depth = 1
  <2>1. EscapeMenu(u) = Let(d)
    BY <1>3 DEF EscapeMenu
  <2>2. Sound(d) /\ Asked(d) /\ d.loops = u.loops
    BY PoppedDown DEF Kept
  <2> HIDE DEF d
  <2>3. QED
    BY <1>1, <2>1, <2>2, LetIs DEF Fresh
<1>4. CASE ~Pinned(a) /\ u.depth # 1
  <2>1. EscapeMenu(u) = v
    BY <1>1, <1>4 DEF EscapeMenu, UiType
  <2>2. a \in Menu
    BY <1>4 DEF Pinned
  <2> HIDE DEF a
  <2>3. up \in [MenuRoot -> BOOLEAN] /\ \A m \in MenuRoot : up[m] = (m # a /\ u.up[m])
    BY <1>1
  <2> HIDE DEF up
  <2>4. v \in UiType
    BY ZenonT(60), <1>1, <2>3 DEF UiType
  <2>5. /\ Kept(u, v) /\ v.active = u.active /\ v.depth = u.depth /\ v.mapped = u.mapped
        /\ v.up = up /\ v.item = u.item
    BY <1>1 DEF UiType, Kept, Still
  <2> HIDE DEF v
  <2>6. Chain(v)
    <3>1. \A m \in Menu : m \in MenuRoot
      BY DEF MenuRoot
    <3>2. \A m \in Menu : up[m] => m \in ToSet(u.active)
      BY <2>3, <3>1 DEF Sound, Chain, Chained
    <3>3. \A m \in MenuRoot \ Menu : up[m] = (u.mapped[m] = "mapped")
      BY <1>1, <2>2, <2>3 DEF Sound, Chain, Chained
    <3>4. QED
      BY <2>5, <3>2, <3>3 DEF Sound, Chain, Chained, ActiveMenu
  <2>7. LoopsFit(v.loops) /\ Drags(v) /\ Asked(v)
    BY <2>5 DEF Sound, Kept, Still, Drags, Settled, Asked, InMenu
  <2>8. QED
    BY <1>1, <2>1, <2>4, <2>5, <2>6, <2>7 DEF Sound, Fresh, Kept
<1>5. QED
  BY <1>2, <1>3, <1>4

\* The parts of a state that a key sets.
LEMMA KeymapIsSet ==
  ASSUME NEW u \in UiType, NEW a \in BOOLEAN, NEW p \in BOOLEAN, NEW q \in BOOLEAN
  PROVE  [u EXCEPT !.altkey = a, !.pointer = p, !.keyboard = q] \in UiType
BY ZenonT(60) DEF UiType

\* A key that a function is bound to.
LEMMA KeyBound ==
  ASSUME NEW u, Sound(u), u.active = <<>>, ~Dragging(u.loops), NEW bound \in Action
  PROVE  LET v == BoundKey(u, bound)
         IN  Sound(v) /\ Asked(v) /\ Fresh(v)
<1> DEFINE y == AltContextGiven(u, "window")
           w == PressWindow(u)
           pointer == y.pointer /\ ~y.altkey
           keyboard == y.keyboard /\ ~y.altkey
           z == [y EXCEPT !.altkey = FALSE, !.pointer = pointer, !.keyboard = keyboard]
           x == [z EXCEPT !.win = w]
           e == ExecuteFunction(z, bound.func, w, z.context, "key")
<1>1. /\ Sound(y) /\ Asked(y) /\ y.active = <<>> /\ y.loops = u.loops /\ y.managed = u.managed
      /\ y.context = PressContext(u, "window") /\ u \in UiType /\ y \in UiType
  BY AltIs DEF Sound
<1>2. BoundKey(u, bound)
        = IF z.context = "none" \/ bound.func \in {"move", "resize"} THEN z
          ELSE IF bound.func = "menu" THEN do_menu(x, bound.sub, "key")
          ELSE KeyDone(e)
  <2> HIDE DEF y, w
  <2>1. z = [y EXCEPT !.altkey = FALSE, !.pointer = @ /\ ~y.altkey, !.keyboard = @ /\ ~y.altkey]
    BY <1>1 DEF UiType
  <2> HIDE DEF z
  <2>2. QED
    BY <2>1 DEF BoundKey, y, w
<1>3. /\ w \in Window \cup {None} /\ w \in u.managed \cup {None}
      /\ y.context # "none" => Knows(y.context, w)
  BY <1>1, ContextIs
<1> HIDE DEF y, w
<1>4. pointer \in BOOLEAN /\ keyboard \in BOOLEAN
  BY <1>1 DEF UiType
<1> HIDE DEF pointer, keyboard
<1>5. z \in UiType
  <2>1. y \in UiType
    BY <1>1
  <2>2. QED
    BY <1>4, <2>1, KeymapIsSet
<1>6. Kept(y, z) /\ MenusKept(y, z)
  BY <1>1 DEF UiType, Kept, Still, MenusKept
<1> HIDE DEF z
<1>7. Sound(z) /\ Asked(z) /\ ~Dragging(z.loops) /\ z.active = <<>> /\ z.context = y.context
  BY <1>1, <1>5, <1>6, SoundKept DEF Kept, Still, MenusKept
<1>8. CASE z.context = "none" \/ bound.func \in {"move", "resize"}
  BY <1>2, <1>7, <1>8 DEF Fresh
<1>9. CASE z.context # "none" /\ bound.func = "menu"
  <2>1. x \in UiType
    BY ZenonT(60), <1>3, <1>5 DEF UiType
  <2>2. /\ MenusKept(z, x) /\ x.loops = z.loops /\ x.drag = z.drag /\ x.resize = z.resize
        /\ x.size = z.size /\ x.win = w /\ x.managed = z.managed /\ x.context = z.context
    BY <1>5 DEF UiType, MenusKept
  <2> HIDE DEF x
  <2>3. Sound(x) /\ Asked(x) /\ x.active = <<>>
    BY <1>7, <2>1, <2>2, Unasked
  <2>4. bound.sub \in Menu
    BY <1>9 DEF Action
  <2>5. x.item = 0
    BY <2>3 DEF Sound, Chain
  <2>6. x.win \in x.managed \cup {None}
    BY <1>1, <1>3, <1>6, <2>2 DEF Kept, Still
  <2>7. LET v == do_menu(x, bound.sub, "key") IN Sound(v) /\ Asked(v) /\ Fresh(v)
    BY <1>3, <1>7, <1>9, <2>2, <2>3, <2>4, <2>5, <2>6, MenuIsDone DEF From, Fresh
  <2>8. QED
    BY <1>2, <1>9, <2>7
<1>10. CASE z.context # "none" /\ bound.func \notin {"move", "resize", "menu"}
  <2>1. bound.func \in Func /\ z.context \in Context /\ "key" \in From
    BY <1>5 DEF Action, UiType, From
  <2>2. Sound(e) /\ Asked(e) /\ Fresh(e)
    BY <1>3, <1>7, <1>10, <2>1, FunctionExecuted DEF Done
  <2> HIDE DEF e
  <2>3. QED
    BY <1>2, <1>10, <2>2, LetIs DEF KeyDone
<1>11. QED
  BY <1>8, <1>9, <1>10

\* HandleKeyPress.
LEMMA KeyPressed ==
  ASSUME NEW u, Sound(u), Asked(u), ~Dragging(u.loops), ~u.cancel, NEW k, NEW bound \in Action
  PROVE  LET v == HandleKeyPress(u, k, bound)
         IN  Sound(v) /\ Asked(v) /\ Fresh(v)
<1> DEFINE s == [u EXCEPT !.info = FALSE]
<1>1. u \in UiType
  BY DEF Sound
<1>2. s \in UiType
  BY ZenonT(60), <1>1 DEF UiType
<1>3. Kept(u, s) /\ MenusKept(u, s)
  BY <1>1 DEF UiType, Kept, Still, MenusKept
<1>4. HandleKeyPress(u, k, bound)
        = IF s.active = <<>> THEN BoundKey(s, bound)
          ELSE IF k = "escape" THEN EscapeMenu(s)
          ELSE KeyInMenu(s, k)
  <2> HIDE DEF s
  <2>1. QED
    BY DEF HandleKeyPress, s
<1> HIDE DEF s
<1>5. Sound(s) /\ Asked(s) /\ ~Dragging(s.loops) /\ ~s.cancel
  BY <1>2, <1>3, SoundKept DEF Kept, Still
<1>6. CASE s.active = <<>>
  BY <1>4, <1>5, <1>6, KeyBound
<1>7. CASE s.active # <<>> /\ k = "escape"
  BY <1>4, <1>5, <1>7, MenuEscaped
<1>8. CASE s.active # <<>> /\ k # "escape"
  BY <1>4, <1>5, <1>8, KeyedInMenu
<1>9. QED
  BY <1>6, <1>7, <1>8

(***************************************************************************)
(* The pointer.                                                             *)
(***************************************************************************)

\* The pointer leaves a pinned menu.
LEMMA MenuLeft ==
  ASSUME NEW u, Sound(u), Asked(u)
  PROVE  LET v == LeaveMenu(u)
         IN  Sound(v) /\ Asked(v) /\ v.loops = u.loops
<1> DEFINE d == PopDownMenu(u)
<1>1. Sound(d) /\ Asked(d) /\ d.loops = u.loops
  BY PoppedDown DEF Kept, Still
<1>2. LeaveMenu(u) = d \/ LeaveMenu(u) = u
  BY DEF LeaveMenu
<1> HIDE DEF d
<1>3. QED
  BY <1>1, <1>2

\* The first menus of a chain: the others are those put away.
LEMMA ChainShrinks ==
  ASSUME NEW q \in Seq(MenuRoot), IsInjective(q), NEW n \in 1 .. Len(q)
  PROVE  LET r == SubSeq(q, 1, n)
             ms == {q[j] : j \in n + 1 .. Len(q)}
         IN  /\ r \in Seq(MenuRoot) /\ r # <<>> /\ Len(r) = n /\ IsInjective(r)
             /\ \A m : m \in ToSet(r) <=> m \in ToSet(q) /\ m \notin ms
             /\ Head(r) = Head(q) /\ Last(r) = q[n]
<1> DEFINE r == SubSeq(q, 1, n)
           ms == {q[j] : j \in n + 1 .. Len(q)}
<1>1. /\ Len(q) \in Nat /\ DOMAIN q = 1 .. Len(q) /\ n \in Int /\ 1 \in Int
      /\ \A i \in 1 .. n : q[i] \in MenuRoot /\ i \in 1 .. Len(q)
  BY LenProperties, ElementOfSeq
<1>2. /\ r \in Seq(MenuRoot) /\ Len(r) = n /\ \A i \in 1 .. n : r[i] = q[i]
  <2>1. /\ SubSeq(q, 1, n) \in Seq(MenuRoot)
        /\ Len(SubSeq(q, 1, n)) = IF 1 <= n THEN n - 1 + 1 ELSE 0
        /\ \A i \in 1 .. n - 1 + 1 : SubSeq(q, 1, n)[i] = q[1 + i - 1]
    BY <1>1, SubSeqProperties
  <2>2. 1 <= n /\ n - 1 + 1 = n /\ \A i \in 1 .. n : 1 + i - 1 = i
    BY <1>1
  <2>3. QED
    BY <2>1, <2>2
<1>3. DOMAIN r = 1 .. n
  BY <1>2, LenProperties
<1> HIDE DEF r
<1>4. r # <<>> /\ Last(r) = q[n]
  <2>1. r # <<>>
    BY <1>1, <1>2, EmptySeq
  <2>2. Last(r) = r[n]
    BY <1>2, <2>1, FrontIs
  <2>3. QED
    BY <1>2, <2>1, <2>2
<1>5. Head(r) = Head(q)
  BY <1>2 DEF Head
<1>6. IsInjective(r)
  <2>1. SUFFICES ASSUME NEW i \in 1 .. n, NEW j \in 1 .. n, r[i] = r[j] PROVE i = j
    BY <1>3 DEF IsInjective
  <2>2. q[i] = q[j] /\ i \in DOMAIN q /\ j \in DOMAIN q
    BY <1>1, <1>2, <2>1
  <2>3. QED
    BY <2>2 DEF IsInjective
<1>7. \A m : m \in ToSet(r) <=> m \in ToSet(q) /\ m \notin ms
  <2>1. TAKE m
  <2>2. m \in ToSet(r) <=> \E i \in 1 .. n : m = q[i]
    BY <1>2, <1>3 DEF ToSet
  <2>3. m \in ToSet(q) <=> \E i \in 1 .. Len(q) : m = q[i]
    BY <1>1 DEF ToSet
  <2>4. ASSUME NEW i \in 1 .. n, m = q[i] PROVE m \notin ms
    <3>1. SUFFICES ASSUME NEW j \in n + 1 .. Len(q), q[i] = q[j] PROVE FALSE
      BY <2>4
    <3>2. i \in DOMAIN q /\ j \in DOMAIN q /\ i # j
      BY <1>1
    <3>3. QED
      BY <3>1, <3>2 DEF IsInjective
  <2>5. ASSUME NEW i \in 1 .. Len(q), m = q[i], m \notin ms PROVE i \in 1 .. n
    BY <1>1, <2>5
  <2>6. QED
    BY <1>1, <2>2, <2>3, <2>4, <2>5
<1>8. QED
  BY <1>2, <1>4, <1>5, <1>6, <1>7 DEF r

\* The pointer enters a menu of the chain again.
LEMMA BackToMenu ==
  ASSUME NEW u, Sound(u), Asked(u), NEW m \in ToSet(u.active), NEW i \in 0 .. Len(Items(m))
  PROVE  LET v == BackTo(u, m, i)
         IN  Sound(v) /\ Asked(v) /\ v.at = u.at /\ ActiveMenu(v) = m /\ v.loops = u.loops
<1> DEFINE q == u.active
           n == CHOOSE j \in DOMAIN q : q[j] = m
           ms == {q[j] : j \in n + 1 .. Len(q)}
           s == PutAway(u, ms)
           r == SubSeq(q, 1, n)
           depth == u.depth - (Len(q) - n)
           pointer == s.pointer /\ ~Pinned(m)
           v == [s EXCEPT !.active = r, !.depth = depth, !.item = i, !.pointer = pointer]
<1>1. u \in UiType /\ q \in Seq(MenuRoot) /\ IsInjective(q) /\ u.depth = Len(q)
  BY DEF Sound, UiType, Chain, Chained
<1>2. n \in 1 .. Len(q) /\ q[n] = m
  <2>1. \E j \in DOMAIN q : q[j] = m
    BY DEF ToSet
  <2>2. DOMAIN q = 1 .. Len(q)
    BY <1>1, LenProperties
  <2>3. QED
    BY <2>1, <2>2
<1> HIDE DEF n
<1>3. /\ r \in Seq(MenuRoot) /\ r # <<>> /\ Len(r) = n /\ IsInjective(r)
      /\ \A k : k \in ToSet(r) <=> k \in ToSet(q) /\ k \notin ms
      /\ Head(r) = Head(q) /\ Last(r) = m
  BY <1>1, <1>2, ChainShrinks
<1> HIDE DEF ms
<1>4. /\ s \in UiType /\ Kept(u, s)
      /\ s.active = u.active /\ s.depth = u.depth
      /\ \A k \in MenuRoot : s.up[k] <=> k \notin ms /\ u.up[k]
      /\ \A k \in MenuRoot : s.mapped[k] = IF k \in ms THEN "unmapped" ELSE u.mapped[k]
  BY <1>1, PutAwayIs
<1>5. BackTo(u, m, i) = v
  <2>1. BackTo(u, m, i)
        = [s EXCEPT !.active = SubSeq(@, 1, n), !.depth = @ - (Len(q) - n),
                    !.item = i, !.pointer = @ /\ ~Pinned(m)]
    BY DEF BackTo, n, ms
  <2> HIDE DEF s
  <2>2. QED
    BY <1>4, <2>1 DEF UiType
<1> HIDE DEF s
<1>6. depth = n /\ depth \in Nat /\ i \in Nat /\ Len(q) \in Nat
  BY <1>1, <1>2, LenProperties
<1>7. pointer \in BOOLEAN
  BY <1>4 DEF UiType
<1> HIDE DEF r, depth, pointer, q
<1>8. v \in UiType
  <2> DEFINE x == [s EXCEPT !.active = r, !.depth = depth]
             y == [x EXCEPT !.item = i, !.pointer = pointer]
  <2>1. s \in UiType
    BY <1>4
  <2>2. x \in UiType
    <3>1. r \in Seq(MenuRoot) /\ depth \in Nat
      BY <1>3, <1>6
    <3>2. QED
      BY ZenonT(60), <2>1, <3>1 DEF UiType
  <2>3. v = y
    OBVIOUS
  <2> HIDE DEF x, v
  <2>4. y \in UiType
    BY ZenonT(60), <1>6, <1>7, <2>2 DEF UiType
  <2>5. QED
    BY <2>3, <2>4
<1>9. /\ Kept(s, v) /\ v.active = r /\ v.depth = depth /\ v.item = i /\ v.mapped = s.mapped
      /\ v.up = s.up
  BY <1>4 DEF UiType, Kept, Still
<1> HIDE DEF v
<1>10. ActiveMenu(v) = m
  BY <1>3, <1>9 DEF ActiveMenu
<1>11. Chained(v)
  <2>1. /\ \A k \in Menu : k \in MenuRoot
        /\ \A k \in Menu : (k \in ToSet(q)) = (u.mapped[k] = "mapped")
        /\ \A k \in Menu : u.up[k] => k \in ToSet(q)
        /\ \A k \in MenuRoot \ Menu : u.up[k] = (u.mapped[k] = "mapped")
    BY DEF Sound, Chain, Chained, MenuRoot, q
  <2>2. u.up \in [MenuRoot -> BOOLEAN] /\ s.up \in [MenuRoot -> BOOLEAN]
    BY <1>1, <1>4 DEF UiType
  <2>3. \A k \in Menu : (k \in ToSet(r)) = (s.mapped[k] = "mapped")
    BY <1>3, <1>4, <2>1
  <2>4. \A k \in Menu : s.up[k] => k \in ToSet(r)
    BY <1>3, <1>4, <2>1
  <2>5. \A k \in MenuRoot \ Menu : s.up[k] = (s.mapped[k] = "mapped")
    BY <1>4, <2>1, <2>2
  <2>6. QED
    BY <1>3, <1>6, <1>9, <2>3, <2>4, <2>5 DEF Chained
<1>12. Chain(v)
  <2>1. i <= Len(Items(m))
    OBVIOUS
  <2>2. QED
    BY <1>3, <1>9, <1>10, <1>11, <2>1 DEF Chain
<1>13. LoopsFit(v.loops) /\ Drags(v)
  BY <1>4, <1>9 DEF Sound, Kept, Still, Drags, Settled
<1>14. Asked(v)
  <2>1. u.active # <<>>
    BY <1>2, <1>6, EmptySeq DEF q
  <2>2. Head(v.active) = Head(u.active)
    BY <1>3, <1>9 DEF q
  <2>3. QED
    BY <1>4, <1>9, <2>1, <2>2 DEF Asked, Kept, Still, InMenu
<1>15. v.at = u.at /\ v.loops = u.loops
  BY <1>4, <1>9 DEF Kept, Still
<1>16. QED
  BY <1>5, <1>8, <1>10, <1>12, <1>13, <1>14, <1>15 DEF Sound

\* The pointer enters a menu: a pinned one begins a chain of its own.
LEMMA MenuEntered ==
  ASSUME NEW u, Sound(u), Asked(u), ~Dragging(u.loops), NEW m \in MenuRoot,
         NEW i \in 0 .. Len(Items(m))
  PROVE  LET v == EnterMenu(u, m, i)
         IN  Sound(v) /\ Asked(v) /\ v.at = u.at /\ ~Dragging(v.loops)
<1> DEFINE entered == [u.entered EXCEPT ![m] = TRUE]
           s == [u EXCEPT !.entered = entered]
           p == PopUpMenu(u, m)
           c == [p EXCEPT !.context = "root"]
<1>1. u \in UiType
  BY DEF Sound
<1>2. /\ \/ EnterMenu(u, m, i) = u
         \/ u.active = <<>> /\ Pinned(m) /\ EnterMenu(u, m, i) = UpdateMenu(c, "enter")
         \/ m \in ToSet(u.active) /\ EnterMenu(u, m, i) = BackTo(s, m, i)
         \/ EnterMenu(u, m, i) = s
  <2>1. s = [u EXCEPT !.entered[m] = TRUE]
    BY <1>1 DEF UiType
  <2> HIDE DEF s
  <2>2. QED
    BY <2>1 DEF EnterMenu
<1>3. entered \in [MenuRoot -> BOOLEAN]
  BY <1>1 DEF UiType
<1> HIDE DEF entered
<1>4. s \in UiType
  BY ZenonT(60), <1>1, <1>3 DEF UiType
<1>5. Kept(u, s) /\ MenusKept(u, s)
  BY <1>1 DEF UiType, Kept, Still, MenusKept
<1> HIDE DEF s
<1>6. Sound(s) /\ Asked(s) /\ s.at = u.at /\ s.active = u.active /\ s.loops = u.loops
  BY <1>4, <1>5, SoundKept DEF Kept, Still, MenusKept
<1>7. CASE EnterMenu(u, m, i) = u \/ EnterMenu(u, m, i) = s
  BY <1>6, <1>7
<1>8. CASE m \in ToSet(u.active) /\ EnterMenu(u, m, i) = BackTo(s, m, i)
  BY <1>6, <1>8, BackToMenu
<1>9. CASE u.active = <<>> /\ Pinned(m) /\ EnterMenu(u, m, i) = UpdateMenu(c, "enter")
  <2>1. u.item = 0
    BY <1>9 DEF Sound, Chain
  <2>2. Sound(p) /\ Kept(u, p) /\ (p.active # <<>> => Head(p.active) = m)
    <3>1. CASE CanPopUp(u, m)
      BY <1>9, <2>1, <3>1, PopsUp
    <3>2. CASE ~CanPopUp(u, m)
      <4>1. p = u
        BY <3>2 DEF PopUpMenu
      <4>2. QED
        BY <1>9, <4>1 DEF Kept, Still
    <3>3. QED
      BY <3>1, <3>2
  <2> HIDE DEF p
  <2>3. c \in UiType
    <3>1. p \in UiType
      BY <2>2 DEF Sound
    <3>2. QED
      BY ZenonT(60), <3>1 DEF UiType, Context
  <2>4. /\ MenusKept(p, c) /\ c.loops = p.loops /\ c.drag = p.drag /\ c.resize = p.resize
        /\ c.size = p.size /\ c.context = "root" /\ c.at = p.at
    BY <2>2 DEF Sound, UiType, MenusKept
  <2> HIDE DEF c
  <2>5. Sound(c)
    BY <2>2, <2>3, <2>4 DEF Sound, Chain, Chained, MenusKept, ActiveMenu, Drags, Settled
  <2>6. /\ ~Dragging(c.loops) /\ Knows(c.context, c.win) /\ "enter" \in From
        /\ c.active # <<>> => Pinned(Head(c.active))
    BY <1>9, <2>2, <2>4 DEF Kept, Still, MenusKept, Knows, From
  <2>7. LET v == UpdateMenu(c, "enter") IN Sound(v) /\ Asked(v) /\ v.at = c.at /\ ~Dragging(v.loops)
    BY <2>5, <2>6, UpdatesMenu
  <2>8. QED
    BY <1>9, <2>2, <2>4, <2>7 DEF Kept, Still
<1>10. QED
  BY <1>2, <1>7, <1>8, <1>9

\* The pointer moves in a menu: another item is active, and its menu comes up.
LEMMA MenuMoved ==
  ASSUME NEW u, Sound(u), Asked(u), NEW i \in Nat, NEW right \in BOOLEAN,
         u.active # <<>> /\ u.at = ActiveMenu(u) => i <= Len(Items(ActiveMenu(u)))
  PROVE  LET v == MenuMotion(u, i, right)
         IN  Sound(v) /\ Asked(v) /\ v.loops = u.loops
<1> DEFINE item == IF u.at = ActiveMenu(u) THEN i ELSE 0
           s == [u EXCEPT !.item = item]
           sub == ActiveItem(s).sub
           p == PopUpMenu(s, sub)
           v == [p EXCEPT !.item = 0]
<1>1. u \in UiType
  BY DEF Sound
<1>2. \/ MenuMotion(u, i, right) = u
      \/ u.active # <<>> /\ MenuMotion(u, i, right) = s
      \/ /\ u.active # <<>> /\ s.item # 0 /\ ActiveItem(s).func = "menu" /\ CanPopUp(s, sub)
         /\ MenuMotion(u, i, right) = v
  BY DEF MenuMotion
<1>3. item \in Nat /\ (u.active # <<>> /\ item # 0 => item <= Len(Items(ActiveMenu(u))))
  OBVIOUS
<1> HIDE DEF item
<1>4. s \in UiType
  BY ZenonT(60), <1>1, <1>3 DEF UiType
<1>5. /\ Kept(u, s) /\ s.active = u.active /\ s.depth = u.depth /\ s.mapped = u.mapped
      /\ s.up = u.up /\ s.item = item
  BY <1>1 DEF UiType, Kept, Still
<1> HIDE DEF s
<1>6. u.active # <<>> => Sound(s) /\ Asked(s)
  <2>1. SUFFICES ASSUME u.active # <<>> PROVE Sound(s) /\ Asked(s)
    OBVIOUS
  <2>2. Chain(s)
    BY <1>3, <1>5, <2>1 DEF Sound, Chain, Chained, ActiveMenu
  <2>3. LoopsFit(s.loops) /\ Drags(s) /\ Asked(s)
    BY <1>5 DEF Sound, Kept, Still, Drags, Settled, Asked, InMenu
  <2>4. QED
    BY <1>4, <2>2, <2>3 DEF Sound
<1>7. CASE MenuMotion(u, i, right) = u
  BY <1>7
<1>8. CASE u.active # <<>> /\ MenuMotion(u, i, right) = s
  BY <1>5, <1>6, <1>8 DEF Kept
<1>9. CASE /\ u.active # <<>> /\ s.item # 0 /\ ActiveItem(s).func = "menu" /\ CanPopUp(s, sub)
           /\ MenuMotion(u, i, right) = v
  <2>1. Sound(s) /\ Asked(s) /\ s.active # <<>>
    BY <1>5, <1>6, <1>9
  <2>2. sub \in Menu /\ sub \in MenuRoot /\ ~Pinned(sub)
    <3>1. ActiveItem(s) \in Action
      BY <1>9, <2>1, ActiveItemIs
    <3>2. sub \in Menu
      BY <1>9, <3>1 DEF Action
    <3>3. QED
      BY <3>2 DEF MenuRoot, Pinned
  <2> HIDE DEF sub
  <2>3. /\ p \in UiType /\ Kept(s, p) /\ Chained(p) /\ p.active # <<>>
        /\ Head(p.active) = Head(s.active)
    BY <1>9, <2>1, <2>2, PopsUp
  <2> HIDE DEF p
  <2>4. v \in UiType
    BY ZenonT(60), <2>3 DEF UiType
  <2>5. /\ Kept(p, v) /\ v.active = p.active /\ v.depth = p.depth /\ v.mapped = p.mapped
        /\ v.up = p.up /\ v.item = 0
    BY <2>3 DEF UiType, Kept, Still
  <2> HIDE DEF v
  <2>6. Kept(s, v)
    BY <2>3, <2>5 DEF Kept, Still
  <2>7. Chain(v)
    BY <2>3, <2>5 DEF Chain, Chained
  <2>8. LoopsFit(v.loops) /\ Drags(v)
    BY <2>1, <2>6 DEF Sound, Kept, Still, Drags, Settled
  <2>9. Asked(v)
    BY <2>1, <2>3, <2>5, <2>6 DEF Asked, Kept, Still, InMenu
  <2>10. QED
    BY <1>5, <1>9, <2>4, <2>6, <2>7, <2>8, <2>9 DEF Sound, Kept
<1>10. QED
  BY <1>2, <1>7, <1>8, <1>9

(***************************************************************************)
(* Loops that end.                                                          *)
(***************************************************************************)

\* Nothing is left of a function.
LEMMA NoItems ==
  ASSUME NEW u, NEW w, NEW ctx, NEW from
  PROVE  ExecuteItems(u, <<>>, w, ctx, from) = u
<1> DEFINE first == [s |-> u, stop |-> FALSE]
           fs == <<>>
           V(g, n) == IF n = 0 THEN first ELSE ExecuteItem(u, g[n - 1], fs[n], w, ctx, from)
           U(g) == Upto(g, u, fs, w, ctx, from)
           g == CHOOSE x : U(x)
           h == [n \in 0 .. 0 |-> first]
<1>1. Len(fs) = 0 /\ \A n \in 0 .. 0 : n = 0
  OBVIOUS
<1>2. \A x : U(x) <=> x = [n \in 0 .. 0 |-> V(x, n)]
  BY <1>1 DEF Upto
<1>3. \A x : [n \in 0 .. 0 |-> V(x, n)] = h
  BY <1>1
<1> HIDE DEF h, V
<1>4. \A x : U(x) <=> x = h
  BY <1>2, <1>3
<1> HIDE DEF U
<1>5. g = h
  BY <1>4
<1>6. g[0] = first
  <2> HIDE DEF g, first
  <2>1. g = [n \in 0 .. 0 |-> first] /\ 0 \in 0 .. 0
    BY <1>5 DEF h
  <2>2. QED
    BY <2>1
<1>7. ExecuteItems(u, fs, w, ctx, from) = g[Len(fs)].s
  BY DEF ExecuteItems, Upto, U
<1>8. QED
  BY <1>1, <1>6, <1>7

\* Without a loop of f.move or f.resize nothing is dragged.
LEMMA OneLoopLess ==
  ASSUME NEW u, Sound(u), u.loops # <<>>, Dragging(u.loops) => Settled(u)
  PROVE  LET v == [u EXCEPT !.loops = Front(u.loops)]
         IN  /\ Sound(v) /\ MenusKept(u, v) /\ v.loops = Front(u.loops) /\ ~Dragging(v.loops)
             /\ Settled(v) /\ v.at = u.at /\ v.cancel = u.cancel
             /\ v.context = u.context /\ v.win = u.win
             /\ Len(v.loops) = Len(u.loops) - 1 /\ Still(u, v)
<1> DEFINE r == Front(u.loops)
           v == [u EXCEPT !.loops = r]
<1>1. u \in UiType /\ LoopsFit(u.loops)
  BY DEF Sound
<1>2. r \in Seq(LoopType) /\ LoopsFit(r) /\ ~Dragging(r) /\ Len(r) = Len(u.loops) - 1
  BY <1>1, LoopsAre
<1>3. Settled(u)
  BY DEF Sound, Drags
<1> HIDE DEF r
<1>4. v \in UiType
  <2>1. u \in UiType /\ r \in Seq(LoopType)
    BY <1>1, <1>2
  <2>2. QED
    BY ZenonT(60), <2>1 DEF UiType
<1>5. /\ MenusKept(u, v) /\ v.loops = r /\ v.drag = u.drag /\ v.resize = u.resize
      /\ v.size = u.size /\ v.at = u.at /\ v.cancel = u.cancel
      /\ v.context = u.context /\ v.win = u.win /\ Still(u, v)
  BY <1>1 DEF UiType, MenusKept, Still
<1> HIDE DEF v
<1>6. Settled(v)
  BY <1>3, <1>5 DEF Settled
<1>7. Chain(v)
  BY <1>5 DEF Chain, Chained, Sound, MenusKept, ActiveMenu
<1>8. QED
  BY <1>2, <1>4, <1>5, <1>6, <1>7 DEF Sound, Drags, r, v

\* The handler that a loop was called by goes on.
LEMMA RestDone ==
  ASSUME NEW u, NEW e, Sound(e), Asked(e), NEW b
  PROVE  LET v == AfterRest(u, e, b)
         IN  Sound(v) /\ Asked(v) /\ Still(e, v) /\ (Fresh(e) => Fresh(v))
<1> DEFINE f == Finished(e)
           l == Last(u.loops)
           d == IF l.loop = "menu" THEN e ELSE f
<1>1. e \in UiType
  BY DEF Sound
<1>2. Sound(f) /\ Asked(f) /\ Still(e, f) /\ (Fresh(e) => Fresh(f))
  <2>1. f \in UiType /\ Kept(e, f) /\ MenusKept(e, f)
    BY <1>1, FinishedIs
  <2> HIDE DEF f
  <2>2. QED
    BY <2>1, SoundKept DEF Kept
<1> HIDE DEF f
<1>3. Sound(d) /\ Asked(d) /\ Still(e, d) /\ (Fresh(e) => Fresh(d))
  BY <1>2 DEF Still
<1>4. AfterRest(u, e, b)
        = IF Len(e.loops) = Len(u.loops) THEN e
          ELSE IF l.from = "release" THEN AfterChoice(d, b)
          ELSE d
  BY DEF AfterRest, f
<1> HIDE DEF d, l
<1>5. LET v == AfterChoice(d, b)
      IN  Sound(v) /\ Asked(v) /\ Still(d, v) /\ v.loops = d.loops
  BY <1>3, AfterChoiceIs
<1>6. QED
  BY <1>3, <1>4, <1>5 DEF Still, Fresh

\* UpdateMenu ends: there is no menu, or it is being given up.
LEMMA MenuEnds ==
  ASSUME NEW u, Sound(u), Asked(u), MenuLoopEnds(u), NEW b
  PROVE  LET v == EndLoop(u, b)
         IN  Sound(v) /\ Asked(v) /\ v.loops = <<>> /\ v.at = u.at /\ Still(u, v)
<1> DEFINE l == Last(u.loops)
           w == [u EXCEPT !.loops = Front(u.loops)]
<1>1. u \in UiType /\ LoopsFit(u.loops) /\ u.loops # <<>> /\ ~Dragging(u.loops)
  BY DEF Sound, MenuLoopEnds, Dragging
<1>2. l.rest = <<>> /\ l.loop = "menu" /\ Front(u.loops) = <<>> /\ Len(u.loops) \in 1 .. 2
  BY <1>1, LoopsAre DEF MenuLoop
<1>3. /\ Sound(w) /\ MenusKept(u, w) /\ w.loops = <<>> /\ w.at = u.at /\ w.cancel = u.cancel
      /\ w.context = u.context /\ w.win = u.win /\ Still(u, w)
  BY <1>1, <1>2, OneLoopLess
<1>4. EndLoop(u, b) = AfterRest(u, w, b)
  <2>1. EndLoop(u, b)
        = AfterRest(u, ExecuteItems([u EXCEPT !.loops = Front(@)], l.rest, l.win, "window", l.from), b)
    BY DEF EndLoop
  <2>2. w = [u EXCEPT !.loops = Front(@)]
    BY <1>1 DEF UiType
  <2> HIDE DEF w, l
  <2>3. ExecuteItems(w, l.rest, l.win, "window", l.from) = w
    BY <1>2, NoItems
  <2>4. QED
    BY <2>1, <2>2, <2>3
<1> HIDE DEF w
<1>5. Asked(w)
  <2>1. ~InMenu(w)
    BY <1>3, InMenuIs DEF Sound
  <2>2. u.active = <<>> \/ u.cancel
    BY DEF MenuLoopEnds
  <2>3. QED
    BY <1>1, <1>3, <2>1, <2>2 DEF Asked, MenusKept, Dragging
<1>6. Sound(AfterRest(u, w, b)) /\ Asked(AfterRest(u, w, b)) /\ Still(w, AfterRest(u, w, b))
  BY <1>3, <1>5, RestDone
<1>7. AfterRest(u, w, b) = w \/ AfterRest(u, w, b) = AfterChoice(w, b)
  BY <1>2 DEF AfterRest
<1>8. AfterChoice(w, b).loops = <<>> /\ AfterChoice(w, b).at = u.at
  BY <1>3, AfterChoiceIs
<1>9. QED
  BY <1>3, <1>4, <1>6, <1>7, <1>8 DEF Still

\* An UpdateMenu looks whether it has ended.
LEMMA LoopLooked ==
  ASSUME NEW u, Sound(u), Asked(u), NEW b
  PROVE  LET v == AfterLoop(u, b)
         IN  Sound(v) /\ Asked(v) /\ v.at = u.at /\ (v.loops = u.loops \/ v.loops = <<>>)
             /\ Still(u, v)
<1> DEFINE s == [u EXCEPT !.fromWin = FALSE]
<1>1. u \in UiType
  BY DEF Sound
<1>2. s \in UiType
  BY ZenonT(60), <1>1 DEF UiType
<1>3. Kept(u, s) /\ MenusKept(u, s)
  BY <1>1 DEF UiType, Kept, Still, MenusKept
<1>4. AfterLoop(u, b) = IF MenuLoopEnds(u) THEN EndLoop(s, b) ELSE u
  BY DEF AfterLoop
<1> HIDE DEF s
<1>5. CASE MenuLoopEnds(u)
  <2>1. Sound(s) /\ Asked(s)
    BY <1>2, <1>3, SoundKept
  <2>2. MenuLoopEnds(s)
    BY <1>3, <1>5 DEF MenuLoopEnds, Kept, Still, MenusKept
  <2>3. LET v == EndLoop(s, b) IN Sound(v) /\ Asked(v) /\ v.loops = <<>> /\ v.at = s.at /\ Still(s, v)
    BY <2>1, <2>2, MenuEnds
  <2>4. QED
    BY <1>3, <1>4, <1>5, <2>3 DEF Kept, Still
<1>6. CASE ~MenuLoopEnds(u)
  BY <1>4, <1>6 DEF Still
<1>7. QED
  BY <1>5, <1>6

\* f.move or f.resize ends, with nothing dragged any more.
LEMMA DragLoopEnds ==
  ASSUME NEW u, Sound(u), Asked(u), Dragging(u.loops), Settled(u), NEW b
  PROVE  LET v == EndLoops(u, b)
         IN  Sound(v) /\ Asked(v) /\ Still(u, v) /\ Fresh(v)
<1> DEFINE l == Last(u.loops)
           w == [u EXCEPT !.loops = Front(u.loops)]
           e == ExecuteItems(w, l.rest, l.win, "window", l.from)
<1>1. u \in UiType /\ LoopsFit(u.loops) /\ u.loops # <<>> /\ u.active = <<>>
  BY DEF Sound, Dragging, Asked
<1>2. l \in DragLoop
  BY <1>1, LoopsAre
<1>3. l.rest \in Seq(Func) /\ l.win \in Window /\ l.from \in From
  BY <1>2 DEF DragLoop, LoopType, From
<1>4. Sound(w) /\ MenusKept(u, w) /\ ~Dragging(w.loops) /\ Still(u, w)
  BY <1>1, OneLoopLess
<1>5. EndLoop(u, b) = AfterRest(u, e, b)
  <2>1. EndLoop(u, b)
        = AfterRest(u, ExecuteItems([u EXCEPT !.loops = Front(@)], l.rest, l.win, "window", l.from), b)
    BY DEF EndLoop
  <2>2. w = [u EXCEPT !.loops = Front(@)]
    BY <1>1 DEF UiType
  <2> HIDE DEF w, l
  <2>3. QED
    BY <2>1, <2>2
<1> HIDE DEF w, l
<1>6. Asked(w)
  BY <1>1, <1>4 DEF Asked, MenusKept
<1>7. Knows("window", l.win) /\ "window" \in Context /\ l.win \in Window \cup {None}
  BY <1>3 DEF Knows, Context
<1>8. Done(w, e)
  BY <1>3, <1>4, <1>6, <1>7, ItemsExecuted
<1> HIDE DEF e
<1>9. LET v == AfterRest(u, e, b)
      IN  Sound(v) /\ Asked(v) /\ Still(e, v) /\ Fresh(v)
  BY <1>8, RestDone DEF Done
<1> DEFINE a == AfterRest(u, e, b)
<1>10. EndLoops(u, b) = AfterLoop(a, b)
  BY <1>5 DEF EndLoops
<1> HIDE DEF a
<1>11. LET v == AfterLoop(a, b)
       IN  /\ Sound(v) /\ Asked(v) /\ Still(a, v)
           /\ v.loops = a.loops \/ v.loops = <<>>
  BY <1>9, LoopLooked DEF a
<1>12. Still(u, e) /\ Still(e, a) /\ Fresh(a)
  BY <1>4, <1>8, <1>9 DEF Done, Still, a
<1>13. QED
  BY <1>10, <1>11, <1>12 DEF Still, Fresh, Dragging

\* The loop of f.move or f.resize is the same, with another outline.
LEMMA OutlineIsSet ==
  ASSUME NEW u, Sound(u), Asked(u), Dragging(u.loops), NEW d \in DragLoop,
         d.loop = Last(u.loops).loop, d.win = Last(u.loops).win
  PROVE  LET r == [u.loops EXCEPT ![Len(u.loops)] = d]
             v == [u EXCEPT !.loops = r]
         IN  /\ v \in UiType /\ Sound(v) /\ Asked(v) /\ MenusKept(u, v) /\ v.loops = r
             /\ Dragging(r) /\ Last(r) = d /\ v.drag = u.drag /\ v.resize = u.resize
             /\ v.size = u.size /\ r \in Seq(LoopType)
             /\ Still(u, v) /\ Len(r) = Len(u.loops)
<1> DEFINE r == [u.loops EXCEPT ![Len(u.loops)] = d]
           v == [u EXCEPT !.loops = r]
<1>1. u \in UiType /\ LoopsFit(u.loops) /\ u.active = <<>>
  BY DEF Sound, Asked
<1>2. LoopsFit(r) /\ Dragging(r) /\ Last(r) = d /\ Len(r) = Len(u.loops)
  BY <1>1, DragChanges
<1>3. r \in Seq(LoopType)
  BY <1>2, LoopsAre DEF Dragging
<1> HIDE DEF r
<1>4. v \in UiType
  <2>1. u \in UiType
    BY <1>1
  <2>2. QED
    BY ZenonT(60), <1>3, <2>1 DEF UiType
<1>5. /\ MenusKept(u, v) /\ v.loops = r /\ v.drag = u.drag /\ v.resize = u.resize
      /\ v.size = u.size /\ Still(u, v)
  BY <1>1 DEF UiType, MenusKept, Still
<1> HIDE DEF v
<1>6. Chain(v)
  BY <1>5 DEF Chain, Chained, Sound, MenusKept, ActiveMenu
<1>7. Drags(v)
  BY <1>2, <1>5 DEF Sound, Drags, Settled
<1>8. Asked(v)
  BY <1>1, <1>5 DEF Asked, MenusKept
<1>9. QED
  BY <1>2, <1>3, <1>4, <1>5, <1>6, <1>7, <1>8 DEF Sound, r, v

\* What a state of a drag becomes when only the windows are somewhere else.
LEMMA Redrawn ==
  ASSUME NEW u, Sound(u), Asked(u), Dragging(u.loops), NEW v \in UiType, MenusKept(u, v),
         v.loops = u.loops, Drags(v)
  PROVE  Sound(v) /\ Asked(v) /\ Dragging(v.loops)
<1>1. u.active = <<>>
  BY DEF Asked
<1>2. Chain(v)
  BY DEF Chain, Chained, Sound, MenusKept, ActiveMenu
<1>3. Asked(v)
  BY <1>1 DEF Asked, MenusKept
<1>4. QED
  BY <1>2, <1>3 DEF Sound

\* The loop of a drag, and what may be dragged in it.
LEMMA DragIs ==
  ASSUME NEW u, Sound(u), Dragging(u.loops)
  PROVE  /\ Last(u.loops) \in DragLoop /\ u.loops # <<>> /\ u \in UiType
         /\ Last(u.loops).loop # "resize" => u.resize = None
         /\ Last(u.loops).loop # "move" => u.drag = None
         /\ Last(u.loops).win \in Window /\ Last(u.loops).orig \in Place
         /\ Last(u.loops).now \in Place
<1>1. u \in UiType /\ u.loops # <<>> /\ LoopsFit(u.loops)
  BY DEF Sound, Dragging
<1>2. Last(u.loops) \in DragLoop
  BY <1>1, LoopsAre
<1>3. /\ Last(u.loops).loop # "resize" => u.resize = None
      /\ Last(u.loops).loop # "move" => u.drag = None
  BY DEF Sound, Drags, Settled
<1>4. QED
  BY <1>1, <1>2, <1>3 DEF DragLoop

\* A press in the titlebar, where the function was called: it counts no more.
LEMMA TitlePressed ==
  ASSUME NEW u, Sound(u), Asked(u), Dragging(u.loops)
  PROVE  LET v == [u EXCEPT !.loops[Len(u.loops)].title = FALSE]
         IN  /\ Sound(v) /\ Asked(v) /\ Len(v.loops) = Len(u.loops)
             /\ Shows(u) => Shows(v)
<1> DEFINE l == Last(u.loops)
           d == [l EXCEPT !.title = FALSE]
           r == [u.loops EXCEPT ![Len(u.loops)] = d]
<1>1. l \in DragLoop /\ u \in UiType /\ u.loops # <<>> /\ LoopsFit(u.loops)
  BY DragIs DEF Sound
<1>2. l = u.loops[Len(u.loops)] /\ Len(u.loops) \in DOMAIN u.loops
  <2>1. l = u.loops[Len(u.loops)] /\ Len(u.loops) \in 1 .. 2
    BY <1>1, LoopsAre
  <2>2. DOMAIN u.loops = 1 .. Len(u.loops)
    BY LenProperties DEF LoopsFit, Sound
  <2>3. Len(u.loops) \in 1 .. Len(u.loops)
    <3> DEFINE n == Len(u.loops)
    <3>1. n \in 1 .. 2
      BY <2>1
    <3> HIDE DEF n
    <3>2. n \in 1 .. n
      BY <3>1
    <3>3. QED
      BY <3>2 DEF n
  <2> HIDE DEF l
  <2>4. QED
    BY <2>1, <2>2, <2>3
<1>3. [u EXCEPT !.loops[Len(u.loops)].title = FALSE] = [u EXCEPT !.loops = r]
  <2>1. [u EXCEPT !.loops[Len(u.loops)].title = FALSE]
          = [u EXCEPT !.loops = [u.loops EXCEPT ![Len(u.loops)] =
                                   [u.loops[Len(u.loops)] EXCEPT !.title = FALSE]]]
    BY <1>1, <1>2 DEF UiType
  <2> HIDE DEF l
  <2>2. QED
    BY <1>2, <2>1
<1> HIDE DEF l
<1>4. d \in DragLoop /\ d.loop = l.loop /\ d.win = l.win /\ d.orig = l.orig
  BY <1>1 DEF DragLoop, LoopType
<1> HIDE DEF d
<1> DEFINE v == [u EXCEPT !.loops = r]
<1>5. /\ Sound(v) /\ Asked(v) /\ v.loops = r /\ Last(r) = d /\ v.drag = u.drag
      /\ Still(u, v) /\ Len(r) = Len(u.loops) /\ Dragging(r)
  BY <1>4, OutlineIsSet DEF l
<1> HIDE DEF v, r
<1>6. Shows(u) => Shows(v)
  BY <1>4, <1>5 DEF Shows, Fresh, Still, l
<1>7. QED
  BY <1>3, <1>5, <1>6 DEF v

\* A press while a frame is moved.
LEMMA MovePressed ==
  ASSUME NEW u, Sound(u), Asked(u), Dragging(u.loops), Last(u.loops).loop = "move", NEW b
  PROVE  LET v == MovePress(u, b)
             l == Last(u.loops)
         IN  /\ Sound(v) /\ Asked(v)
             /\ Shows(u) => Shows(v)
             /\ Shows(u) /\ ~u.fromWin =>
                  \/ Len(v.loops) = Len(u.loops)
                  \/ v.shown[l.win] = l.orig /\ v.frame = u.frame
<1> DEFINE l == Last(u.loops)
           back == IF OpaqueMove THEN [u.shown EXCEPT ![l.win] = l.orig] ELSE u.shown
           down == IF OpaqueMove THEN u.shown ELSE [u.shown EXCEPT ![l.win] = l.now]
           g == [u EXCEPT !.drag = None, !.size = FALSE, !.pointer = TRUE, !.reset = FALSE,
                          !.shown = back]
           p == [u EXCEPT !.drag = None, !.size = FALSE, !.shown = down]
           c == CancelPress(u)
           n == [c EXCEPT !.moved = FALSE, !.reset = FALSE]
           t == [u EXCEPT !.loops[Len(u.loops)].title = FALSE]
<1>1. u \in UiType /\ u.resize = None /\ l.win \in Window /\ l.orig \in Place /\ l.now \in Place
  BY DragIs
<1>2. GivenUp(u, l) = g /\ PutDown(u, l) = p
  <2>1. u.shown = [u.shown EXCEPT ![l.win] = u.shown[l.win]]
    BY <1>1 DEF UiType
  <2> HIDE DEF l
  <2>2. QED
    BY <1>1, <2>1 DEF GivenUp, PutDown, UiType
<1>3. \/ MovePress(u, b) = EndLoops(g, b)
      \/ MovePress(u, b) = t
      \/ u.fromWin /\ MovePress(u, b) = EndLoops(p, b)
      \/ (u.fromWin \/ u.drag = None) /\ MovePress(u, b) = EndLoops(n, b)
  <2>1. \/ MovePress(u, b) = EndLoops(GivenUp(u, l), b)
        \/ MovePress(u, b) = t
        \/ u.fromWin /\ MovePress(u, b) = EndLoops(PutDown(u, l), b)
        \/ (u.fromWin \/ u.drag = None) /\ MovePress(u, b) = EndLoops(n, b)
    BY DEF MovePress
  <2> HIDE DEF g, p, n, t, l
  <2>2. QED
    BY <1>2, <2>1
<1>4. back \in [Window -> Place] /\ down \in [Window -> Place]
  <2> HIDE DEF l
  <2>1. QED
    BY <1>1 DEF UiType
<1>10. Shows(u) => back[l.win] = l.orig
  <2>1. ~OpaqueMove /\ Shows(u) => u.shown[l.win] = l.orig
    BY DEF Shows, Fresh
  <2> HIDE DEF l
  <2>2. CASE OpaqueMove
    BY <1>1, <2>2 DEF UiType
  <2>3. CASE ~OpaqueMove
    BY <2>1, <2>3
  <2>4. QED
    BY <2>2, <2>3
<1> HIDE DEF back, down
<1>5. Sound(t) /\ Asked(t) /\ Len(t.loops) = Len(u.loops) /\ (Shows(u) => Shows(t))
  BY TitlePressed
<1>6. LET v == EndLoops(g, b)
      IN  /\ Sound(v) /\ Asked(v) /\ Fresh(v)
          /\ Shows(u) => v.shown[l.win] = l.orig /\ v.frame = u.frame
  <2>1. g \in UiType
    <3>1. u \in UiType
      BY <1>1
    <3>2. QED
      BY ZenonT(60), <1>4, <3>1 DEF UiType
  <2>2. /\ MenusKept(u, g) /\ g.loops = u.loops /\ g.drag = None /\ g.resize = u.resize
        /\ g.size = FALSE /\ g.shown = back /\ g.frame = u.frame
    BY <1>1 DEF UiType, MenusKept
  <2> HIDE DEF g
  <2>3. Settled(g) /\ Drags(g)
    BY <1>1, <2>2 DEF Settled, Drags
  <2>4. Sound(g) /\ Asked(g) /\ Dragging(g.loops)
    BY <2>1, <2>2, <2>3, Redrawn
  <2>5. LET v == EndLoops(g, b) IN Sound(v) /\ Asked(v) /\ Still(g, v) /\ Fresh(v)
    BY <2>3, <2>4, DragLoopEnds
  <2> HIDE DEF l
  <2>6. QED
    BY <1>10, <2>2, <2>5 DEF Still
<1>7. LET v == EndLoops(p, b) IN Sound(v) /\ Asked(v) /\ Fresh(v)
  <2>1. p \in UiType
    <3>1. u \in UiType
      BY <1>1
    <3>2. QED
      BY ZenonT(60), <1>4, <3>1 DEF UiType
  <2>2. /\ MenusKept(u, p) /\ p.loops = u.loops /\ p.drag = None /\ p.resize = u.resize
        /\ p.size = FALSE
    BY <1>1 DEF UiType, MenusKept
  <2> HIDE DEF p
  <2>3. Settled(p) /\ Drags(p)
    BY <1>1, <2>2 DEF Settled, Drags
  <2>4. Sound(p) /\ Asked(p) /\ Dragging(p.loops)
    BY <2>1, <2>2, <2>3, Redrawn
  <2>5. QED
    BY <2>3, <2>4, DragLoopEnds
<1>8. LET v == EndLoops(n, b)
      IN  /\ Sound(v) /\ Asked(v) /\ Fresh(v)
          /\ Shows(u) /\ u.drag = None => v.shown[l.win] = l.orig /\ v.frame = u.frame
  <2>1. /\ Sound(c) /\ Asked(c) /\ c.loops = u.loops /\ Settled(c)
        /\ c.frame = u.frame /\ (u.drag = None => c.shown = u.shown)
    BY Cancelled
  <2> HIDE DEF c
  <2>2. c \in UiType
    BY <2>1 DEF Sound
  <2>3. n \in UiType
    BY ZenonT(60), <2>2 DEF UiType
  <2>4. Kept(c, n) /\ MenusKept(c, n)
    BY <2>2 DEF UiType, Kept, Still, MenusKept
  <2> HIDE DEF n
  <2>5. Sound(n) /\ Asked(n) /\ Dragging(n.loops) /\ Settled(n)
    BY <2>1, <2>3, <2>4, SoundKept DEF Kept, Still, Settled
  <2>6. LET v == EndLoops(n, b) IN Sound(v) /\ Asked(v) /\ Still(n, v) /\ Fresh(v)
    BY <2>5, DragLoopEnds
  <2>7. Shows(u) /\ u.drag = None => u.shown[l.win] = l.orig
    BY DEF Shows, Fresh
  <2> HIDE DEF l
  <2>8. QED
    BY <2>1, <2>4, <2>6, <2>7 DEF Kept, Still
<1> HIDE DEF g, p, n, t
<1>9. QED
  <2>1. \A v : Fresh(v) => Shows(v)
    BY DEF Shows
  <2> HIDE DEF l
  <2>2. QED
    BY <1>3, <1>5, <1>6, <1>7, <1>8, <2>1 DEF l

\* A release while a frame is moved.
LEMMA MoveReleased ==
  ASSUME NEW u, Sound(u), Asked(u), Dragging(u.loops), Last(u.loops).loop = "move", NEW b
  PROVE  LET v == MoveRelease(u, b)
         IN  Sound(v) /\ Asked(v) /\ (Shows(u) => Shows(v))
<1> DEFINE h == HandleButtonRelease(u, b)
           x == [h EXCEPT !.size = FALSE]
<1>1. /\ Sound(h) /\ Asked(h) /\ h.loops = u.loops /\ h.drag = None /\ h.resize = None
  BY Released
<1> HIDE DEF h
<1>2. h \in UiType
  BY <1>1 DEF Sound
<1>3. x \in UiType
  BY ZenonT(60), <1>2 DEF UiType
<1>4. /\ MenusKept(h, x) /\ x.loops = h.loops /\ x.drag = h.drag /\ x.resize = h.resize
      /\ x.size = FALSE
  BY <1>2 DEF UiType, MenusKept
<1>5. MoveRelease(u, b) = IF u.fromWin THEN u ELSE EndLoops(x, b)
  BY DEF MoveRelease, h
<1> HIDE DEF x
<1>6. Settled(x) /\ Drags(x)
  BY <1>1, <1>4 DEF Settled, Drags
<1>7. Sound(x) /\ Asked(x) /\ Dragging(x.loops)
  BY <1>1, <1>3, <1>4, <1>6, Redrawn
<1>8. LET v == EndLoops(x, b) IN Sound(v) /\ Asked(v) /\ Fresh(v)
  BY <1>6, <1>7, DragLoopEnds
<1>9. QED
  BY <1>5, <1>8 DEF Shows

\* A movement while a frame is moved.
LEMMA MoveMoved ==
  ASSUME NEW u, Sound(u), Asked(u), Dragging(u.loops), Last(u.loops).loop = "move",
         NEW p \in Place
  PROVE  LET v == MoveMotion(u, p)
         IN  /\ Sound(v) /\ Asked(v) /\ Len(v.loops) = Len(u.loops)
             /\ Shows(u) => Shows(v)
<1> DEFINE l == Last(u.loops)
           d == [l EXCEPT !.now = p]
           r == [u.loops EXCEPT ![Len(u.loops)] = d]
           x == [u EXCEPT !.loops = r]
           shown == IF OpaqueMove THEN [u.shown EXCEPT ![l.win] = p] ELSE u.shown
           v == [x EXCEPT !.drag = l.win, !.moved = TRUE, !.shown = shown]
<1>1. /\ l \in DragLoop /\ u \in UiType /\ l.win \in Window
      /\ l = u.loops[Len(u.loops)] /\ u.resize = None
  BY DragIs, LoopsAre DEF Sound
<1>2. MoveMotion(u, p) = v
  <2>1. u.shown = [u.shown EXCEPT ![l.win] = u.shown[l.win]]
    BY <1>1 DEF UiType
  <2>2. r = [u.loops EXCEPT ![Len(u.loops)].now = p]
    BY <1>1
  <2>3. MoveMotion(u, p) = [u EXCEPT !.drag = l.win, !.moved = TRUE, !.loops = r, !.shown = shown]
    <3> HIDE DEF r
    <3>1. MoveMotion(u, p) = [u EXCEPT !.drag = l.win, !.moved = TRUE,
                                       !.loops = [@ EXCEPT ![Len(u.loops)].now = p],
                                       !.shown[l.win] = IF OpaqueMove THEN p ELSE @]
      BY <1>1 DEF MoveMotion, UiType
    <3> HIDE DEF l
    <3>2. QED
      BY <1>1, <2>1, <2>2, <3>1 DEF UiType
  <2> HIDE DEF r, l, shown
  <2>4. QED
    BY <1>1, <2>3 DEF UiType
<1>3. shown \in [Window -> Place]
  <2> HIDE DEF l
  <2>1. QED
    BY <1>1 DEF UiType
<1>4. d \in DragLoop /\ d.loop = l.loop /\ d.win = l.win /\ d.orig = l.orig
  <2> HIDE DEF l
  <2>1. QED
    BY <1>1 DEF DragLoop, LoopType
<1>10. ~OpaqueMove => shown = u.shown
  OBVIOUS
<1> HIDE DEF d, shown
<1>5. /\ x \in UiType /\ Sound(x) /\ Asked(x) /\ MenusKept(u, x) /\ x.loops = r
      /\ Dragging(r) /\ Last(r) = d /\ x.resize = u.resize
      /\ Len(r) = Len(u.loops)
  BY <1>4, OutlineIsSet
<1> HIDE DEF x, r
<1>6. v \in UiType
  <2>1. x \in UiType /\ l.win \in Window
    BY <1>1, <1>5
  <2> DEFINE w == l.win
             z == [x EXCEPT !.drag = w, !.moved = TRUE, !.shown = shown]
  <2>2. w \in Window
    BY <2>1
  <2>3. v = z
    OBVIOUS
  <2> HIDE DEF w, v
  <2>4. z \in UiType
    BY ZenonT(60), <1>3, <2>1, <2>2 DEF UiType
  <2>5. QED
    BY <2>3, <2>4
<1>7. /\ MenusKept(x, v) /\ v.loops = x.loops /\ v.drag = l.win /\ v.resize = x.resize
      /\ v.shown = shown
  <2> HIDE DEF l
  <2>1. QED
    BY <1>5 DEF UiType, MenusKept
<1> HIDE DEF v
<1>8. Drags(v)
  BY <1>1, <1>4, <1>5, <1>7 DEF Drags
<1>9. Sound(v) /\ Asked(v)
  BY <1>5, <1>6, <1>7, <1>8, Redrawn
<1>11. Shows(u) => Shows(v)
  <2>1. v.drag # None
    BY <1>1, <1>7, InteractionAssumption
  <2>2. ASSUME Shows(u), ~OpaqueMove PROVE Fresh(v)
    <3>1. u.shown[l.win] = l.orig
      BY <2>2 DEF Shows, Fresh
    <3> HIDE DEF l
    <3>2. QED
      BY <1>4, <1>5, <1>7, <1>10, <2>2, <3>1 DEF Fresh
  <2>3. QED
    BY <2>1, <2>2 DEF Shows
<1>12. QED
  BY <1>2, <1>5, <1>7, <1>9, <1>11

\* A movement while a frame is resized.
LEMMA ResizeMoved ==
  ASSUME NEW u, Sound(u), Asked(u), Dragging(u.loops), Last(u.loops).loop # "move", NEW p \in Place
  PROVE  LET v == ResizeMotion(u, p)
         IN  Sound(v) /\ Asked(v) /\ Shows(v) /\ Len(v.loops) = Len(u.loops)
<1> DEFINE l == Last(u.loops)
           d == [l EXCEPT !.now = p]
           r == [u.loops EXCEPT ![Len(u.loops)] = d]
           x == [u EXCEPT !.loops = r]
           moved == u.moved \/ l.loop = "resize"
           s == [x EXCEPT !.moved = moved]
           frame == [s.frame EXCEPT ![l.win] = p]
           shown == [s.shown EXCEPT ![l.win] = p]
           v == [s EXCEPT !.frame = frame, !.shown = shown]
<1>1. /\ l \in DragLoop /\ u \in UiType /\ l.win \in Window /\ l = u.loops[Len(u.loops)]
  BY DragIs, LoopsAre DEF Sound
<1>2. ResizeMotion(u, p) = IF OpaqueResize THEN v ELSE s
  <2>1. r = [u.loops EXCEPT ![Len(u.loops)].now = p]
    BY <1>1
  <2>2. s = [u EXCEPT !.loops[Len(u.loops)].now = p, !.moved = @ \/ l.loop = "resize"]
    <3>1. [u EXCEPT !.loops[Len(u.loops)].now = p]
            = [u EXCEPT !.loops = [u.loops EXCEPT ![Len(u.loops)].now = p]]
      BY <1>1 DEF UiType
    <3>2. [u EXCEPT !.loops[Len(u.loops)].now = p] = x
      BY <2>1, <3>1
    <3>3. x.moved = u.moved
      BY <1>1 DEF UiType
    <3> HIDE DEF x, r, l
    <3>4. QED
      BY <3>2, <3>3
  <2> HIDE DEF l, s
  <2>3. ResizeMotion(u, p)
        = IF OpaqueResize THEN [s EXCEPT !.frame[l.win] = p, !.shown[l.win] = p] ELSE s
    BY <2>2 DEF ResizeMotion, l
  <2>4. [s EXCEPT !.frame[l.win] = p, !.shown[l.win] = p] = v
    OBVIOUS
  <2>5. QED
    BY <2>3, <2>4
<1>3. d \in DragLoop /\ d.loop = l.loop /\ d.win = l.win
  <2> HIDE DEF l
  <2>1. QED
    BY <1>1 DEF DragLoop, LoopType
<1>14. d.loop # "move"
  BY <1>3
<1> HIDE DEF d
<1>4. /\ x \in UiType /\ Sound(x) /\ Asked(x) /\ x.loops = r /\ Dragging(r)
      /\ Last(r) = d /\ Len(r) = Len(u.loops)
  BY <1>3, OutlineIsSet
<1>5. moved \in BOOLEAN /\ l.win \in Window
  BY <1>1 DEF UiType
<1> HIDE DEF x, r, moved, l
<1>6. s \in UiType
  <2>1. x \in UiType
    BY <1>4
  <2>2. QED
    BY ZenonT(60), <1>5, <2>1 DEF UiType
<1>7. Kept(x, s) /\ MenusKept(x, s)
  BY <1>4 DEF UiType, Kept, Still, MenusKept
<1> HIDE DEF s
<1>8. Sound(s) /\ Asked(s)
  BY <1>4, <1>6, <1>7, SoundKept
<1>9. frame \in [Window -> Place] /\ shown \in [Window -> Place]
  BY <1>5, <1>6 DEF UiType
<1> HIDE DEF frame, shown
<1>10. v \in UiType
  BY ZenonT(60), <1>6, <1>9 DEF UiType
<1>11. /\ MenusKept(s, v) /\ v.loops = s.loops /\ v.drag = s.drag /\ v.resize = s.resize
       /\ v.size = s.size
  BY <1>6 DEF UiType, MenusKept
<1> HIDE DEF v
<1>12. Sound(v) /\ Asked(v)
  <2>1. Dragging(s.loops)
    BY <1>4, <1>7 DEF Kept
  <2>2. Drags(v)
    BY <1>8, <1>11 DEF Sound, Drags, Settled
  <2>3. QED
    BY <1>8, <1>10, <1>11, <2>1, <2>2, Redrawn
<1>15. \A z : z.loops = r => Shows(z) /\ Len(z.loops) = Len(u.loops)
  BY <1>4, <1>14 DEF Shows, Fresh
<1>13. QED
  BY <1>2, <1>4, <1>7, <1>8, <1>11, <1>12, <1>15 DEF Kept

\* A press and a release while a frame is resized.
LEMMA ResizePressed ==
  ASSUME NEW u, Sound(u), Asked(u), Dragging(u.loops), Last(u.loops).loop # "move", NEW b \in Button
  PROVE  LET v == ResizePress(u, b)
         IN  Sound(v) /\ Asked(v) /\ Shows(v)
<1> DEFINE t == [u EXCEPT !.loops[Len(u.loops)].title = FALSE]
           x == [u EXCEPT !.pressed = b]
           c == CancelPress(u)
<1>1. u \in UiType
  BY DEF Sound
<1>2. ResizePress(u, b) \in {t, x, EndLoops(c, b)}
  BY DEF ResizePress
<1>7. Shows(u)
  BY DEF Shows, Fresh
<1>3. Sound(t) /\ Asked(t) /\ Shows(t)
  BY <1>7, TitlePressed
<1>4. Sound(x) /\ Asked(x) /\ Shows(x)
  <2>1. x \in UiType
    BY ZenonT(60), <1>1 DEF UiType
  <2>2. Kept(u, x) /\ MenusKept(u, x)
    BY <1>1 DEF UiType, Kept, Still, MenusKept
  <2> HIDE DEF x
  <2>3. QED
    BY <1>7, <2>1, <2>2, SoundKept
<1>5. LET v == EndLoops(c, b) IN Sound(v) /\ Asked(v) /\ Shows(v)
  <2>1. Sound(c) /\ Asked(c) /\ Dragging(c.loops) /\ Settled(c)
    BY Cancelled
  <2> HIDE DEF c
  <2>2. QED
    BY <2>1, DragLoopEnds DEF Shows
<1> HIDE DEF t, x, c
<1>6. QED
  BY <1>2, <1>3, <1>4, <1>5

LEMMA ResizeReleased ==
  ASSUME NEW u, Sound(u), Asked(u), Dragging(u.loops), Last(u.loops).loop = "resize", NEW b
  PROVE  LET v == ResizeRelease(u, b)
         IN  Sound(v) /\ Asked(v) /\ Shows(v)
<1> DEFINE h == HandleButtonRelease(u, b)
<1>1. Sound(h) /\ Asked(h) /\ Dragging(h.loops) /\ h.drag = None /\ h.resize = None /\ ~h.size
  BY Released
<1>2. ResizeRelease(u, b) = EndLoops(h, b)
  BY DEF ResizeRelease
<1> HIDE DEF h
<1>3. QED
  BY <1>1, <1>2, DragLoopEnds DEF Settled, Shows

\* A press while a frame is resized from its centre.
LEMMA CenterPressed ==
  ASSUME NEW u, Sound(u), Asked(u), Dragging(u.loops), Last(u.loops).loop = "center", NEW b
  PROVE  LET v == CenterPress(u, b)
         IN  Sound(v) /\ Asked(v) /\ Shows(v)
<1> DEFINE l == Last(u.loops)
           frame == [u.frame EXCEPT ![l.win] = l.now]
           shown == [u.shown EXCEPT ![l.win] = l.now]
           v == [u EXCEPT !.size = FALSE, !.frame = frame, !.shown = shown]
<1>1. /\ u \in UiType /\ u.resize = None /\ u.drag = None /\ l.win \in Window /\ l.now \in Place
  BY DragIs
<1>2. CenterPress(u, b) = EndLoops(v, b)
  <2>1. [u EXCEPT !.size = FALSE, !.frame[l.win] = l.now, !.shown[l.win] = l.now] = v
    <3> HIDE DEF l
    <3>1. QED
      BY <1>1 DEF UiType
  <2> HIDE DEF v
  <2>2. QED
    BY <2>1 DEF CenterPress
<1>3. frame \in [Window -> Place] /\ shown \in [Window -> Place]
  <2> HIDE DEF l
  <2>1. QED
    BY <1>1 DEF UiType
<1> HIDE DEF frame, shown, l
<1>4. v \in UiType
  <2>1. u \in UiType
    BY <1>1
  <2>2. QED
    BY ZenonT(60), <1>3, <2>1 DEF UiType
<1>5. /\ MenusKept(u, v) /\ v.loops = u.loops /\ v.drag = u.drag /\ v.resize = u.resize
      /\ v.size = FALSE
  BY <1>1 DEF UiType, MenusKept
<1> HIDE DEF v
<1>6. Settled(v) /\ Drags(v)
  BY <1>1, <1>5 DEF Settled, Drags
<1>7. Sound(v) /\ Asked(v) /\ Dragging(v.loops)
  BY <1>4, <1>5, <1>6, Redrawn
<1>8. QED
  BY <1>2, <1>6, <1>7, DragLoopEnds DEF Shows

(***************************************************************************)
(* Steps.                                                                   *)
(***************************************************************************)

\* The loop that waits for events.
LEMMA TopLoopIs ==
  ASSUME Sound(ui)
  PROVE  /\ ui \in UiType
         /\ TopLoop \in {"main", "menu"} => ~Dragging(ui.loops)
         /\ TopLoop \in {"move", "resize", "center"} =>
              Dragging(ui.loops) /\ Last(ui.loops).loop = TopLoop
         /\ TopLoop = "main" => ui.loops = <<>>
<1>1. ui \in UiType /\ LoopsFit(ui.loops)
  BY DEF Sound
<1>2. ui.loops # <<>> => Last(ui.loops) \in MenuLoop \cup DragLoop
  BY <1>1, LoopsAre
<1>3. ui.loops # <<>> => Last(ui.loops).loop # "main"
  BY <1>2 DEF MenuLoop, DragLoop, LoopType
<1>4. QED
  BY <1>1, <1>3 DEF TopLoop, Dragging

LEMMA TakenIs ==
  ASSUME Sound(ui), Asked(ui), Shows(ui)
  PROVE  Sound(Taken) /\ Asked(Taken) /\ Kept(ui, Taken) /\ MenusKept(ui, Taken)
         /\ Taken.held = ui.held /\ Taken.gone = ui.gone /\ Taken.fromWin = ui.fromWin
         /\ Shows(Taken)
<1> DEFINE x == [ui EXCEPT !.moved = FALSE]
<1>1. ui \in UiType
  BY DEF Sound
<1>2. x \in UiType
  BY ZenonT(60), <1>1 DEF UiType
<1>3. Kept(ui, x) /\ MenusKept(ui, x) /\ x.held = ui.held /\ x.gone = ui.gone
      /\ x.fromWin = ui.fromWin
  BY <1>1 DEF UiType, Kept, Still, MenusKept
<1>4. Taken = x \/ Taken = ui
  BY DEF Taken
<1> HIDE DEF x
<1>5. Sound(x) /\ Asked(x) /\ Shows(x)
  BY <1>2, <1>3, SoundKept
<1>6. Kept(ui, ui) /\ MenusKept(ui, ui)
  BY DEF Kept, Still, MenusKept
<1>7. QED
  BY <1>3, <1>4, <1>5, <1>6

\* Buttons are pressed and released.
LEMMA HeldIs ==
  ASSUME NEW u, Sound(u), Asked(u), NEW held \in SUBSET Button
  PROVE  LET v == [u EXCEPT !.held = held]
         IN  Sound(v) /\ Asked(v) /\ Kept(u, v) /\ MenusKept(u, v)
             /\ v.held = held /\ v.fromWin = u.fromWin /\ (Shows(u) => Shows(v))
<1> DEFINE v == [u EXCEPT !.held = held]
<1>1. u \in UiType
  BY DEF Sound
<1>2. v \in UiType
  BY ZenonT(60), <1>1 DEF UiType
<1>3. Kept(u, v) /\ MenusKept(u, v) /\ v.held = held /\ v.fromWin = u.fromWin
  BY <1>1 DEF UiType, Kept, Still, MenusKept
<1> HIDE DEF v
<1>4. QED
  BY <1>2, <1>3, SoundKept DEF v

LEMMA EventLooked ==
  ASSUME NEW u, Sound(u), Asked(u), NEW b
  PROVE  LET v == AfterEvent(u, b)
         IN  /\ Sound(v) /\ Asked(v) /\ v.at = u.at
             /\ v.loops = u.loops \/ v.loops = <<>>
             /\ Fresh(u) => Fresh(v)
BY LoopLooked DEF AfterEvent, Fresh, Still, Dragging

\* Everything that is bound is a function and its menu.
LEMMA BoundIs ==
  /\ \A ctx : BoundAt(ctx) \subseteq Action
  /\ [func |-> "nop", sub |-> None] \in Action
<1>1. \A ctx : BoundAt(ctx) \subseteq Action
  BY InteractionAssumption DEF BoundAt
<1>2. [func |-> "nop", sub |-> None] \in Action
  BY DEF Action, Func
<1>3. QED
  BY <1>1, <1>2

\* The invariant, of the next state.
LEMMA InvHolds ==
  ASSUME Sound(ui'), Asked(ui'), Shows(ui')
  PROVE  InteractionInv'
BY DEF InteractionInv, Sound, Asked, Chain, Chained, Drags, Settled, InMenu, ActiveMenu,
       Shows, Fresh

LEMMA PressKeeps ==
  ASSUME InteractionInv, NEW b \in Button, Press(b)
  PROVE  InteractionInv'
<1> DEFINE held == ui.held \cup {b}
           u == [Taken EXCEPT !.held = held]
<1>1. Sound(ui) /\ Asked(ui) /\ Shows(ui) /\ ui \in UiType
  BY DEF InteractionInv, Sound
<1>2. Sound(Taken) /\ Asked(Taken) /\ Kept(ui, Taken) /\ Taken.held = ui.held
      /\ Shows(Taken)
  BY <1>1, TakenIs
<1>3. held \in SUBSET Button
  BY <1>1 DEF UiType
<1>4. u = [Taken EXCEPT !.held = @ \cup {b}]
  BY <1>2 DEF Sound, UiType
<1> HIDE DEF held
<1>5. Sound(u) /\ Asked(u) /\ u.loops = ui.loops /\ Shows(u)
  BY <1>2, <1>3, HeldIs DEF Kept, Still
<1> HIDE DEF u
<1>6. CASE /\ TopLoop \in {"main", "menu"}
           /\ \E ctx \in {"title", "window"} :
                \E bound \in BoundAt(PressContext(u, ctx)) \cup {[func |-> "nop", sub |-> None]} :
                   ui' = AfterEvent(HandleButtonPress(u, b, ctx, bound), b)
  <2>1. PICK ctx \in {"title", "window"} :
          \E bound \in BoundAt(PressContext(u, ctx)) \cup {[func |-> "nop", sub |-> None]} :
             ui' = AfterEvent(HandleButtonPress(u, b, ctx, bound), b)
    BY <1>6
  <2>2. PICK bound \in BoundAt(PressContext(u, ctx)) \cup {[func |-> "nop", sub |-> None]} :
          ui' = AfterEvent(HandleButtonPress(u, b, ctx, bound), b)
    BY <2>1
  <2>3. bound \in Action
    BY BoundIs
  <2>4. ~Dragging(u.loops)
    BY <1>1, <1>5, <1>6, TopLoopIs
  <2> DEFINE v == HandleButtonPress(u, b, ctx, bound)
  <2>5. Sound(v) /\ Asked(v) /\ Fresh(v)
    BY <1>5, <2>3, <2>4, Pressed
  <2>6. ui' = AfterEvent(v, b)
    BY <2>2
  <2> HIDE DEF v
  <2>7. Sound(ui') /\ Asked(ui') /\ Shows(ui')
    BY <2>5, <2>6, EventLooked DEF Shows
  <2>8. QED
    BY <2>7, InvHolds
<1>7. CASE TopLoop = "move" /\ ui' = MovePress(u, b)
  <2>1. Sound(ui') /\ Asked(ui') /\ Shows(ui')
    BY <1>1, <1>5, <1>7, TopLoopIs, MovePressed
  <2>2. QED
    BY <2>1, InvHolds
<1>8. CASE TopLoop = "resize" /\ ui' = ResizePress(u, b)
  <2>1. Sound(ui') /\ Asked(ui') /\ Shows(ui')
    BY <1>1, <1>5, <1>8, TopLoopIs, ResizePressed
  <2>2. QED
    BY <2>1, InvHolds
<1>9. CASE TopLoop = "center" /\ ui' = CenterPress(u, b)
  <2>1. Sound(ui') /\ Asked(ui') /\ Shows(ui')
    BY <1>1, <1>5, <1>9, TopLoopIs, CenterPressed
  <2>2. QED
    BY <2>1, InvHolds
<1>10. QED
  BY <1>4, <1>6, <1>7, <1>8, <1>9 DEF Press

LEMMA ReleaseKeeps ==
  ASSUME InteractionInv, NEW b \in Button, Release(b)
  PROVE  InteractionInv'
<1> DEFINE Up(u) == [u EXCEPT !.held = @ \ {b}]
<1>1. Sound(ui) /\ Asked(ui) /\ Shows(ui) /\ ui \in UiType
  BY DEF InteractionInv, Sound
<1>2. ASSUME NEW u, Sound(u), Asked(u), Shows(u)
      PROVE  Sound(Up(u)) /\ Asked(Up(u)) /\ Shows(Up(u))
  <2> DEFINE held == u.held \ {b}
  <2>1. u \in UiType /\ held \in SUBSET Button
    BY <1>2 DEF Sound, UiType
  <2>2. Up(u) = [u EXCEPT !.held = held]
    BY <2>1 DEF UiType
  <2> HIDE DEF held, Up
  <2>3. QED
    BY <1>2, <2>1, <2>2, HeldIs
<1>3. \/ /\ TopLoop \in {"main", "menu"}
         /\ ui' = Up(AfterEvent(HandleButtonRelease(Taken, b), b))
      \/ TopLoop = "move" /\ ui' = Up(MoveRelease(ui, b))
      \/ TopLoop = "resize" /\ ui' = Up(ResizeRelease(ui, b))
      \/ TopLoop = "center" /\ ui' = Up(ui)
  BY DEF Release
<1> HIDE DEF Up
<1>4. CASE /\ TopLoop \in {"main", "menu"}
           /\ ui' = Up(AfterEvent(HandleButtonRelease(Taken, b), b))
  <2> DEFINE h == HandleButtonRelease(Taken, b)
             e == AfterEvent(h, b)
  <2>1. Sound(Taken) /\ Asked(Taken) /\ ~Dragging(Taken.loops)
    BY <1>1, <1>4, TakenIs, TopLoopIs DEF Kept
  <2>2. Sound(h) /\ Asked(h) /\ Fresh(h)
    BY <2>1, Released
  <2> HIDE DEF h
  <2>3. Sound(e) /\ Asked(e) /\ Shows(e)
    BY <2>2, EventLooked DEF Shows
  <2>4. ui' = Up(e)
    BY <1>4 DEF h
  <2> HIDE DEF e
  <2>5. Sound(ui') /\ Asked(ui') /\ Shows(ui')
    BY <1>2, <2>3, <2>4
  <2>6. QED
    BY <2>5, InvHolds
<1>5. CASE TopLoop = "move" /\ ui' = Up(MoveRelease(ui, b))
  <2>1. LET v == MoveRelease(ui, b) IN Sound(v) /\ Asked(v) /\ Shows(v)
    BY <1>1, <1>5, TopLoopIs, MoveReleased
  <2>2. Sound(ui') /\ Asked(ui') /\ Shows(ui')
    BY <1>2, <1>5, <2>1
  <2>3. QED
    BY <2>2, InvHolds
<1>6. CASE TopLoop = "resize" /\ ui' = Up(ResizeRelease(ui, b))
  <2>1. LET v == ResizeRelease(ui, b) IN Sound(v) /\ Asked(v) /\ Shows(v)
    BY <1>1, <1>6, TopLoopIs, ResizeReleased
  <2>2. Sound(ui') /\ Asked(ui') /\ Shows(ui')
    BY <1>2, <1>6, <2>1
  <2>3. QED
    BY <2>2, InvHolds
<1>7. CASE ui' = Up(ui)
  <2>1. Sound(ui') /\ Asked(ui') /\ Shows(ui')
    BY <1>1, <1>2, <1>7
  <2>2. QED
    BY <2>1, InvHolds
<1>8. QED
  BY <1>3, <1>4, <1>5, <1>6, <1>7

LEMMA KeyKeeps ==
  ASSUME InteractionInv, NEW k, Key(k)
  PROVE  InteractionInv'
<1>1. Sound(ui) /\ Asked(ui) /\ Shows(ui)
  BY DEF InteractionInv
<1>2. Sound(Taken) /\ Asked(Taken) /\ Kept(ui, Taken)
  BY <1>1, TakenIs
<1>3. ~Dragging(Taken.loops) /\ ~Taken.cancel
  BY <1>1, <1>2, TopLoopIs DEF Key, Kept, Still
<1>4. PICK bound \in Action : ui' = AfterEvent(HandleKeyPress(Taken, k, bound), None)
  BY BoundIs DEF Key
<1> DEFINE h == HandleKeyPress(Taken, k, bound)
<1>5. Sound(h) /\ Asked(h) /\ Fresh(h)
  BY <1>2, <1>3, KeyPressed
<1>6. ui' = AfterEvent(h, None)
  BY <1>4
<1> HIDE DEF h
<1>7. Sound(ui') /\ Asked(ui') /\ Shows(ui')
  BY <1>5, <1>6, EventLooked DEF Shows
<1>8. QED
  BY <1>7, InvHolds

\* The pointer is somewhere else.
LEMMA AtIs ==
  ASSUME NEW u, Sound(u), Asked(u), NEW p \in MenuRoot \cup Window \cup {"root"}
  PROVE  LET v == [u EXCEPT !.at = p]
         IN  Sound(v) /\ Asked(v) /\ v.loops = u.loops /\ v.at = p
<1> DEFINE v == [u EXCEPT !.at = p]
<1>1. u \in UiType
  BY DEF Sound
<1>2. v \in UiType
  BY ZenonT(60), <1>1 DEF UiType
<1>3. /\ MenusKept(u, v) /\ v.loops = u.loops /\ v.drag = u.drag /\ v.resize = u.resize
      /\ v.size = u.size /\ v.context = u.context /\ v.win = u.win /\ v.cancel = u.cancel
      /\ v.managed = u.managed /\ v.at = p
  BY <1>1 DEF UiType, MenusKept
<1> HIDE DEF v
<1>4. Chain(v)
  BY <1>3 DEF Chain, Chained, Sound, MenusKept, ActiveMenu
<1>5. LoopsFit(v.loops) /\ Drags(v)
  BY <1>3 DEF Sound, Drags, Settled
<1>6. Asked(v)
  BY <1>3 DEF Asked, MenusKept, InMenu
<1>7. QED
  BY <1>2, <1>3, <1>4, <1>5, <1>6 DEF Sound, v

LEMMA PointKeeps ==
  ASSUME InteractionInv, NEW p \in MenuRoot \cup Window \cup {"root"},
         NEW i \in Nat, p \in MenuRoot => i \in 0 .. Len(Items(p)), NEW right \in BOOLEAN,
         Point(p, i, right)
  PROVE  InteractionInv'
<1> DEFINE l == LeaveMenu(Taken)
           e == AfterEvent(l, None)
           left == [e EXCEPT !.at = p]
           m == EnterMenu(left, p, i)
           there == IF p \in MenuRoot THEN AfterEvent(m, None) ELSE left
<1>1. Sound(ui) /\ Asked(ui) /\ Shows(ui)
  BY DEF InteractionInv
<1>2. Sound(Taken) /\ Asked(Taken) /\ Taken.loops = ui.loops
  BY <1>1, TakenIs DEF Kept, Still
<1>3. ~Dragging(ui.loops) /\ ui' = MenuMotion(there, i, right)
  BY <1>1, TopLoopIs DEF Point
<1>4. Sound(l) /\ Asked(l) /\ l.loops = ui.loops
  BY <1>2, MenuLeft
<1> HIDE DEF l
<1>5. Sound(e) /\ Asked(e) /\ (e.loops = ui.loops \/ e.loops = <<>>)
  BY <1>4, EventLooked
<1> HIDE DEF e
<1>6. Sound(left) /\ Asked(left) /\ ~Dragging(left.loops) /\ left.at = p
  BY <1>3, <1>5, AtIs DEF Dragging
<1> HIDE DEF left
<1>7. Sound(there) /\ Asked(there) /\ there.at = p /\ ~Dragging(there.loops)
  <2>1. CASE p \in MenuRoot
    <3>1. Sound(m) /\ Asked(m) /\ m.at = p /\ ~Dragging(m.loops)
      BY <1>6, <2>1, MenuEntered
    <3> HIDE DEF m
    <3>2. QED
      BY <2>1, <3>1, EventLooked DEF Dragging
  <2>2. CASE p \notin MenuRoot
    BY <1>6, <2>2
  <2>3. QED
    BY <2>1, <2>2
<1> HIDE DEF there
<1>8. there.active # <<>> /\ there.at = ActiveMenu(there) => i <= Len(Items(ActiveMenu(there)))
  <2>1. SUFFICES ASSUME there.active # <<>>, p = ActiveMenu(there) PROVE i <= Len(Items(p))
    BY <1>7
  <2>2. p \in MenuRoot
    BY <1>7, <2>1, ActiveIs DEF Sound
  <2>3. QED
    BY <2>2
<1>9. Sound(ui') /\ Asked(ui') /\ Shows(ui')
  BY <1>3, <1>7, <1>8, MenuMoved DEF Shows, Fresh
<1>10. QED
  BY <1>9, InvHolds

LEMMA PointAtKeeps ==
  ASSUME InteractionInv, PointAt
  PROVE  InteractionInv'
<1>1. ui \in UiType /\ ui.managed \in SUBSET Window
  BY DEF InteractionInv, Sound, UiType
<1>2. \A p \in MenuRoot : Len(Items(p)) \in Nat /\ 0 \in 0 .. Len(Items(p))
  <2>1. TAKE p \in MenuRoot
  <2>2. Len(Items(p)) \in Nat
    BY ItemsAre, LenProperties
  <2>3. QED
    BY <2>2
<1>3. CASE \E m \in MenuRoot : /\ ui.up[m]
                               /\ \E i \in 0 .. Len(Items(m)), right \in BOOLEAN : Point(m, i, right)
  <2>1. PICK m \in MenuRoot : \E i \in 0 .. Len(Items(m)), right \in BOOLEAN : Point(m, i, right)
    BY <1>3
  <2>2. PICK i \in 0 .. Len(Items(m)), right \in BOOLEAN : Point(m, i, right)
    BY <2>1
  <2>3. i \in Nat
    BY <1>2
  <2>4. QED
    BY <2>2, <2>3, PointKeeps
<1>4. CASE \E w \in ui.managed : ui.at # w /\ Point(w, 0, FALSE)
  <2>1. PICK w \in Window : Point(w, 0, FALSE)
    BY <1>1, <1>4
  <2>2. w \in MenuRoot => 0 \in 0 .. Len(Items(w))
    BY <1>2
  <2>3. QED
    BY <2>1, <2>2, PointKeeps
<1>5. CASE Point("root", 0, FALSE)
  <2>1. "root" \in MenuRoot => 0 \in 0 .. Len(Items("root"))
    BY <1>2
  <2>2. QED
    BY <1>5, <2>1, PointKeeps
<1>6. QED
  BY <1>3, <1>4, <1>5 DEF PointAt

LEMMA DragKeeps ==
  ASSUME InteractionInv, NEW p \in Place, Drag(p)
  PROVE  InteractionInv'
<1>1. Sound(ui) /\ Asked(ui) /\ Shows(ui)
  BY DEF InteractionInv
<1>2. CASE TopLoop = "move" /\ ui' = MoveMotion(ui, p)
  <2>1. Sound(ui') /\ Asked(ui') /\ Shows(ui')
    BY <1>1, <1>2, TopLoopIs, MoveMoved
  <2>2. QED
    BY <2>1, InvHolds
<1>3. CASE TopLoop \in {"resize", "center"} /\ ui' = ResizeMotion(ui, p)
  <2>1. Sound(ui') /\ Asked(ui') /\ Shows(ui')
    BY <1>1, <1>3, TopLoopIs, ResizeMoved
  <2>2. QED
    BY <2>1, InvHolds
<1>4. QED
  BY <1>2, <1>3 DEF Drag

LEMMA ClientDestroyKeeps ==
  ASSUME InteractionInv, NEW w \in ui.managed, ClientDestroy(w)
  PROVE  InteractionInv'
<1> DEFINE gone == ui.gone \cup {w}
           v == [ui EXCEPT !.gone = gone]
<1>1. Sound(ui) /\ Asked(ui) /\ Shows(ui) /\ ui \in UiType
  BY DEF InteractionInv, Sound
<1>2. ui' = v
  BY <1>1 DEF ClientDestroy, UiType
<1>3. gone \in SUBSET Window
  BY <1>1 DEF UiType
<1> HIDE DEF gone
<1>4. v \in UiType
  <2>1. ui \in UiType
    BY <1>1
  <2>2. QED
    BY ZenonT(60), <1>3, <2>1 DEF UiType
<1>5. Kept(ui, v) /\ MenusKept(ui, v)
  BY <1>1 DEF UiType, Kept, Still, MenusKept
<1> HIDE DEF v
<1>6. Sound(v) /\ Asked(v) /\ Shows(v)
  BY <1>1, <1>4, <1>5, SoundKept
<1>7. QED
  BY <1>2, <1>6, InvHolds

LEMMA DestroyedKeeps ==
  ASSUME InteractionInv, NEW w \in ui.managed, Destroyed(w)
  PROVE  InteractionInv'
<1> DEFINE managed == Taken.managed \ {w}
           gone == Taken.gone \ {w}
           at == IF Taken.at = w THEN "root" ELSE Taken.at
           v == [Taken EXCEPT !.managed = managed, !.gone = gone, !.at = at]
<1>1. Sound(ui) /\ Asked(ui) /\ Shows(ui)
  BY DEF InteractionInv
<1>2. Sound(Taken) /\ Asked(Taken) /\ Taken.loops = ui.loops
  BY <1>1, TakenIs DEF Kept, Still
<1>3. Taken \in UiType /\ Taken.loops = <<>>
  BY <1>1, <1>2, TopLoopIs DEF Destroyed, Sound
<1>4. ui' = v
  <2>1. Taken \in UiType
    BY <1>3
  <2>2. QED
    BY <2>1 DEF Destroyed, UiType
<1>5. managed \in SUBSET Window /\ gone \in SUBSET Window /\ at \in MenuRoot \cup Window \cup {"root"}
  BY <1>3 DEF UiType
<1> HIDE DEF managed, gone, at
<1>6. v \in UiType
  <2>1. Taken \in UiType
    BY <1>3
  <2>2. QED
    BY ZenonT(60), <1>5, <2>1 DEF UiType
<1>7. /\ MenusKept(Taken, v) /\ v.loops = Taken.loops /\ v.drag = Taken.drag
      /\ v.resize = Taken.resize /\ v.size = Taken.size /\ v.context = Taken.context
      /\ v.win = Taken.win /\ v.cancel = Taken.cancel
  BY <1>3 DEF UiType, MenusKept
<1> HIDE DEF v
<1>8. Chain(v)
  BY <1>2, <1>7 DEF Chain, Chained, Sound, MenusKept, ActiveMenu
<1>9. LoopsFit(v.loops) /\ Drags(v)
  BY <1>2, <1>7 DEF Sound, Drags, Settled
<1>10. Asked(v)
  BY <1>2, <1>3, <1>7 DEF Asked, MenusKept, InMenu
<1>11. Sound(v) /\ Asked(v) /\ Shows(v)
  BY <1>3, <1>6, <1>7, <1>8, <1>9, <1>10 DEF Sound, Shows, Fresh, Dragging
<1>12. QED
  BY <1>4, <1>11, InvHolds

LEMMA InitIsSound ==
  Init => InteractionInv
<1> SUFFICES ASSUME Init PROVE InteractionInv
  OBVIOUS
<1>1. /\ ui.active = <<>> /\ ui.depth = 0 /\ ui.item = 0 /\ ui.loops = <<>>
      /\ ui.drag = None /\ ui.resize = None /\ ui.size = FALSE
      /\ ui.mapped = [m \in MenuRoot |-> IF Pinned(m) THEN "never" ELSE "unmapped"]
      /\ ui.up = [m \in MenuRoot |-> FALSE]
  BY DEF Init
<1>2. ui \in UiType
  <2> DEFINE p == CHOOSE q \in Place : TRUE
  <2>1. \E q \in Place : TRUE
    BY InteractionAssumption
  <2>2. p \in Place
    BY <2>1
  <2>3. <<>> \in Seq(MenuRoot) /\ <<>> \in Seq(LoopType)
    BY EmptySeq
  <2>4. ui = [ active |-> <<>>, depth |-> 0,
         mapped |-> [m \in MenuRoot |-> IF Pinned(m) THEN "never" ELSE "unmapped"],
         up |-> [m \in MenuRoot |-> FALSE], entered |-> [m \in MenuRoot |-> FALSE],
         item |-> 0, rootFn |-> None, context |-> "none", pressed |-> None,
         cancel |-> FALSE, drag |-> None, resize |-> None, win |-> None,
         moved |-> FALSE, fromWin |-> FALSE, reset |-> FALSE, altkey |-> FALSE,
         altctx |-> FALSE, info |-> FALSE, size |-> FALSE, quiet |-> FALSE,
         pointer |-> FALSE, keyboard |-> FALSE, server |-> FALSE,
         frame |-> [w \in Window |-> p], shown |-> [w \in Window |-> p],
         zoomed |-> [w \in Window |-> FALSE], managed |-> Window, gone |-> {},
         loops |-> <<>>, held |-> {}, at |-> "root" ]
    BY DEF Init
  <2> HIDE DEF p
  <2>5. QED
    BY <2>2, <2>3, <2>4 DEF UiType, Context
<1>3. Chain(ui) /\ Asked(ui)
  <2>1. \A m \in Menu : m \in MenuRoot
    BY DEF MenuRoot
  <2>2. \A m \in Menu : ui.mapped[m] # "mapped" /\ ~ui.up[m]
    BY <1>1, <2>1
  <2>3. \A m \in MenuRoot \ Menu : ui.up[m] = (ui.mapped[m] = "mapped")
    BY <1>1
  <2>4. QED
    BY <1>1, <1>2, <2>2, <2>3, ChainIsEmpty
<1>4. LoopsFit(ui.loops)
  BY <1>1 DEF LoopsFit
<1>5. Drags(ui)
  BY <1>1 DEF Drags, Settled
<1>6. Shows(ui)
  BY <1>1 DEF Shows, Fresh, Dragging
<1>7. QED
  BY <1>2, <1>3, <1>4, <1>5, <1>6 DEF InteractionInv, Sound

\* Every step keeps the invariant.
LEMMA StepKeeps ==
  InteractionInv /\ [Next]_ui => InteractionInv'
<1> SUFFICES ASSUME InteractionInv, [Next]_ui PROVE InteractionInv'
  OBVIOUS
<1>1. CASE UNCHANGED ui
  BY <1>1 DEF InteractionInv, Sound, Asked, Chain, Chained, Drags, Settled, InMenu, ActiveMenu,
                  Shows, Fresh
<1>2. CASE \E b \in Button : Press(b)
  BY <1>2, PressKeeps
<1>3. CASE \E b \in Button : Release(b)
  BY <1>3, ReleaseKeeps
<1>4. CASE \E k \in {"return", "right", "escape", "bound"} : Key(k)
  BY <1>4, KeyKeeps
<1>5. CASE PointAt
  BY <1>5, PointAtKeeps
<1>6. CASE \E p \in Place : Drag(p)
  BY <1>6, DragKeeps
<1>7. CASE \E w \in ui.managed : ClientDestroy(w)
  BY <1>7, ClientDestroyKeeps
<1>8. CASE \E w \in ui.managed : Destroyed(w)
  BY <1>8, DestroyedKeeps
<1>9. QED
  BY <1>1, <1>2, <1>3, <1>4, <1>5, <1>6, <1>7, <1>8 DEF Next

LEMMA InvAlways ==
  Spec => []InteractionInv
<1>1. Init => InteractionInv
  BY InitIsSound
<1>2. InteractionInv /\ [Next]_ui => InteractionInv'
  BY StepKeeps
<1>3. QED
  BY <1>1, <1>2, PTL DEF Spec

(***************************************************************************)
(* Theorems.                                                                *)
(***************************************************************************)

\* For any menus, any bindings and any functions, with every option, and however
\* buttons, keys and the pointer come: the menus on the screen are those of the
\* chain of ActiveMenu and the pinned ones, the chain has none twice, MenuDepth is
\* its length, and UpdateMenu waits for an item to be chosen only while the window
\* that the menu was popped up for is there (menus.c, event_handlers.c).
THEOREM ScreenShowsTheChain ==
  Spec => []MenusAreTheChain
<1>1. InteractionInv => MenusAreTheChain
  <2>1. SUFFICES ASSUME InteractionInv PROVE MenusAreTheChain
    OBVIOUS
  <2>2. TypeOK /\ Chained(ui)
    BY <2>1 DEF InteractionInv, Sound, Chain, TypeOK
  <2>3. MenuWindowIsThere
    BY <2>1 DEF InteractionInv, Asked, MenuWindowIsThere
  <2>4. QED
    BY <2>2, <2>3 DEF Chained, MenusAreTheChain
<1>2. QED
  BY <1>1, InvAlways, PTL

\* Whatever ends f.move and f.resize, a release, a press that gives them up, or what
\* is left of a function that the user has made: when no loop waits for events but
\* the main one, DragWindow and ResizeWindow are nobody's and the size window is
\* gone (functions_win_moveresize.c, win_resize.c, event_handlers.c).
THEOREM NothingStaysDragged ==
  Spec => []DragEnds
<1>1. InteractionInv => DragEnds
  <2>1. SUFFICES ASSUME InteractionInv, ui.loops = <<>>
                 PROVE  ui.drag = None /\ ui.resize = None /\ ~ui.size
    BY DEF DragEnds
  <2>2. ~Dragging(ui.loops)
    BY <2>1 DEF Dragging
  <2>3. QED
    BY <2>1, <2>2 DEF InteractionInv, Sound, Drags, Settled
<1>2. QED
  BY <1>1, InvAlways, PTL

\* A drag is given up by a press, and by nothing else that leaves all the buttons
\* down.
LEMMA AStepRestores ==
  ASSUME InteractionInv, [Next]_ui, TopLoop = "move", ~ui.fromWin, ui.held # {},
         Len(ui'.loops) < Len(ui.loops), ui.held \subseteq ui'.held
  PROVE  LET l == Last(ui.loops)
         IN  ui'.shown[l.win] = l.orig /\ ui'.frame[l.win] = ui.frame[l.win]
<1>1. Sound(ui) /\ Asked(ui) /\ Shows(ui) /\ ui \in UiType
  BY DEF InteractionInv, Sound
<1>2. Dragging(ui.loops) /\ Last(ui.loops).loop = "move" /\ ui.loops # <<>>
  BY <1>1, TopLoopIs DEF Dragging
<1>3. Len(ui.loops) \in Nat /\ ui'.loops # ui.loops
  BY <1>1, LenProperties DEF UiType
<1>4. ASSUME NEW b \in Button, Press(b)
      PROVE  LET l == Last(ui.loops)
             IN  ui'.shown[l.win] = l.orig /\ ui'.frame[l.win] = ui.frame[l.win]
  <2> DEFINE held == ui.held \cup {b}
             u == [ui EXCEPT !.held = held]
  <2>1. held \in SUBSET Button
    BY <1>1 DEF UiType
  <2>2. Taken = ui
    BY <1>2 DEF Taken
  <2>3. u = [Taken EXCEPT !.held = @ \cup {b}]
    BY <1>1, <2>2 DEF UiType
  <2>4. ui' = MovePress(u, b)
    <3> HIDE DEF u
    <3>1. QED
      BY <1>4, <2>3 DEF Press
  <2> HIDE DEF held
  <2>5. Sound(u) /\ Asked(u) /\ Kept(ui, u) /\ u.fromWin = ui.fromWin /\ Shows(u)
    BY <1>1, <2>1, HeldIs
  <2> HIDE DEF u
  <2>6. LET v == MovePress(u, b)
            l == Last(u.loops)
        IN  \/ Len(v.loops) = Len(u.loops)
            \/ v.shown[l.win] = l.orig /\ v.frame = u.frame
    BY <1>2, <2>5, MovePressed DEF Kept
  <2>7. QED
    BY <1>3, <2>4, <2>5, <2>6 DEF Kept, Still
<1>5. ASSUME NEW b \in Button, Release(b) PROVE FALSE
  <2> DEFINE m == MoveRelease(ui, b)
  <2>1. b \in ui.held /\ ui' = [m EXCEPT !.held = @ \ {b}]
    BY <1>5 DEF Release
  <2>2. m \in UiType
    BY <1>1, <1>2, MoveReleased DEF Sound
  <2> HIDE DEF m
  <2>3. ui'.held = m.held \ {b}
    BY <2>1, <2>2 DEF UiType
  <2>4. QED
    BY <2>1, <2>3
<1>6. ASSUME NEW p \in Place, Drag(p) PROVE FALSE
  <2>1. ui' = MoveMotion(ui, p)
    BY <1>6 DEF Drag
  <2>2. Len(ui'.loops) = Len(ui.loops)
    BY <1>1, <1>2, <2>1, MoveMoved
  <2>3. QED
    BY <1>3, <2>2
<1>7. ASSUME NEW w, ClientDestroy(w) PROVE FALSE
  BY <1>1, <1>3, <1>7 DEF ClientDestroy, UiType
<1>8. ~PointAt /\ (\A k : ~Key(k)) /\ (\A w : ~Destroyed(w)) /\ ui' # ui
  BY <1>3 DEF PointAt, Point, Key, Destroyed
<1>9. QED
  BY <1>4, <1>5, <1>6, <1>7, <1>8 DEF Next

\* A second button that is pressed during f.move, if no menu of the window was what it
\* was chosen from, ends it with the window where f.move found it, dragged opaquely or
\* by an outline, and with the place that ctwm has for it the one it had; nothing that
\* the handlers below go on to do changes that (functions_win_moveresize.c,
\* event_handlers.c).
THEOREM AnAbortRestores ==
  Spec => AbortRestores
<1> DEFINE A == TopLoop = "move" /\ ~ui.fromWin /\ ui.held # {} /\ Len(ui'.loops) < Len(ui.loops)
                  /\ ui'.held # {} /\ ui.held \subseteq ui'.held =>
                LET l == Last(ui.loops)
                IN  ui'.shown[l.win] = l.orig /\ ui'.frame[l.win] = ui.frame[l.win]
<1>1. InteractionInv /\ [Next]_ui => [A]_ui
  BY AStepRestores
<1>2. QED
  BY <1>1, InvAlways, PTL DEF Spec, AbortRestores

=============================================================================
