--------------------------- MODULE ColormapsProofs ---------------------------
(***************************************************************************)
(* Proofs about Colormaps: for any windows, any lists that clients may      *)
(* give, and any server, a window is counted once for every place it has on *)
(* a list, and a colormap once for every window looked at that has it.      *)
(*                                                                          *)
(* Installing changes nothing of that (Still); what changes it is a window  *)
(* that is looked at once more or once less, and a new colormap.            *)
(***************************************************************************)
EXTENDS Colormaps, SequenceFacts, FiniteSetTheorems

(***************************************************************************)
(* The invariant.                                                           *)
(***************************************************************************)

CState == {s \in [x : XType, wm : WmType] : s.x.installed # <<>>}

\* The windows that are looked at and have a colormap.
Wearing(s, c) == {w \in CWindow : s.wm.cwin[w].refcnt > 0 /\ s.wm.cwin[w].colormap = c}

ColorsCounted(s) == \A c \in Colormap : s.wm.cmap[c].refcnt = Cardinality(Wearing(s, c))

WindowsCounted(s) ==
  \A w \in CWindow : s.wm.cwin[w].refcnt = Cardinality(PlacesOnLists(s.wm.cwins, w))

\* A client that has a list is on it; that of the root is the root.
Listed(s) ==
  /\ s.wm.cwins[root] = <<root>>
  /\ \A o \in Client : s.wm.cwins[o] # <<>> => o \in Range(s.wm.cwins[o])

\* The lists in force and pushed are there.
InForce(s) == {s.wm.cmaps, s.wm.pushed_cmaps} \subseteq owning(s) \cup {root}

\* Those whose end ctwm has still to hear of.
Deaths(s) == {e \in Range(s.x.queue) : e.type = "destroy"}

\* In a session in which clients go nothing is pushed, in others none goes.
PushAlone == \A us \in ColormapSessions : ~ {"push", "destroy"} \subseteq us

Unpushed(s, us) ==
  IF "destroy" \in us THEN s.wm.root_pushes = 0 /\ s.wm.pushed_cmaps = s.wm.cmaps
  ELSE Deaths(s) = {}

Sane(s) ==
  /\ s \in CState /\ ColorsCounted(s) /\ WindowsCounted(s) /\ Listed(s) /\ InForce(s)
  /\ \A e \in Deaths(s) : e.w \in Client

ColormapsInv ==
  /\ Sane(Cmaps) /\ Unpushed(Cmaps, user.uses)
  /\ user \in [uses : ColormapSessions, acts : 0 .. MaxActs]

(***************************************************************************)
(* What installing keeps.                                                   *)
(***************************************************************************)

\* From s to t nothing is counted anew, no list changes and nobody dies.
Keeps(s, t) ==
  /\ t \in CState
  /\ t.wm.cwin = s.wm.cwin /\ t.wm.cwins = s.wm.cwins
  /\ t.wm.root_pushes = s.wm.root_pushes
  /\ \A c \in Colormap : t.wm.cmap[c].refcnt = s.wm.cmap[c].refcnt
  /\ Deaths(t) \subseteq Deaths(s) /\ t.x.dead = s.x.dead

\* Nor is another list in force.
Still(s, t) ==
  Keeps(s, t) /\ t.wm.cmaps = s.wm.cmaps /\ t.wm.pushed_cmaps = s.wm.pushed_cmaps

\* What is known of a window and of a colormap.
LookedAt == [refcnt : Nat, colormap : Colormap, visibility : Visibility]

MapState == [refcnt : Nat, installed : BOOLEAN, installable : BOOLEAN,
             w : CWindow \cup {NoColormap}]

\* The parts of a state.
LEMMA CStateIs ==
  ASSUME NEW s \in CState
  PROVE  /\ s.x \in XType /\ s.wm \in WmType
         /\ s.x.installed \in Seq(Colormap) /\ s.x.installed # <<>>
         /\ s.x.queue \in Seq(CEvent)
         /\ s.x.colormap \in [CWindow -> Colormap]
         /\ s.x.list \in [Client -> Seq(Client \cup Sub)]
         /\ s.x.dead \in SUBSET CWindow
         /\ s.wm.cwin \in [CWindow -> LookedAt]
         /\ s.wm.cmap \in [Colormap -> MapState]
         /\ s.wm.cwins \in [Owner -> Seq(CWindow)]
         /\ s.wm.cmaps \in Owner /\ s.wm.pushed_cmaps \in Owner /\ s.wm.root_pushes \in Nat
BY DEF CState, XType, WmType, LookedAt, MapState

\* There are finitely many windows.
LEMMA WindowsFinite == IsFiniteSet(CWindow)
<1>1. IsFiniteSet(Client \cup Sub)
  BY FS_Union, ColormapsAssumption DEF ColormapsAssumption
<1>2. QED
  BY <1>1, FS_AddElement DEF CWindow

\* Another queue of a server.
LEMMA QueueIs ==
  ASSUME NEW s \in CState, NEW q \in Seq(CEvent)
  PROVE  /\ [s EXCEPT !.x.queue = q] \in CState
         /\ [s EXCEPT !.x.queue = q].x.queue = q
         /\ [s EXCEPT !.x.queue = q].wm = s.wm
         /\ [s EXCEPT !.x.queue = q].x.dead = s.x.dead
BY DEF CState, XType

\* Notify tells of colormaps only.
LEMMA NotifyIs ==
  ASSUME NEW s \in CState, NEW c \in Colormap, NEW installed \in BOOLEAN,
         NEW fresh \in BOOLEAN, NEW by \in Colormap \cup {NoColormap}
  PROVE  /\ Notify(s, c, installed, fresh, by) \in Seq(CEvent)
         /\ \A e \in Range(Notify(s, c, installed, fresh, by)) : e.type = "cmap"
<1> DEFINE V == {v \in CWindow \ s.x.dead : s.x.colormap[v] = c}
           E(w) == [type |-> "cmap", w |-> w, new |-> FALSE, colormap |-> c,
                    installed |-> installed, fresh |-> fresh, by |-> by]
           S == {E(w) : w \in V}
           f == [w \in V |-> E(w)]
<1>1. V \subseteq CWindow
  OBVIOUS
<1>2. IsFiniteSet(V)
  BY <1>1, WindowsFinite, FS_Subset
<1> HIDE DEF V
<1>3. \A w \in V : E(w) \in CEvent /\ E(w).type = "cmap"
  BY <1>1 DEF CEvent
<1>4. f \in Surjection(V, S)
  BY DEF Surjection
<1>5. IsFiniteSet(S)
  <2> HIDE DEF f, S
  <2>1. QED
    BY <1>2, <1>4, FS_Surjection
<1> DEFINE Q == {e \in CEvent : e.type = "cmap"}
<1>6. S \subseteq Q
  BY <1>3
<1> HIDE DEF S
<1>7. SetToSeq(S) \in [1 .. Cardinality(S) -> S] /\ Cardinality(S) \in Nat
  BY <1>5, SetToSeqLists, FS_CardinalityType
<1>8. SetToSeq(S) \in Seq(Q)
  <2> HIDE DEF Q
  <2>1. SetToSeq(S) \in [1 .. Cardinality(S) -> Q]
    BY <1>6, <1>7
  <2>2. QED
    BY <1>7, <2>1
<1>9. SetToSeq(S) \in Seq(CEvent) /\ \A e \in Range(SetToSeq(S)) : e.type = "cmap"
  <2>1. \A e \in Range(SetToSeq(S)) : e \in Q
    <3> HIDE DEF Q
    <3>1. QED
      BY <1>8, RangeIs
  <2>2. SetToSeq(S) \in [1 .. Cardinality(S) -> CEvent]
    BY <1>6, <1>7
  <2>3. QED
    BY <1>7, <2>1, <2>2
<1>10. SetToSeq(S) = Notify(s, c, installed, fresh, by)
  BY Zenon DEF Notify, S, V
<1>11. QED
  BY <1>9, <1>10

\* Events that are marked.
LEMMA MarkedIs ==
  ASSUME NEW s \in CState, NEW q, q \in [DOMAIN s.x.queue -> CEvent],
         \A i \in DOMAIN q : q[i].type = "destroy" => q[i] = s.x.queue[i]
  PROVE  Still(s, [s EXCEPT !.x.queue = q])
<1> DEFINE p == s.x.queue
           t == [s EXCEPT !.x.queue = q]
<1>1. p \in Seq(CEvent)
  BY CStateIs
<1>2. DOMAIN p = 1 .. Len(p) /\ Len(p) \in Nat
  BY <1>1, LenProperties
<1>3. q \in [1 .. Len(p) -> CEvent]
  BY <1>2
<1>4. q \in Seq(CEvent)
  BY <1>2, <1>3
<1>5. t \in CState /\ t.x.queue = q /\ t.wm = s.wm /\ t.x.dead = s.x.dead
  BY <1>4, QueueIs
<1>6. ASSUME NEW e \in Deaths(t) PROVE e \in Deaths(s)
  <2>1. e \in Range(q) /\ e.type = "destroy"
    BY <1>5, <1>6 DEF Deaths
  <2>2. PICK i \in DOMAIN q : e = q[i]
    BY <2>1 DEF Range
  <2>3. i \in DOMAIN p /\ e = p[i]
    BY <2>1, <2>2
  <2>4. QED
    BY <2>1, <2>3 DEF Deaths, Range
<1>7. QED
  BY <1>5, <1>6 DEF Still, Keeps

\* Twice nothing is nothing.
LEMMA StillTwice ==
  ASSUME NEW s, NEW t, NEW u, Still(s, t), Still(t, u)
  PROVE  Still(s, u)
BY DEF Still, Keeps

\* The server's list of colormaps counts nothing.
LEMMA InstallStill ==
  ASSUME NEW s \in CState, NEW c \in Colormap, NEW fresh \in BOOLEAN,
         NEW by \in Colormap \cup {NoColormap}
  PROVE  Still(s, Install(s, c, fresh, by))
<1> DEFINE p == s.x.installed
           full == Len(p) = Installable
           out == IF full THEN Notify(s, Head(p), FALSE, fresh, by) ELSE <<>>
           in == Notify(s, c, TRUE, fresh, by)
           some == IF full THEN Tail(p) ELSE p
           new == Append(some, c)
           mid == s.x.queue \o out
           q == mid \o in
           t == [s EXCEPT !.x.installed = new, !.x.queue = q]
<1>1. p \in Seq(Colormap) /\ p # <<>> /\ s.x.queue \in Seq(CEvent)
  BY CStateIs
<1>2. Head(p) \in Colormap /\ Tail(p) \in Seq(Colormap)
  BY <1>1, TailRange
<1>3. new \in Seq(Colormap) /\ new # <<>>
  <2>1. some \in Seq(Colormap)
    BY <1>1, <1>2
  <2> HIDE DEF some
  <2>2. QED
    BY <2>1, AppendProperties
<1>4. out \in Seq(CEvent) /\ \A e \in Range(out) : e.type = "cmap"
  <2>1. CASE full
    <3>1. out = Notify(s, Head(p), FALSE, fresh, by)
      BY <2>1
    <3>2. QED
      BY <1>2, <3>1, NotifyIs
  <2>2. CASE ~ full
    BY <2>2 DEF Range
  <2>3. QED
    BY <2>1, <2>2
<1>5. in \in Seq(CEvent) /\ \A e \in Range(in) : e.type = "cmap"
  BY NotifyIs
<1> HIDE DEF p, some, out, in, new
<1>6. mid \in Seq(CEvent) /\ Range(mid) = Range(s.x.queue) \cup Range(out)
  BY <1>1, <1>4, ConcatRange
<1> HIDE DEF mid
<1>7. q \in Seq(CEvent) /\ Range(q) = Range(s.x.queue) \cup Range(out) \cup Range(in)
  BY <1>5, <1>6, ConcatRange
<1> HIDE DEF q
<1>8. t \in CState /\ t.x.queue = q /\ t.wm = s.wm /\ t.x.dead = s.x.dead
  BY <1>3, <1>7 DEF CState, XType
<1>9. Deaths(t) \subseteq Deaths(s)
  BY <1>4, <1>5, <1>7, <1>8 DEF Deaths
<1>10. Still(s, t) /\ Still(s, s)
  BY <1>8, <1>9 DEF Still, Keeps
<1>11. Install(s, c, fresh, by) = IF c \in Range(p) THEN s ELSE t
  BY Zenon DEF Install, p, some, out, in, new, mid, q
<1>12. QED
  BY <1>10, <1>11

\* A request of ctwm's counts nothing.
LEMMA XInstallColormapStill ==
  ASSUME NEW s \in CState, NEW c \in Colormap
  PROVE  Still(s, XInstallColormap(s, c))
<1> DEFINE old(e) == IF e.type = "cmap" /\ e.by = c THEN [e EXCEPT !.by = NoColormap] ELSE e
           q == [i \in DOMAIN s.x.queue |-> old(s.x.queue[i])]
           t == [s EXCEPT !.x.queue = q]
<1>1. s.x.queue \in Seq(CEvent)
  BY CStateIs
<1>2. \A i \in DOMAIN s.x.queue : s.x.queue[i] \in CEvent
  BY <1>1
<1>3. \A e \in CEvent : old(e) \in CEvent /\ (old(e).type = "destroy" => old(e) = e)
  BY DEF CEvent
<1> HIDE DEF old
<1>4. q \in [DOMAIN s.x.queue -> CEvent]
  BY <1>2, <1>3
<1>5. \A i \in DOMAIN q : q[i].type = "destroy" => q[i] = s.x.queue[i]
  BY <1>2, <1>3
<1> HIDE DEF q
<1>6. Still(s, t)
  BY <1>4, <1>5, MarkedIs
<1>7. t \in CState
  BY <1>6 DEF Still, Keeps
<1> HIDE DEF t
<1>8. Still(t, Install(t, c, TRUE, c))
  BY <1>7, InstallStill
<1>9. XInstallColormap(s, c) = Install(t, c, TRUE, c)
  BY Zenon DEF XInstallColormap, t, q, old
<1>10. QED
  BY <1>6, <1>8, <1>9, StillTwice

(***************************************************************************)
(* The loops of the code are functions defined by recursion.                *)
(***************************************************************************)

\* What holds at first and from each round to the next holds of all.
LEMMA RoundsStay ==
  ASSUME NEW n \in Nat, NEW A, NEW g, g[0] \in A,
         \A i \in 1 .. n : g[i - 1] \in A => g[i] \in A
  PROVE  \A i \in 0 .. n : g[i] \in A
<1> DEFINE T == {i \in 0 .. n : g[i] \notin A}
<1>1. SUFFICES ASSUME T # {} PROVE FALSE
  OBVIOUS
<1>2. PICK i \in T : \A k \in T : i <= k
  <2>1. T \in SUBSET Nat
    OBVIOUS
  <2>2. QED
    BY <1>1, <2>1, LeastNat
<1>3. i \in 1 .. n /\ i - 1 \in 0 .. n /\ ~ (i <= i - 1)
  BY <1>2
<1>4. g[i - 1] \in A
  BY <1>2, <1>3
<1>5. QED
  BY <1>2, <1>3, <1>4

\* One request after the other.
Requests(f, s, order) ==
  f = [i \in 0 .. Len(order) |-> IF i = 0 THEN s ELSE XInstallColormap(f[i - 1], order[i])]

\* The requests are made one after the other, and none counts anything.
LEMMA XInstallColormapsIs ==
  ASSUME NEW s \in CState, NEW order \in Seq(Colormap)
  PROVE  \E g \in [0 .. Len(order) -> {t \in CState : Still(s, t)}] :
           /\ XInstallColormaps(s, order) = g[Len(order)]
           /\ g[0] = s
           /\ \A i \in 1 .. Len(order) : g[i] = XInstallColormap(g[i - 1], order[i])
<1> DEFINE n == Len(order)
           A == {t \in CState : Still(s, t)}
           base == s
           Step(q, i) == XInstallColormap(q, order[i])
           h == [p \in A \X (1 .. n) |-> Step(p[1], p[2])]
<1>1. n \in Nat
  BY LenProperties
<1>2. base \in A
  <2>1. Still(s, s)
    BY DEF Still, Keeps
  <2>2. QED
    BY <2>1
<1>3. ASSUME NEW q \in A, NEW i \in 1 .. n PROVE Step(q, i) \in A
  <2>1. q \in CState /\ Still(s, q) /\ order[i] \in Colormap
    BY <1>3, LenProperties, ElementOfSeq
  <2>2. Still(q, XInstallColormap(q, order[i]))
    BY <2>1, XInstallColormapStill
  <2>3. QED
    BY <2>1, <2>2, StillTwice DEF Still, Keeps
<1> HIDE DEF n, A, base, Step
<1>4. h \in [A \X (1 .. n) -> A]
  BY <1>3
<1>5. PICK f \in [0 .. n -> A] :
        f[0] = base /\ \A i \in 1 .. n : f[i - 1] \in A /\ f[i] = h[<<f[i - 1], i>>]
  <2> HIDE DEF h
  <2>1. PICK f : Recursion(f, n, A, base, h)
    BY <1>1, <1>2, <1>4, RecursionExists
  <2>2. f \in [0 .. n -> A] /\ f[0] = base /\ \A i \in 1 .. n : f[i] = h[<<f[i - 1], i>>]
    BY <2>1 DEF Recursion
  <2>3. \A i \in 1 .. n : i - 1 \in 0 .. n
    BY <1>1
  <2>4. QED
    BY <2>2, <2>3
<1>6. \A i \in 1 .. n : f[i] = Step(f[i - 1], i)
  BY <1>5
<1>7. Requests(f, s, order)
  <2> DEFINE V(i) == IF i = 0 THEN base ELSE Step(f[i - 1], i)
  <2>1. \A i \in 0 .. n : i = 0 \/ i \in 1 .. n
    BY <1>1
  <2>2. \A i \in 0 .. n : f[i] = V(i)
    BY <1>5, <1>6, <2>1
  <2> HIDE DEF V
  <2>3. f = [i \in 0 .. n |-> V(i)]
    BY <1>5, <2>2
  <2>4. QED
    BY <2>3, Zenon DEF V, Requests, n, base, Step
<1> DEFINE g == CHOOSE p : Requests(p, s, order)
<1>8. Requests(g, s, order)
  BY <1>7
<1> HIDE DEF g
<1>9. g = [i \in 0 .. n |-> IF i = 0 THEN base ELSE Step(g[i - 1], i)]
  BY <1>8, Zenon DEF Requests, n, base, Step
<1>10. g[0] = base /\ \A i \in 1 .. n : g[i] = Step(g[i - 1], i)
  <2> DEFINE V(i) == IF i = 0 THEN base ELSE Step(g[i - 1], i)
  <2>1. 0 \in 0 .. n /\ \A i \in 1 .. n : i \in 0 .. n /\ i # 0
    BY <1>1
  <2>2. V(0) = base /\ \A i \in 1 .. n : V(i) = Step(g[i - 1], i)
    BY <2>1, Zenon
  <2> HIDE DEF V
  <2>3. g = [i \in 0 .. n |-> V(i)]
    BY <1>9, Zenon DEF V
  <2>4. QED
    BY <2>1, <2>2, <2>3
<1>11. \A i \in 0 .. n : g[i] \in A
  BY <1>1, <1>2, <1>3, <1>10, RoundsStay
<1>12. g \in [0 .. n -> A]
  <2> DEFINE V(i) == IF i = 0 THEN base ELSE Step(g[i - 1], i)
  <2>1. g = [i \in 0 .. n |-> V(i)]
    BY <1>9, Zenon
  <2> HIDE DEF V
  <2>2. QED
    BY <1>11, <2>1
<1>13. XInstallColormaps(s, order) = g[Len(order)]
  BY Zenon DEF XInstallColormaps, Requests, g, n
<1>14. QED
  BY <1>10, <1>12, <1>13, Zenon DEF n, A, base, Step

\* All requests count nothing.
LEMMA XInstallColormapsStill ==
  ASSUME NEW s \in CState, NEW order \in Seq(Colormap)
  PROVE  Still(s, XInstallColormaps(s, order))
<1> DEFINE n == Len(order)
           A == {t \in CState : Still(s, t)}
<1>1. n \in Nat /\ n \in 0 .. n
  BY LenProperties
<1>2. PICK g \in [0 .. n -> A] : XInstallColormaps(s, order) = g[n]
  BY XInstallColormapsIs
<1>3. g[n] \in A
  BY <1>1, <1>2
<1>4. QED
  BY <1>2, <1>3

(***************************************************************************)
(* The list in force is installed.                                          *)
(***************************************************************************)

\* Max chooses the greatest of a set of places.
LEMMA MaxIsGreatest ==
  ASSUME NEW n \in Nat, NEW T \in SUBSET (1 .. n), T # {}
  PROVE  Max(T) \in T /\ \A m \in T : m <= Max(T)
<1> DEFINE F == {n - m : m \in T}
<1>1. F \in SUBSET Nat /\ F # {}
  <2>1. \A m \in T : m \in 1 .. n /\ n - m \in Nat
    OBVIOUS
  <2>2. QED
    BY <2>1
<1>2. PICK k \in F : \A m \in F : k <= m
  BY <1>1, LeastNat
<1>3. PICK m \in T : k = n - m
  BY <1>2
<1>4. ASSUME NEW i \in T PROVE i <= m
  <2>1. n - i \in F
    OBVIOUS
  <2>2. n - m <= n - i
    BY <1>2, <1>3, <2>1
  <2>3. QED
    BY <2>2
<1>5. \A i \in T : m >= i
  BY <1>4
<1>6. Max(T) \in T /\ \A i \in T : Max(T) >= i
  BY <1>5, Zenon DEF Max
<1>7. QED
  BY <1>6

\* Which places are chosen.
Choosing(f, s, o) ==
  f = [i \in 0 .. Len(s.wm.cwins[o]) |->
         IF i = 0 THEN [seen |-> {}, chosen |-> {}] ELSE Consider(s, o, f[i - 1], i)]

\* The places are looked at one after the other.
LEMMA ChooseRounds ==
  ASSUME NEW s \in CState, NEW o \in Owner
  PROVE  \E g \in [0 .. Len(s.wm.cwins[o]) ->
                   [seen : SUBSET (1 .. Len(s.wm.cwins[o])),
                    chosen : SUBSET (1 .. Len(s.wm.cwins[o]))]] :
           /\ Choose(s, o) = g[Len(s.wm.cwins[o])]
           /\ g[0] = [seen |-> {}, chosen |-> {}]
           /\ \A i \in 1 .. Len(s.wm.cwins[o]) : g[i] = Consider(s, o, g[i - 1], i)
<1> DEFINE n == Len(s.wm.cwins[o])
           A == [seen : SUBSET (1 .. Len(s.wm.cwins[o])), chosen : SUBSET (1 .. Len(s.wm.cwins[o]))]
           base == [seen |-> {}, chosen |-> {}]
           Step(q, i) == Consider(s, o, q, i)
           h == [p \in A \X (1 .. n) |-> Step(p[1], p[2])]
<1>1. n \in Nat
  <2>1. s.wm.cwins[o] \in Seq(CWindow)
    BY CStateIs
  <2>2. QED
    BY <2>1, LenProperties
<1>2. base \in A
  OBVIOUS
<1>3. ASSUME NEW q \in A, NEW i \in 1 .. n PROVE Step(q, i) \in A
  <2> DEFINE maps == {MapOf(s, o, j) : j \in q.chosen}
             both == [seen |-> q.seen \cup {i},
                      chosen |-> IF GoesIn(s, o, i, maps) THEN q.chosen \cup {i} ELSE q.chosen]
             done == Cardinality(q.chosen) = maxCmaps \/ MapOf(s, o, i) \in maps
  <2>1. both \in A
    <3> HIDE DEF maps
    <3>1. q.seen \cup {i} \in SUBSET (1 .. n) /\ q.chosen \cup {i} \in SUBSET (1 .. n)
      BY <1>3
    <3>2. q.chosen \in SUBSET (1 .. n)
      BY <1>3
    <3> DEFINE some == IF GoesIn(s, o, i, maps) THEN q.chosen \cup {i} ELSE q.chosen
    <3>3. some \in SUBSET (1 .. n)
      BY <3>1, <3>2
    <3> HIDE DEF some
    <3>4. QED
      BY <3>1, <3>3 DEF some
  <2>2. Step(q, i) = IF done THEN q ELSE both
    BY Zenon DEF Consider
  <2> HIDE DEF both, done
  <2>3. QED
    BY <1>3, <2>1, <2>2
<1> HIDE DEF n, A, base, Step
<1>4. h \in [A \X (1 .. n) -> A]
  BY <1>3
<1>5. PICK f \in [0 .. n -> A] :
        f[0] = base /\ \A i \in 1 .. n : f[i - 1] \in A /\ f[i] = h[<<f[i - 1], i>>]
  <2> HIDE DEF h
  <2>1. PICK f : Recursion(f, n, A, base, h)
    BY <1>1, <1>2, <1>4, RecursionExists
  <2>2. f \in [0 .. n -> A] /\ f[0] = base /\ \A i \in 1 .. n : f[i] = h[<<f[i - 1], i>>]
    BY <2>1 DEF Recursion
  <2>3. \A i \in 1 .. n : i - 1 \in 0 .. n
    BY <1>1
  <2>4. QED
    BY <2>2, <2>3
<1>6. \A i \in 1 .. n : f[i] = Step(f[i - 1], i)
  BY <1>5
<1>7. Choosing(f, s, o)
  <2> DEFINE V(i) == IF i = 0 THEN base ELSE Step(f[i - 1], i)
  <2>1. \A i \in 0 .. n : i = 0 \/ i \in 1 .. n
    BY <1>1
  <2>2. \A i \in 0 .. n : f[i] = V(i)
    BY <1>5, <1>6, <2>1
  <2> HIDE DEF V
  <2>3. f = [i \in 0 .. n |-> V(i)]
    BY <1>5, <2>2
  <2>4. QED
    BY <2>3, Zenon DEF V, Choosing, n, base, Step
<1> DEFINE g == CHOOSE p : Choosing(p, s, o)
<1>8. Choosing(g, s, o)
  BY <1>7
<1> HIDE DEF g
<1>9. g = [i \in 0 .. n |-> IF i = 0 THEN base ELSE Step(g[i - 1], i)]
  BY <1>8, Zenon DEF Choosing, n, base, Step
<1>10. g[0] = base /\ \A i \in 1 .. n : g[i] = Step(g[i - 1], i)
  <2> DEFINE V(i) == IF i = 0 THEN base ELSE Step(g[i - 1], i)
  <2>1. 0 \in 0 .. n /\ \A i \in 1 .. n : i \in 0 .. n /\ i # 0
    BY <1>1
  <2>2. V(0) = base /\ \A i \in 1 .. n : V(i) = Step(g[i - 1], i)
    BY <2>1, Zenon
  <2> HIDE DEF V
  <2>3. g = [i \in 0 .. n |-> V(i)]
    BY <1>9, Zenon DEF V
  <2>4. QED
    BY <2>1, <2>2, <2>3
<1>11. \A i \in 0 .. n : g[i] \in A
  BY <1>1, <1>2, <1>3, <1>10, RoundsStay
<1>12. g \in [0 .. n -> A]
  <2> DEFINE V(i) == IF i = 0 THEN base ELSE Step(g[i - 1], i)
  <2>1. g = [i \in 0 .. n |-> V(i)]
    BY <1>9, Zenon
  <2> HIDE DEF V
  <2>2. QED
    BY <1>11, <2>1
<1>13. Choose(s, o) = g[Len(s.wm.cwins[o])]
  BY Zenon DEF Choose, Choosing, g, n
<1>14. QED
  BY <1>10, <1>12, <1>13, Zenon DEF n, A, base, Step

\* What is chosen are places on the list.
LEMMA ChooseIs ==
  ASSUME NEW s \in CState, NEW o \in Owner
  PROVE  /\ Choose(s, o).seen \in SUBSET (1 .. Len(s.wm.cwins[o]))
         /\ Choose(s, o).chosen \in SUBSET (1 .. Len(s.wm.cwins[o]))
<1> DEFINE n == Len(s.wm.cwins[o])
           A == [seen : SUBSET (1 .. n), chosen : SUBSET (1 .. n)]
<1>1. n \in Nat
  <2>1. s.wm.cwins[o] \in Seq(CWindow)
    BY CStateIs
  <2>2. QED
    BY <2>1, LenProperties
<1>2. PICK g \in [0 .. n -> A] : Choose(s, o) = g[n]
  BY ChooseRounds
<1> HIDE DEF n
<1>3. g[n] \in A
  BY <1>1, <1>2
<1>4. QED
  BY <1>2, <1>3 DEF n

\* The colormap of a place on a list.
LEMMA MapOfIs ==
  ASSUME NEW s \in CState, NEW o \in Owner, NEW i \in 1 .. Len(s.wm.cwins[o])
  PROVE  s.wm.cwins[o][i] \in CWindow /\ MapOf(s, o, i) \in Colormap
<1>1. s.wm.cwins[o] \in Seq(CWindow)
  BY CStateIs
<1>2. s.wm.cwins[o][i] \in CWindow
  BY <1>1, ElementOfSeq
<1>3. s.wm.cwin[s.wm.cwins[o][i]].colormap \in Colormap
  <2> DEFINE w == s.wm.cwins[o][i]
  <2>1. w \in CWindow
    BY <1>2
  <2> HIDE DEF w
  <2>2. s.wm.cwin[w].colormap \in Colormap
    BY <2>1, CStateIs DEF LookedAt
  <2>3. QED
    BY <2>2 DEF w
<1>4. QED
  BY <1>2, <1>3 DEF MapOf

\* The last chosen place is one.
LEMMA LastPlaceIs ==
  ASSUME NEW s \in CState, NEW o \in Owner,
         NEW chosen \in SUBSET (1 .. Len(s.wm.cwins[o])), chosen # {}
  PROVE  Max(chosen) \in 1 .. Len(s.wm.cwins[o])
<1> DEFINE n == Len(s.wm.cwins[o])
<1>1. s.wm.cwins[o] \in Seq(CWindow)
  BY CStateIs
<1>2. n \in Nat /\ chosen \in SUBSET (1 .. n)
  BY <1>1, LenProperties
<1> HIDE DEF n
<1>3. Max(chosen) \in chosen
  BY <1>2, MaxIsGreatest
<1>4. QED
  BY <1>2, <1>3 DEF n

\* A colormap more is a list of colormaps.
LEMMA OrderTooIs ==
  ASSUME NEW maps, NEW list \in Seq(Colormap), NEW c \in Colormap
  PROVE  OrderToo(maps, list, c) \in Seq(Colormap)
BY AppendProperties DEF OrderToo

\* Which colormaps are requested, for a last place.
Ordering(f, s, o, chosen) ==
  f = [i \in 0 .. Max(chosen) |->
         IF i = 0 THEN <<>>
         ELSE OrderToo({MapOf(s, o, j) : j \in chosen}, f[i - 1],
                       MapOf(s, o, Max(chosen) + 1 - i))]

\* The colormaps are gathered from the last chosen place up.
LEMMA OrderRounds ==
  ASSUME NEW s \in CState, NEW o \in Owner,
         NEW chosen \in SUBSET (1 .. Len(s.wm.cwins[o])), chosen # {}
  PROVE  \E g \in [0 .. Max(chosen) -> Seq(Colormap)] :
           /\ Order(s, o, chosen) = g[Max(chosen)]
           /\ g[0] = <<>>
           /\ \A i \in 1 .. Max(chosen) :
                g[i] = OrderToo({MapOf(s, o, j) : j \in chosen}, g[i - 1],
                                MapOf(s, o, Max(chosen) + 1 - i))
<1> DEFINE n == Max(chosen)
           A == Seq(Colormap)
           base == <<>>
           Step(q, i) == OrderToo({MapOf(s, o, j) : j \in chosen}, q,
                                  MapOf(s, o, Max(chosen) + 1 - i))
           h == [p \in A \X (1 .. n) |-> Step(p[1], p[2])]
<1>1. n \in Nat
  <2>1. n \in 1 .. Len(s.wm.cwins[o])
    BY LastPlaceIs
  <2>2. QED
    BY <2>1
<1>2. base \in A
  OBVIOUS
<1>3. ASSUME NEW q \in A, NEW i \in 1 .. n PROVE Step(q, i) \in A
  <2>1. n + 1 - i \in 1 .. Len(s.wm.cwins[o])
    <3>1. n \in 1 .. Len(s.wm.cwins[o]) /\ Len(s.wm.cwins[o]) \in Nat
      <4>1. s.wm.cwins[o] \in Seq(CWindow)
        BY CStateIs
      <4>2. QED
        BY <4>1, LastPlaceIs, LenProperties
    <3> HIDE DEF n
    <3>2. QED
      BY <1>3, <3>1
  <2>2. MapOf(s, o, n + 1 - i) \in Colormap
    BY <2>1, MapOfIs
  <2> DEFINE maps == {MapOf(s, o, j) : j \in chosen}
             c == MapOf(s, o, n + 1 - i)
  <2> HIDE DEF maps, c
  <2>3. OrderToo(maps, q, c) \in Seq(Colormap)
    BY <1>3, <2>2, OrderTooIs DEF c
  <2>4. QED
    BY <2>3 DEF maps, c
<1> HIDE DEF n, A, base, Step
<1>4. h \in [A \X (1 .. n) -> A]
  BY <1>3
<1>5. PICK f \in [0 .. n -> A] :
        f[0] = base /\ \A i \in 1 .. n : f[i - 1] \in A /\ f[i] = h[<<f[i - 1], i>>]
  <2> HIDE DEF h
  <2>1. PICK f : Recursion(f, n, A, base, h)
    BY <1>1, <1>2, <1>4, RecursionExists
  <2>2. f \in [0 .. n -> A] /\ f[0] = base /\ \A i \in 1 .. n : f[i] = h[<<f[i - 1], i>>]
    BY <2>1 DEF Recursion
  <2>3. \A i \in 1 .. n : i - 1 \in 0 .. n
    BY <1>1
  <2>4. QED
    BY <2>2, <2>3
<1>6. \A i \in 1 .. n : f[i] = Step(f[i - 1], i)
  BY <1>5
<1>7. Ordering(f, s, o, chosen)
  <2> DEFINE V(i) == IF i = 0 THEN base ELSE Step(f[i - 1], i)
  <2>1. \A i \in 0 .. n : i = 0 \/ i \in 1 .. n
    BY <1>1
  <2>2. \A i \in 0 .. n : f[i] = V(i)
    BY <1>5, <1>6, <2>1
  <2> HIDE DEF V
  <2>3. f = [i \in 0 .. n |-> V(i)]
    BY <1>5, <2>2
  <2>4. QED
    BY <2>3, Zenon DEF V, Ordering, n, base, Step
<1> DEFINE g == CHOOSE p : Ordering(p, s, o, chosen)
<1>8. Ordering(g, s, o, chosen)
  BY <1>7
<1> HIDE DEF g
<1>9. g = [i \in 0 .. n |-> IF i = 0 THEN base ELSE Step(g[i - 1], i)]
  BY <1>8, Zenon DEF Ordering, n, base, Step
<1>10. g[0] = base /\ \A i \in 1 .. n : g[i] = Step(g[i - 1], i)
  <2> DEFINE V(i) == IF i = 0 THEN base ELSE Step(g[i - 1], i)
  <2>1. 0 \in 0 .. n /\ \A i \in 1 .. n : i \in 0 .. n /\ i # 0
    BY <1>1
  <2>2. V(0) = base /\ \A i \in 1 .. n : V(i) = Step(g[i - 1], i)
    BY <2>1, Zenon
  <2> HIDE DEF V
  <2>3. g = [i \in 0 .. n |-> V(i)]
    BY <1>9, Zenon DEF V
  <2>4. QED
    BY <2>1, <2>2, <2>3
<1>11. \A i \in 0 .. n : g[i] \in A
  BY <1>1, <1>2, <1>3, <1>10, RoundsStay
<1>12. g \in [0 .. n -> A]
  <2> DEFINE V(i) == IF i = 0 THEN base ELSE Step(g[i - 1], i)
  <2>1. g = [i \in 0 .. n |-> V(i)]
    BY <1>9, Zenon
  <2> HIDE DEF V
  <2>2. QED
    BY <1>11, <2>1
<1>13. Order(s, o, chosen) = g[Max(chosen)]
  BY Zenon DEF Order, Ordering, g, n
<1>14. QED
  BY <1>10, <1>12, <1>13, Zenon DEF n, A, base, Step

\* What is requested are colormaps.
LEMMA OrderIs ==
  ASSUME NEW s \in CState, NEW o \in Owner, NEW chosen \in SUBSET (1 .. Len(s.wm.cwins[o]))
  PROVE  Order(s, o, chosen) \in Seq(Colormap)
<1>1. CASE chosen = {}
  BY <1>1, EmptySeq DEF Order
<1>2. CASE chosen # {}
  <2> DEFINE n == Max(chosen)
  <2>1. PICK g \in [0 .. n -> Seq(Colormap)] : Order(s, o, chosen) = g[n]
    BY <1>2, OrderRounds
  <2>2. n \in Nat
    <3>1. n \in 1 .. Len(s.wm.cwins[o])
      BY <1>2, LastPlaceIs
    <3>2. QED
      BY <3>1
  <2> HIDE DEF n
  <2>3. QED
    BY <2>1, <2>2
<1>3. QED
  BY <1>1, <1>2

\* Other states of the colormaps.
LEMMA CmapStill ==
  ASSUME NEW s \in CState,
         NEW cmap \in [Colormap -> MapState],
         \A c \in Colormap : cmap[c].refcnt = s.wm.cmap[c].refcnt
  PROVE  /\ Still(s, [s EXCEPT !.wm.cmap = cmap])
         /\ Still(s, [s EXCEPT !.wm.cmap = cmap, !.wm.ColortableThrashing = FALSE])
<1>1. ASSUME NEW t, t \in CState, t.x = s.x, t.wm.cmap = cmap,
             t.wm.cwin = s.wm.cwin, t.wm.cwins = s.wm.cwins, t.wm.cmaps = s.wm.cmaps,
             t.wm.pushed_cmaps = s.wm.pushed_cmaps, t.wm.root_pushes = s.wm.root_pushes
      PROVE  Still(s, t)
  BY <1>1 DEF Still, Keeps, Deaths
<1> DEFINE t == [s EXCEPT !.wm.cmap = cmap]
           u == [s EXCEPT !.wm.cmap = cmap, !.wm.ColortableThrashing = FALSE]
<1>2. /\ t \in CState /\ t.x = s.x /\ t.wm.cmap = cmap
      /\ t.wm.cwin = s.wm.cwin /\ t.wm.cwins = s.wm.cwins /\ t.wm.cmaps = s.wm.cmaps
      /\ t.wm.pushed_cmaps = s.wm.pushed_cmaps /\ t.wm.root_pushes = s.wm.root_pushes
  BY DEF CState, WmType, MapState
<1>3. /\ u \in CState /\ u.x = s.x /\ u.wm.cmap = cmap
      /\ u.wm.cwin = s.wm.cwin /\ u.wm.cwins = s.wm.cwins /\ u.wm.cmaps = s.wm.cmaps
      /\ u.wm.pushed_cmaps = s.wm.pushed_cmaps /\ u.wm.root_pushes = s.wm.root_pushes
  BY DEF CState, WmType, MapState
<1> HIDE DEF t, u
<1>4. Still(s, t) /\ Still(s, u)
  BY <1>1, <1>2, <1>3
<1>5. QED
  BY <1>4 DEF t, u

\* What InstallColormaps marks is a state of the colormaps.
LEMMA MarkCmap ==
  ASSUME NEW cmap \in MapState,
         NEW v \in CWindow, NEW b \in BOOLEAN
  PROVE  LET r == [cmap EXCEPT !.installable = TRUE, !.w = v, !.installed = @ \/ b]
         IN  /\ r \in MapState
             /\ r.refcnt = cmap.refcnt
<1> DEFINE i == cmap.installed \/ b
           r == [cmap EXCEPT !.installable = TRUE, !.w = v, !.installed = i]
<1>1. i \in BOOLEAN
  OBVIOUS
<1> HIDE DEF i
<1>2. /\ r \in MapState
      /\ r.refcnt = cmap.refcnt
  BY <1>1 DEF MapState
<1>3. QED
  BY <1>2 DEF i

\* InstallColormaps of the list in force counts nothing.
LEMMA InstallListStill ==
  ASSUME NEW s \in CState
  PROVE  Still(s, InstallList(s))
<1> DEFINE o == s.wm.cmaps
           c == Choose(s, o)
           order == Order(s, o, c.chosen)
           there == \A m \in Range(order) : s.wm.cmap[m].installed
           of(m) == {i \in c.seen : MapOf(s, o, i) = m}
           last(m) == Max(of(m))
           mark(m) == [s.wm.cmap[m] EXCEPT !.installable = TRUE,
                                           !.w = s.wm.cwins[o][last(m)],
                                           !.installed = @ \/ m \in Range(order)]
           some(m) == IF \E i \in c.seen : MapOf(s, o, i) = m THEN mark(m) ELSE s.wm.cmap[m]
           marked == [m \in Colormap |-> some(m)]
           stale(e) == IF e.type = "cmap" THEN [e EXCEPT !.fresh = FALSE] ELSE e
           q == [i \in DOMAIN s.x.queue |-> stale(s.x.queue[i])]
           u == [s EXCEPT !.wm.cmap = marked, !.wm.ColortableThrashing = FALSE]
           t == [s EXCEPT !.wm.cmap = marked, !.wm.ColortableThrashing = FALSE, !.x.queue = q]
<1>1. o \in Owner
  BY CStateIs
<1> HIDE DEF o
<1>2. /\ c.seen \in SUBSET (1 .. Len(s.wm.cwins[o]))
      /\ c.chosen \in SUBSET (1 .. Len(s.wm.cwins[o]))
  BY <1>1, ChooseIs
<1> HIDE DEF c
<1>3. order \in Seq(Colormap)
  BY <1>1, <1>2, OrderIs
<1> HIDE DEF order
<1>4. ASSUME NEW m \in Colormap, NEW i \in c.seen, MapOf(s, o, i) = m
      PROVE  mark(m) \in MapState /\ mark(m).refcnt = s.wm.cmap[m].refcnt
  <2>1. of(m) \in SUBSET (1 .. Len(s.wm.cwins[o])) /\ of(m) # {}
    BY <1>2, <1>4
  <2> HIDE DEF of
  <2>2. last(m) \in 1 .. Len(s.wm.cwins[o])
    BY <1>1, <2>1, LastPlaceIs
  <2> DEFINE v == s.wm.cwins[o][last(m)]
             b == m \in Range(order)
  <2>3. v \in CWindow
    BY <1>1, <2>2, MapOfIs
  <2>4. s.wm.cmap[m] \in MapState
    BY CStateIs
  <2> DEFINE k == s.wm.cmap[m]
  <2>5. b \in BOOLEAN /\ k \in MapState
    BY <2>4
  <2> HIDE DEF v, b, k
  <2>6. LET r == [k EXCEPT !.installable = TRUE, !.w = v, !.installed = @ \/ b]
        IN  r \in MapState /\ r.refcnt = k.refcnt
    BY <2>3, <2>5, MarkCmap
  <2>7. QED
    BY <2>6, Zenon DEF v, b, k
<1>5. \A m \in Colormap : some(m) \in MapState /\ some(m).refcnt = s.wm.cmap[m].refcnt
  <2>1. ASSUME NEW m \in Colormap
        PROVE  some(m) \in MapState /\ some(m).refcnt = s.wm.cmap[m].refcnt
    <3>1. s.wm.cmap[m] \in MapState
      BY CStateIs
    <3> HIDE DEF mark
    <3>2. CASE \E i \in c.seen : MapOf(s, o, i) = m
      <4>1. mark(m) \in MapState /\ mark(m).refcnt = s.wm.cmap[m].refcnt
        BY <1>4, <3>2
      <4>2. some(m) = mark(m)
        BY <3>2, Zenon
      <4>3. QED
        BY <4>1, <4>2, Zenon
    <3>3. CASE ~ \E i \in c.seen : MapOf(s, o, i) = m
      <4>1. some(m) = s.wm.cmap[m]
        BY <3>3, Zenon
      <4>2. QED
        BY <3>1, <4>1, Zenon
    <3>4. QED
      BY <3>2, <3>3, Zenon
  <2>2. QED
    BY <2>1, Zenon
<1> HIDE DEF some
<1>6. /\ marked \in [Colormap -> MapState]
      /\ \A m \in Colormap : marked[m].refcnt = s.wm.cmap[m].refcnt
  BY <1>5
<1> HIDE DEF marked
<1>7. Still(s, u)
  BY <1>6, CmapStill
<1>8. u \in CState /\ u.x = s.x
  <2>1. u \in CState
    BY <1>7 DEF Still, Keeps
  <2>2. u.x = s.x
    BY DEF CState
  <2>3. QED
    BY <2>1, <2>2
<1>9. t = [u EXCEPT !.x.queue = q]
  BY DEF CState, XType, WmType
<1>10. Still(u, t)
  <2>1. s.x.queue \in Seq(CEvent)
    BY CStateIs
  <2>2. \A i \in DOMAIN s.x.queue : s.x.queue[i] \in CEvent
    BY <2>1
  <2>3. \A e \in CEvent : stale(e) \in CEvent /\ (stale(e).type = "destroy" => stale(e) = e)
    BY DEF CEvent
  <2> HIDE DEF stale
  <2>4. q \in [DOMAIN s.x.queue -> CEvent]
    BY <2>2, <2>3
  <2>5. \A i \in DOMAIN q : q[i].type = "destroy" => q[i] = s.x.queue[i]
    BY <2>2, <2>3
  <2> HIDE DEF q, u, t
  <2>6. Still(u, [u EXCEPT !.x.queue = q])
    BY <1>8, <2>4, <2>5, MarkedIs
  <2>7. QED
    BY <1>9, <2>6
<1> HIDE DEF u, t, q, there
<1>11. Still(s, t)
  BY <1>7, <1>10, StillTwice
<1>12. t \in CState
  BY <1>11 DEF Still, Keeps
<1>13. Still(s, XInstallColormaps(t, order))
  BY <1>3, <1>11, <1>12, XInstallColormapsStill, StillTwice
<1>14. InstallList(s) = IF there THEN t ELSE XInstallColormaps(t, order)
  BY Zenon DEF InstallList, t, q, there, order, c, o, marked, some
<1>15. QED
  BY <1>11, <1>13, <1>14

(***************************************************************************)
(* One reference more, and one less.                                        *)
(***************************************************************************)

\* What is counted is finite.
LEMMA WearingFinite ==
  ASSUME NEW s, NEW c
  PROVE  IsFiniteSet(Wearing(s, c)) /\ Cardinality(Wearing(s, c)) \in Nat
<1>1. Wearing(s, c) \in SUBSET CWindow
  BY DEF Wearing
<1>2. QED
  BY <1>1, WindowsFinite, FS_Subset, FS_CardinalityType

\* The colormaps are counted right if the windows that have one are the same.
LEMMA SameWearing ==
  ASSUME NEW s, NEW t, ColorsCounted(s),
         \A c \in Colormap : t.wm.cmap[c].refcnt = s.wm.cmap[c].refcnt,
         \A c \in Colormap : Wearing(t, c) = Wearing(s, c)
  PROVE  ColorsCounted(t)
BY DEF ColorsCounted

\* From s to t nothing else than what is known of windows and colormaps changes.
Around(s, t) ==
  /\ t \in CState /\ t.x = s.x /\ t.wm.cwins = s.wm.cwins /\ t.wm.cmaps = s.wm.cmaps
  /\ t.wm.pushed_cmaps = s.wm.pushed_cmaps /\ t.wm.root_pushes = s.wm.root_pushes

\* Something else is known of one window.
LEMMA CwinIs ==
  ASSUME NEW s \in CState, NEW w \in CWindow, NEW r \in LookedAt
  PROVE  LET t == [s EXCEPT !.wm.cwin[w] = r]
         IN  /\ Around(s, t) /\ t.wm.cmap = s.wm.cmap
             /\ t.wm.cwin[w] = r
             /\ \A v \in CWindow \ {w} : t.wm.cwin[v] = s.wm.cwin[v]
<1> DEFINE cwin == [s.wm.cwin EXCEPT ![w] = r]
           t == [s EXCEPT !.wm.cwin = cwin]
<1>1. s.wm.cwin \in [CWindow -> LookedAt]
  BY CStateIs
<1>2. /\ cwin \in [CWindow -> LookedAt] /\ cwin[w] = r
      /\ \A v \in CWindow \ {w} : cwin[v] = s.wm.cwin[v]
  BY <1>1
<1>3. [s EXCEPT !.wm.cwin[w] = r] = t
  BY Zenon
<1> HIDE DEF cwin
<1>4. t \in CState /\ t.x = s.x /\ t.wm.cwins = s.wm.cwins /\ t.wm.cmaps = s.wm.cmaps
  BY <1>2 DEF CState, WmType, LookedAt
<1>5. /\ t.wm.pushed_cmaps = s.wm.pushed_cmaps /\ t.wm.root_pushes = s.wm.root_pushes
      /\ t.wm.cmap = s.wm.cmap /\ t.wm.cwin = cwin
  BY DEF CState, WmType
<1> HIDE DEF t
<1>6. QED
  BY <1>2, <1>3, <1>4, <1>5 DEF Around

\* Something else is known of one colormap.
LEMMA CmapIs ==
  ASSUME NEW s \in CState, NEW c \in Colormap, NEW k \in MapState
  PROVE  LET t == [s EXCEPT !.wm.cmap[c] = k]
         IN  /\ Around(s, t) /\ t.wm.cwin = s.wm.cwin
             /\ t.wm.cmap[c] = k
             /\ \A d \in Colormap \ {c} : t.wm.cmap[d] = s.wm.cmap[d]
<1> DEFINE cmap == [s.wm.cmap EXCEPT ![c] = k]
           t == [s EXCEPT !.wm.cmap = cmap]
<1>1. s.wm.cmap \in [Colormap -> MapState]
  BY CStateIs
<1>2. /\ cmap \in [Colormap -> MapState] /\ cmap[c] = k
      /\ \A d \in Colormap \ {c} : cmap[d] = s.wm.cmap[d]
  BY <1>1
<1>3. [s EXCEPT !.wm.cmap[c] = k] = t
  BY Zenon
<1> HIDE DEF cmap
<1>4. t \in CState /\ t.x = s.x /\ t.wm.cwins = s.wm.cwins /\ t.wm.cmaps = s.wm.cmaps
  BY <1>2 DEF CState, WmType, MapState
<1>5. /\ t.wm.pushed_cmaps = s.wm.pushed_cmaps /\ t.wm.root_pushes = s.wm.root_pushes
      /\ t.wm.cwin = s.wm.cwin /\ t.wm.cmap = cmap
  BY DEF CState, WmType
<1> HIDE DEF t
<1>6. QED
  BY <1>2, <1>3, <1>4, <1>5 DEF Around

\* A colormap that is held once more, by w, or by w no longer.
LEMMA HeldMore ==
  ASSUME NEW s, NEW t, ColorsCounted(s), NEW w \in CWindow, NEW c \in Colormap,
         \A d \in Colormap \ {c} :
           t.wm.cmap[d].refcnt = s.wm.cmap[d].refcnt /\ Wearing(t, d) = Wearing(s, d),
         t.wm.cmap[c].refcnt = s.wm.cmap[c].refcnt + 1,
         Wearing(t, c) = Wearing(s, c) \cup {w}, w \notin Wearing(s, c)
  PROVE  ColorsCounted(t)
<1>1. Cardinality(Wearing(t, c)) = Cardinality(Wearing(s, c)) + 1
  BY WearingFinite, FS_AddElement
<1>2. QED
  BY <1>1 DEF ColorsCounted

\* A colormap that is held once less, by w.
LEMMA HeldLess ==
  ASSUME NEW s, NEW t, ColorsCounted(s), NEW w \in CWindow, NEW c \in Colormap,
         \A d \in Colormap \ {c} :
           t.wm.cmap[d].refcnt = s.wm.cmap[d].refcnt /\ Wearing(t, d) = Wearing(s, d),
         t.wm.cmap[c].refcnt = s.wm.cmap[c].refcnt - 1,
         Wearing(t, c) = Wearing(s, c) \ {w}, w \in Wearing(s, c)
  PROVE  ColorsCounted(t)
<1>1. Cardinality(Wearing(t, c)) = Cardinality(Wearing(s, c)) - 1
  BY WearingFinite, FS_RemoveElement
<1>2. QED
  BY <1>1 DEF ColorsCounted

\* What NewColormap and CreateColormapWindow make of a colormap that is held.
LEMMA HeldIs ==
  ASSUME NEW k \in MapState
  PROVE  Held(k) \in MapState /\ Held(k).refcnt = k.refcnt + 1
<1>1. k.refcnt \in Nat
  BY DEF MapState
<1>2. CASE k.refcnt > 0
  <2> DEFINE h == [k EXCEPT !.refcnt = k.refcnt + 1]
  <2>1. h \in MapState /\ h.refcnt = k.refcnt + 1
    BY <1>1 DEF MapState
  <2>2. QED
    BY <1>2, <2>1 DEF Held
<1>3. CASE ~ (k.refcnt > 0)
  <2>1. k.refcnt = 0
    BY <1>1, <1>3
  <2>2. [NoCmap EXCEPT !.refcnt = 1] \in MapState /\ [NoCmap EXCEPT !.refcnt = 1].refcnt = 1
    BY DEF MapState, NoCmap
  <2>3. QED
    BY <1>3, <2>1, <2>2 DEF Held
<1>4. QED
  BY <1>2, <1>3

\* A window that is looked at once more.
LEMMA CreateIs ==
  ASSUME NEW s \in CState, ColorsCounted(s), NEW w \in CWindow, NEW visibility \in Visibility
  PROVE  LET t == CreateColormapWindow(s, w, visibility)
         IN  /\ Around(s, t) /\ ColorsCounted(t)
             /\ \A v \in CWindow :
                  t.wm.cwin[v].refcnt = s.wm.cwin[v].refcnt + IF v = w THEN 1 ELSE 0
<1>1. /\ s.wm.cwin \in [CWindow -> LookedAt] /\ s.wm.cmap \in [Colormap -> MapState]
      /\ s.x.colormap[w] \in Colormap
  BY CStateIs
<1>2. \A v \in CWindow : s.wm.cwin[v].refcnt \in Nat /\ s.wm.cwin[v].colormap \in Colormap
  BY <1>1 DEF LookedAt
<1>3. CASE s.wm.cwin[w].refcnt > 0
  <2> DEFINE r == [s.wm.cwin[w] EXCEPT !.refcnt = s.wm.cwin[w].refcnt + 1]
             t == [s EXCEPT !.wm.cwin[w] = r]
  <2>1. /\ r \in LookedAt /\ r.refcnt = s.wm.cwin[w].refcnt + 1
        /\ r.colormap = s.wm.cwin[w].colormap
    <3> DEFINE k == s.wm.cwin[w]
    <3>1. k \in LookedAt
      BY <1>1
    <3> HIDE DEF k
    <3>2. /\ [k EXCEPT !.refcnt = k.refcnt + 1] \in LookedAt
          /\ [k EXCEPT !.refcnt = k.refcnt + 1].refcnt = k.refcnt + 1
          /\ [k EXCEPT !.refcnt = k.refcnt + 1].colormap = k.colormap
      BY <3>1 DEF LookedAt
    <3>3. QED
      BY <3>2 DEF k
  <2>2. CreateColormapWindow(s, w, visibility) = t
    BY <1>3, Zenon DEF CreateColormapWindow
  <2> HIDE DEF r
  <2>3. /\ Around(s, t) /\ t.wm.cmap = s.wm.cmap /\ t.wm.cwin[w] = r
        /\ \A v \in CWindow \ {w} : t.wm.cwin[v] = s.wm.cwin[v]
    BY <2>1, CwinIs
  <2> HIDE DEF t
  <2>4. \A v \in CWindow : /\ t.wm.cwin[v].refcnt = s.wm.cwin[v].refcnt + IF v = w THEN 1 ELSE 0
                           /\ t.wm.cwin[v].colormap = s.wm.cwin[v].colormap
    BY <1>2, <2>1, <2>3
  <2>5. \A c \in Colormap : Wearing(t, c) = Wearing(s, c)
    BY <1>2, <1>3, <2>4 DEF Wearing
  <2>6. ColorsCounted(t)
    BY <2>3, <2>5, SameWearing
  <2>7. QED
    BY <2>2, <2>3, <2>4, <2>6
<1>4. CASE ~ (s.wm.cwin[w].refcnt > 0)
  <2> DEFINE c == s.x.colormap[w]
             r == [refcnt |-> 1, colormap |-> c, visibility |-> visibility]
             a == [s EXCEPT !.wm.cwin[w] = r]
             k == s.wm.cmap[c]
             held == Held(k)
             t == [a EXCEPT !.wm.cmap[c] = held]
  <2>1. CreateColormapWindow(s, w, visibility) = t
    BY <1>4, Zenon DEF CreateColormapWindow
  <2>2. c \in Colormap /\ r \in LookedAt /\ r.refcnt = 1 /\ r.colormap = c
    BY <1>1 DEF LookedAt
  <2> HIDE DEF c, r
  <2>3. /\ Around(s, a) /\ a.wm.cmap = s.wm.cmap /\ a.wm.cwin[w] = r
        /\ \A v \in CWindow \ {w} : a.wm.cwin[v] = s.wm.cwin[v]
    BY <2>2, CwinIs
  <2> HIDE DEF a
  <2>4. k \in MapState
    BY <1>1, <2>2
  <2> HIDE DEF k
  <2>5. held \in MapState /\ held.refcnt = k.refcnt + 1
    BY <2>4, HeldIs
  <2> HIDE DEF held
  <2>6. a \in CState
    BY <2>3 DEF Around
  <2>7. /\ Around(a, t) /\ t.wm.cwin = a.wm.cwin /\ t.wm.cmap[c] = held
        /\ \A d \in Colormap \ {c} : t.wm.cmap[d] = a.wm.cmap[d]
    BY <2>2, <2>5, <2>6, CmapIs
  <2> HIDE DEF t
  <2>8. Around(s, t)
    BY <2>3, <2>7 DEF Around
  <2>9. s.wm.cwin[w].refcnt = 0
    BY <1>2, <1>4
  <2>10. \A v \in CWindow : /\ t.wm.cwin[v].refcnt = s.wm.cwin[v].refcnt + IF v = w THEN 1 ELSE 0
                            /\ v # w => t.wm.cwin[v] = s.wm.cwin[v]
    BY <1>2, <2>2, <2>3, <2>7, <2>9
  <2>11. t.wm.cwin[w].colormap = c /\ t.wm.cwin[w].refcnt = 1
    BY <2>2, <2>3, <2>7
  <2>12. ASSUME NEW d \in Colormap \ {c} PROVE Wearing(t, d) = Wearing(s, d)
    BY <2>9, <2>10, <2>11 DEF Wearing
  <2>13. Wearing(t, c) = Wearing(s, c) \cup {w} /\ w \notin Wearing(s, c)
    BY <2>9, <2>10, <2>11 DEF Wearing
  <2>14. /\ t.wm.cmap[c].refcnt = s.wm.cmap[c].refcnt + 1
         /\ \A d \in Colormap \ {c} : t.wm.cmap[d].refcnt = s.wm.cmap[d].refcnt
    BY <2>3, <2>5, <2>7 DEF k
  <2>15. ColorsCounted(t)
    BY <2>2, <2>12, <2>13, <2>14, HeldMore
  <2>16. QED
    BY <2>1, <2>8, <2>10, <2>15
<1>5. QED
  BY <1>3, <1>4

\* A window that is looked at once less.
LEMMA DropIs ==
  ASSUME NEW s \in CState, ColorsCounted(s), NEW w \in CWindow, s.wm.cwin[w].refcnt > 0
  PROVE  LET t == DropWindow(s, w)
         IN  /\ Around(s, t) /\ ColorsCounted(t)
             /\ \A v \in CWindow :
                  t.wm.cwin[v].refcnt = s.wm.cwin[v].refcnt - IF v = w THEN 1 ELSE 0
<1> DEFINE r == [s.wm.cwin[w] EXCEPT !.refcnt = s.wm.cwin[w].refcnt - 1]
           t == [s EXCEPT !.wm.cwin[w] = r]
           c == s.wm.cwin[w].colormap
           k == [t.wm.cmap[c] EXCEPT !.refcnt = t.wm.cmap[c].refcnt - 1]
           u == [t EXCEPT !.wm.cmap[c] = k]
<1>1. DropWindow(s, w) = IF t.wm.cwin[w].refcnt > 0 THEN t ELSE u
  BY Zenon DEF DropWindow
<1>2. s.wm.cwin \in [CWindow -> LookedAt] /\ s.wm.cmap \in [Colormap -> MapState]
  BY CStateIs
<1>3. \A v \in CWindow : s.wm.cwin[v].refcnt \in Nat /\ s.wm.cwin[v].colormap \in Colormap
  BY <1>2 DEF LookedAt
<1>4. c \in Colormap
  BY <1>3
<1>5. /\ r \in LookedAt /\ r.refcnt = s.wm.cwin[w].refcnt - 1
      /\ r.colormap = s.wm.cwin[w].colormap
  <2> DEFINE l == s.wm.cwin[w]
  <2>1. l \in LookedAt /\ l.refcnt - 1 \in Nat
    BY <1>2, <1>3
  <2> HIDE DEF l
  <2>2. /\ [l EXCEPT !.refcnt = l.refcnt - 1] \in LookedAt
        /\ [l EXCEPT !.refcnt = l.refcnt - 1].refcnt = l.refcnt - 1
        /\ [l EXCEPT !.refcnt = l.refcnt - 1].colormap = l.colormap
    BY <2>1 DEF LookedAt
  <2>3. QED
    BY <2>2 DEF l
<1> HIDE DEF r, c
<1>6. /\ Around(s, t) /\ t.wm.cmap = s.wm.cmap /\ t.wm.cwin[w] = r
      /\ \A v \in CWindow \ {w} : t.wm.cwin[v] = s.wm.cwin[v]
  BY <1>5, CwinIs
<1> HIDE DEF t
<1>7. \A v \in CWindow : /\ t.wm.cwin[v].refcnt = s.wm.cwin[v].refcnt - IF v = w THEN 1 ELSE 0
                         /\ t.wm.cwin[v].colormap = s.wm.cwin[v].colormap
  BY <1>3, <1>5, <1>6
<1>8. CASE t.wm.cwin[w].refcnt > 0
  <2>1. \A d \in Colormap : Wearing(t, d) = Wearing(s, d)
    BY <1>3, <1>7, <1>8 DEF Wearing
  <2>2. ColorsCounted(t)
    BY <1>6, <2>1, SameWearing
  <2>3. DropWindow(s, w) = t
    BY <1>1, <1>8
  <2>4. QED
    BY <1>6, <1>7, <2>2, <2>3
<1>9. CASE ~ (t.wm.cwin[w].refcnt > 0)
  <2>1. t.wm.cwin[w].refcnt = 0
    <3>1. s.wm.cwin[w].refcnt - 1 \in Nat
      BY <1>3
    <3>2. QED
      BY <1>7, <1>9, <3>1
  <2>2. w \in Wearing(s, c)
    BY DEF Wearing, c
  <2>3. s.wm.cmap[c].refcnt - 1 \in Nat
    <3>1. s.wm.cmap[c].refcnt = Cardinality(Wearing(s, c))
      BY <1>4 DEF ColorsCounted
    <3>2. Wearing(s, c) # {} /\ Cardinality(Wearing(s, c)) \in Nat /\ IsFiniteSet(Wearing(s, c))
      BY <2>2, WearingFinite
    <3>3. Cardinality(Wearing(s, c)) # 0
      BY <3>2, FS_EmptySet
    <3>4. QED
      BY <3>1, <3>2, <3>3
  <2>4. k \in MapState /\ k.refcnt = s.wm.cmap[c].refcnt - 1
    <3> DEFINE l == s.wm.cmap[c]
    <3>1. l \in MapState /\ l.refcnt - 1 \in Nat
      BY <1>2, <1>4, <2>3
    <3>2. k = [l EXCEPT !.refcnt = l.refcnt - 1]
      BY <1>6
    <3> HIDE DEF l, k
    <3>3. /\ [l EXCEPT !.refcnt = l.refcnt - 1] \in MapState
          /\ [l EXCEPT !.refcnt = l.refcnt - 1].refcnt = l.refcnt - 1
      BY <3>1 DEF MapState
    <3>4. QED
      BY <3>2, <3>3 DEF l
  <2> HIDE DEF k
  <2>5. t \in CState
    BY <1>6 DEF Around
  <2>6. /\ Around(t, u) /\ u.wm.cwin = t.wm.cwin /\ u.wm.cmap[c] = k
        /\ \A d \in Colormap \ {c} : u.wm.cmap[d] = t.wm.cmap[d]
    BY <1>4, <2>4, <2>5, CmapIs
  <2> HIDE DEF u
  <2>7. Around(s, u)
    BY <1>6, <2>6 DEF Around
  <2>8. Wearing(u, c) = Wearing(s, c) \ {w}
    BY <1>3, <1>7, <2>1, <2>6 DEF Wearing
  <2>9. ASSUME NEW d \in Colormap \ {c} PROVE Wearing(u, d) = Wearing(s, d)
    BY <1>3, <1>7, <2>1, <2>6, <2>9 DEF Wearing, c
  <2>10. /\ u.wm.cmap[c].refcnt = s.wm.cmap[c].refcnt - 1
         /\ \A d \in Colormap \ {c} : u.wm.cmap[d].refcnt = s.wm.cmap[d].refcnt
    BY <1>6, <2>4, <2>6
  <2>11. ColorsCounted(u)
    BY <1>4, <2>2, <2>8, <2>9, <2>10, HeldLess
  <2>12. DropWindow(s, w) = u
    BY <1>1, <1>9
  <2>13. QED
    BY <1>7, <2>6, <2>7, <2>11, <2>12
<1>10. QED
  BY <1>8, <1>9

(***************************************************************************)
(* Lists of windows.                                                        *)
(***************************************************************************)

\* What holds of 0 and of each number if of the one before holds of all.
LEMMA RoundsStayIn ==
  ASSUME NEW n \in Nat, NEW T, 0 \in T, \A i \in 1 .. n : i - 1 \in T => i \in T
  PROVE  \A i \in 0 .. n : i \in T
<1> DEFINE F == {i \in 0 .. n : i \notin T}
<1>1. SUFFICES ASSUME F # {} PROVE FALSE
  OBVIOUS
<1>2. PICK i \in F : \A k \in F : i <= k
  <2>1. F \in SUBSET Nat
    OBVIOUS
  <2>2. QED
    BY <1>1, <2>1, LeastNat
<1>3. i \in 1 .. n /\ i - 1 \in 0 .. n /\ ~ (i <= i - 1)
  BY <1>2
<1>4. i - 1 \in T
  BY <1>2, <1>3
<1>5. QED
  BY <1>2, <1>3, <1>4

\* How often w is among the first n of a list.
Occurs(list, w, n) == Cardinality({j \in 1 .. n : list[j] = w})

\* How often w occurs goes up by one where the list has it.
LEMMA OccursIs ==
  ASSUME NEW list, NEW w
  PROVE  /\ \A n \in Nat : Occurs(list, w, n) \in Nat
         /\ Occurs(list, w, 0) = 0
         /\ \A n \in Nat \ {0} :
              Occurs(list, w, n) = Occurs(list, w, n - 1) + IF list[n] = w THEN 1 ELSE 0
         /\ \A n \in Nat : \A m \in 0 .. n : Occurs(list, w, m) <= Occurs(list, w, n)
<1> DEFINE At(n) == {j \in 1 .. n : list[j] = w}
<1>1. ASSUME NEW n \in Nat PROVE IsFiniteSet(At(n)) /\ Cardinality(At(n)) \in Nat
  <2>1. At(n) \in SUBSET (1 .. n) /\ IsFiniteSet(1 .. n)
    BY FS_Interval
  <2> HIDE DEF At
  <2>2. QED
    BY <2>1, FS_Subset, FS_CardinalityType
<1>2. At(0) = {}
  OBVIOUS
<1>3. ASSUME NEW n \in Nat \ {0}
      PROVE  Cardinality(At(n)) = Cardinality(At(n - 1)) + IF list[n] = w THEN 1 ELSE 0
  <2>1. n - 1 \in Nat /\ n \notin At(n - 1)
    OBVIOUS
  <2>2. CASE list[n] = w
    <3>1. At(n) = At(n - 1) \cup {n}
      BY <2>2
    <3> HIDE DEF At
    <3>2. Cardinality(At(n)) = Cardinality(At(n - 1)) + 1
      BY <1>1, <2>1, <3>1, FS_AddElement
    <3>3. QED
      BY <2>2, <3>2
  <2>3. CASE list[n] # w
    <3>1. At(n) = At(n - 1)
      BY <2>3
    <3> HIDE DEF At
    <3>2. QED
      BY <1>1, <2>1, <2>3, <3>1
  <2>4. QED
    BY <2>2, <2>3
<1>4. ASSUME NEW n \in Nat, NEW m \in 0 .. n PROVE Cardinality(At(m)) <= Cardinality(At(n))
  <2>1. At(m) \in SUBSET At(n)
    OBVIOUS
  <2> HIDE DEF At
  <2>2. QED
    BY <1>1, <2>1, FS_Subset
<1>5. Cardinality(At(0)) = 0
  BY <1>2, FS_EmptySet
<1>6. \A n : Occurs(list, w, n) = Cardinality(At(n))
  BY DEF Occurs
<1> HIDE DEF At
<1>7. QED
  BY <1>1, <1>3, <1>4, <1>5, <1>6

\* After the first i of a list are looked at.
Took(s, list, t, i) ==
  /\ Around(s, t) /\ ColorsCounted(t)
  /\ \A v \in CWindow : t.wm.cwin[v].refcnt = s.wm.cwin[v].refcnt + Occurs(list, v, i)

\* The states between, as each of a list is looked at.
Taking(f, s, list) ==
  f = [i \in 0 .. Len(list) |->
         IF i = 0 THEN s ELSE CreateColormapWindow(f[i - 1], list[i], "shown")]

\* After all of a list, each window is counted once more for every place it has.
LEMMA TakenUpIs ==
  ASSUME NEW s \in CState, ColorsCounted(s), NEW list \in Seq(CWindow)
  PROVE  Took(s, list, TakenUp(s, list), Len(list))
<1> DEFINE n == Len(list)
           base == s
           Step(q, i) == CreateColormapWindow(q, list[i], "shown")
           Good(q, i) == Took(s, list, q, i)
           A == CState
           h == [p \in A \X (1 .. n) |->
                   IF Step(p[1], p[2]) \in A THEN Step(p[1], p[2]) ELSE base]
<1>1. n \in Nat
  BY LenProperties
<1>2. Good(base, 0)
  <2>1. \A v \in CWindow : s.wm.cwin[v].refcnt \in Nat /\ Occurs(list, v, 0) = 0
    BY CStateIs, OccursIs DEF LookedAt
  <2>2. Around(s, s)
    BY DEF Around
  <2>3. QED
    BY <2>1, <2>2 DEF Took
<1>3. ASSUME NEW i \in 1 .. n, NEW q, Good(q, i - 1) PROVE Good(Step(q, i), i)
  <2> DEFINE w == list[i]
             t == CreateColormapWindow(q, w, "shown")
  <2>1. w \in CWindow /\ "shown" \in Visibility
    BY LenProperties, ElementOfSeq DEF Visibility
  <2>2. q \in CState /\ ColorsCounted(q)
    BY <1>3 DEF Took, Around
  <2> HIDE DEF w
  <2>3. /\ Around(q, t) /\ ColorsCounted(t)
        /\ \A v \in CWindow :
             t.wm.cwin[v].refcnt = q.wm.cwin[v].refcnt + IF v = w THEN 1 ELSE 0
    BY <2>1, <2>2, CreateIs
  <2> HIDE DEF t
  <2>4. Around(s, t)
    BY <1>3, <2>3 DEF Took, Around
  <2>5. ASSUME NEW v \in CWindow
        PROVE  t.wm.cwin[v].refcnt = s.wm.cwin[v].refcnt + Occurs(list, v, i)
    <3>1. i \in Nat \ {0} /\ i - 1 \in Nat
      BY <1>1
    <3>2. /\ Occurs(list, v, i) = Occurs(list, v, i - 1) + IF v = w THEN 1 ELSE 0
          /\ Occurs(list, v, i - 1) \in Nat
      BY <3>1, OccursIs DEF w
    <3>3. q.wm.cwin[v].refcnt = s.wm.cwin[v].refcnt + Occurs(list, v, i - 1)
      BY <1>3 DEF Took
    <3>4. s.wm.cwin[v].refcnt \in Nat
      BY CStateIs DEF LookedAt
    <3>5. QED
      BY <2>3, <3>2, <3>3, <3>4
  <2>6. QED
    BY <2>3, <2>4, <2>5 DEF Took, t, w
<1>4. \A q, i : Good(q, i) => q \in A
  BY Zenon DEF Took, Around
<1> HIDE DEF n, base, Step, A, Good
<1>5. base \in A
  BY <1>2, <1>4
<1>6. h \in [A \X (1 .. n) -> A]
  BY <1>5
<1>7. PICK f \in [0 .. n -> A] : f[0] = base /\ \A i \in 1 .. n : f[i] = Step(f[i - 1], i)
  <2>1. PICK f : Recursion(f, n, A, base, h)
    <3> HIDE DEF h
    <3>1. QED
      BY <1>1, <1>5, <1>6, RecursionExists
  <2>2. f \in [0 .. n -> A] /\ f[0] = base /\ \A i \in 1 .. n : f[i] = h[<<f[i - 1], i>>]
    BY <2>1 DEF Recursion
  <2> DEFINE T == {i \in 0 .. n : Good(f[i], i)}
  <2>3. 0 \in T
    BY <1>1, <1>2, <2>2
  <2>4. ASSUME NEW i \in 1 .. n, i - 1 \in T PROVE i \in T /\ f[i] = Step(f[i - 1], i)
    <3>1. Good(Step(f[i - 1], i), i)
      BY <1>3, <2>4
    <3>2. Step(f[i - 1], i) \in A /\ f[i - 1] \in A
      BY <1>4, <2>4, <3>1
    <3>3. h[<<f[i - 1], i>>] = Step(f[i - 1], i)
      BY <3>2
    <3> HIDE DEF h
    <3>4. f[i] = Step(f[i - 1], i) /\ i \in 0 .. n
      BY <1>1, <2>2, <3>3
    <3>5. QED
      BY <3>1, <3>4
  <2>5. \A i \in 0 .. n : i \in T
    <3> HIDE DEF T
    <3>1. QED
      BY <1>1, <2>3, <2>4, RoundsStayIn
  <2>6. \A i \in 1 .. n : i - 1 \in 0 .. n
    BY <1>1
  <2>7. \A i \in 1 .. n : f[i] = Step(f[i - 1], i)
    BY <2>4, <2>5, <2>6
  <2>8. QED
    BY <2>2, <2>7
<1>8. Taking(f, s, list)
  <2> DEFINE V(i) == IF i = 0 THEN base ELSE Step(f[i - 1], i)
  <2>1. \A i \in 0 .. n : i = 0 \/ i \in 1 .. n
    BY <1>1
  <2>2. \A i \in 0 .. n : f[i] = V(i)
    BY <1>7, <2>1
  <2> HIDE DEF V
  <2>3. f = [i \in 0 .. n |-> V(i)]
    BY <1>7, <2>2
  <2>4. QED
    BY <2>3, Zenon DEF V, Taking, n, base, Step
<1> DEFINE g == CHOOSE p : Taking(p, s, list)
<1>9. Taking(g, s, list)
  BY <1>8
<1> HIDE DEF g
<1>10. g[0] = base /\ \A i \in 1 .. n : g[i] = Step(g[i - 1], i)
  <2> DEFINE V(i) == IF i = 0 THEN base ELSE Step(g[i - 1], i)
  <2>1. 0 \in 0 .. n /\ \A i \in 1 .. n : i \in 0 .. n /\ i # 0
    BY <1>1
  <2>2. V(0) = base /\ \A i \in 1 .. n : V(i) = Step(g[i - 1], i)
    BY <2>1, Zenon
  <2>3. g = [i \in 0 .. n |-> V(i)]
    BY <1>9, Zenon DEF V, Taking, n, base, Step
  <2> HIDE DEF V
  <2>4. QED
    BY <2>1, <2>2, <2>3
<1> DEFINE T == {i \in 0 .. n : Good(g[i], i)}
<1>11. 0 \in T
  BY <1>1, <1>2, <1>10
<1>12. ASSUME NEW i \in 1 .. n, i - 1 \in T PROVE i \in T
  <2>1. Good(Step(g[i - 1], i), i)
    BY <1>3, <1>12
  <2>2. g[i] = Step(g[i - 1], i) /\ i \in 0 .. n
    BY <1>1, <1>10
  <2>3. QED
    BY <2>1, <2>2
<1>13. n \in T
  <2> HIDE DEF T
  <2>1. \A i \in 0 .. n : i \in T
    BY <1>1, <1>11, <1>12, RoundsStayIn
  <2>2. QED
    BY <1>1, <2>1
<1>14. Good(g[n], n)
  BY <1>13
<1>15. TakenUp(s, list) = g[n]
  BY Zenon DEF TakenUp, Taking, g, n
<1>16. QED
  BY <1>14, <1>15, Zenon DEF Good, n

\* After the first i of a list are let go.
Dropped(s, list, t, i) ==
  /\ Around(s, t) /\ ColorsCounted(t)
  /\ \A v \in CWindow : t.wm.cwin[v].refcnt = s.wm.cwin[v].refcnt - Occurs(list, v, i)

\* The states between, as each of a list is let go.
Dropping(f, s, list) ==
  f = [i \in 0 .. Len(list) |-> IF i = 0 THEN s ELSE DropWindow(f[i - 1], list[i])]

\* After all of a list, each window is counted once less for every place it had.
LEMMA LetGoIs ==
  ASSUME NEW s \in CState, ColorsCounted(s), NEW list \in Seq(CWindow),
         \A v \in CWindow : s.wm.cwin[v].refcnt >= Occurs(list, v, Len(list))
  PROVE  Dropped(s, list, LetGo(s, list), Len(list))
<1> DEFINE n == Len(list)
           base == s
           Step(q, i) == DropWindow(q, list[i])
           Good(q, i) == Dropped(s, list, q, i)
           A == CState
           h == [p \in A \X (1 .. n) |->
                   IF Step(p[1], p[2]) \in A THEN Step(p[1], p[2]) ELSE base]
<1>1. n \in Nat
  BY LenProperties
<1>2. Good(base, 0)
  <2>1. \A v \in CWindow : s.wm.cwin[v].refcnt \in Nat /\ Occurs(list, v, 0) = 0
    BY CStateIs, OccursIs DEF LookedAt
  <2>2. Around(s, s)
    BY DEF Around
  <2>3. QED
    BY <2>1, <2>2 DEF Dropped
<1>3. ASSUME NEW i \in 1 .. n, NEW q, Good(q, i - 1) PROVE Good(Step(q, i), i)
  <2> DEFINE w == list[i]
             t == DropWindow(q, w)
  <2>1. w \in CWindow
    BY LenProperties, ElementOfSeq
  <2>2. q \in CState /\ ColorsCounted(q)
    BY <1>3 DEF Dropped, Around
  <2>3. i \in Nat \ {0} /\ i - 1 \in Nat /\ i \in 0 .. n
    BY <1>1
  <2> HIDE DEF w
  <2>4. ASSUME NEW v \in CWindow
        PROVE  /\ Occurs(list, v, i) = Occurs(list, v, i - 1) + IF v = w THEN 1 ELSE 0
               /\ Occurs(list, v, i - 1) \in Nat
               /\ Occurs(list, v, i) <= Occurs(list, v, n)
               /\ Occurs(list, v, n) \in Nat
               /\ s.wm.cwin[v].refcnt >= Occurs(list, v, n)
               /\ q.wm.cwin[v].refcnt = s.wm.cwin[v].refcnt - Occurs(list, v, i - 1)
               /\ s.wm.cwin[v].refcnt \in Nat
    <3>1. /\ Occurs(list, v, i) = Occurs(list, v, i - 1) + IF v = w THEN 1 ELSE 0
          /\ Occurs(list, v, i - 1) \in Nat
      BY <2>3, OccursIs DEF w
    <3>2. Occurs(list, v, i) <= Occurs(list, v, n) /\ Occurs(list, v, n) \in Nat
      BY <1>1, <2>3, OccursIs
    <3>3. q.wm.cwin[v].refcnt = s.wm.cwin[v].refcnt - Occurs(list, v, i - 1)
      BY <1>3 DEF Dropped
    <3>4. s.wm.cwin[v].refcnt \in Nat
      BY CStateIs DEF LookedAt
    <3>5. QED
      BY <3>1, <3>2, <3>3, <3>4
  <2>5. q.wm.cwin[w].refcnt > 0
    <3> DEFINE a == Occurs(list, w, i - 1)
               b == Occurs(list, w, i)
               c == Occurs(list, w, n)
               d == s.wm.cwin[w].refcnt
    <3>1. b = a + 1 /\ a \in Nat /\ b <= c /\ c \in Nat /\ d >= c /\ d \in Nat
      BY <2>1, <2>4
    <3>2. q.wm.cwin[w].refcnt = d - a
      BY <2>1, <2>4
    <3> HIDE DEF a, b, c, d
    <3>3. d - a > 0
      BY <3>1
    <3>4. QED
      BY <3>2, <3>3
  <2>6. /\ Around(q, t) /\ ColorsCounted(t)
        /\ \A v \in CWindow :
             t.wm.cwin[v].refcnt = q.wm.cwin[v].refcnt - IF v = w THEN 1 ELSE 0
    BY <2>1, <2>2, <2>5, DropIs
  <2> HIDE DEF t
  <2>7. Around(s, t)
    BY <1>3, <2>6 DEF Dropped, Around
  <2>8. ASSUME NEW v \in CWindow
        PROVE  t.wm.cwin[v].refcnt = s.wm.cwin[v].refcnt - Occurs(list, v, i)
    <3> DEFINE a == Occurs(list, v, i - 1)
               b == Occurs(list, v, i)
               d == s.wm.cwin[v].refcnt
               e == q.wm.cwin[v].refcnt
               one == IF v = w THEN 1 ELSE 0
    <3>1. b = a + one /\ a \in Nat /\ d \in Nat /\ e = d - a
      BY <2>4
    <3>2. t.wm.cwin[v].refcnt = e - one
      BY <2>6
    <3>3. one \in Nat
      OBVIOUS
    <3> HIDE DEF a, b, d, e, one
    <3>4. e - one = d - b
      BY <3>1, <3>3
    <3>5. QED
      BY <3>2, <3>4 DEF b, d
  <2>9. QED
    BY <2>6, <2>7, <2>8 DEF Dropped, t, w
<1>4. \A q, i : Good(q, i) => q \in A
  BY Zenon DEF Dropped, Around
<1> HIDE DEF n, base, Step, A, Good
<1>5. base \in A
  BY <1>2, <1>4
<1>6. h \in [A \X (1 .. n) -> A]
  BY <1>5
<1>7. PICK f \in [0 .. n -> A] : f[0] = base /\ \A i \in 1 .. n : f[i] = Step(f[i - 1], i)
  <2>1. PICK f : Recursion(f, n, A, base, h)
    <3> HIDE DEF h
    <3>1. QED
      BY <1>1, <1>5, <1>6, RecursionExists
  <2>2. f \in [0 .. n -> A] /\ f[0] = base /\ \A i \in 1 .. n : f[i] = h[<<f[i - 1], i>>]
    BY <2>1 DEF Recursion
  <2> DEFINE T == {i \in 0 .. n : Good(f[i], i)}
  <2>3. 0 \in T
    BY <1>1, <1>2, <2>2
  <2>4. ASSUME NEW i \in 1 .. n, i - 1 \in T PROVE i \in T /\ f[i] = Step(f[i - 1], i)
    <3>1. Good(Step(f[i - 1], i), i)
      BY <1>3, <2>4
    <3>2. Step(f[i - 1], i) \in A /\ f[i - 1] \in A
      BY <1>4, <2>4, <3>1
    <3>3. h[<<f[i - 1], i>>] = Step(f[i - 1], i)
      BY <3>2
    <3> HIDE DEF h
    <3>4. f[i] = Step(f[i - 1], i) /\ i \in 0 .. n
      BY <1>1, <2>2, <3>3
    <3>5. QED
      BY <3>1, <3>4
  <2>5. \A i \in 0 .. n : i \in T
    <3> HIDE DEF T
    <3>1. QED
      BY <1>1, <2>3, <2>4, RoundsStayIn
  <2>6. \A i \in 1 .. n : i - 1 \in 0 .. n
    BY <1>1
  <2>7. \A i \in 1 .. n : f[i] = Step(f[i - 1], i)
    BY <2>4, <2>5, <2>6
  <2>8. QED
    BY <2>2, <2>7
<1>8. Dropping(f, s, list)
  <2> DEFINE V(i) == IF i = 0 THEN base ELSE Step(f[i - 1], i)
  <2>1. \A i \in 0 .. n : i = 0 \/ i \in 1 .. n
    BY <1>1
  <2>2. \A i \in 0 .. n : f[i] = V(i)
    BY <1>7, <2>1
  <2> HIDE DEF V
  <2>3. f = [i \in 0 .. n |-> V(i)]
    BY <1>7, <2>2
  <2>4. QED
    BY <2>3, Zenon DEF V, Dropping, n, base, Step
<1> DEFINE g == CHOOSE p : Dropping(p, s, list)
<1>9. Dropping(g, s, list)
  BY <1>8
<1> HIDE DEF g
<1>10. g[0] = base /\ \A i \in 1 .. n : g[i] = Step(g[i - 1], i)
  <2> DEFINE V(i) == IF i = 0 THEN base ELSE Step(g[i - 1], i)
  <2>1. 0 \in 0 .. n /\ \A i \in 1 .. n : i \in 0 .. n /\ i # 0
    BY <1>1
  <2>2. V(0) = base /\ \A i \in 1 .. n : V(i) = Step(g[i - 1], i)
    BY <2>1, Zenon
  <2>3. g = [i \in 0 .. n |-> V(i)]
    BY <1>9, Zenon DEF V, Dropping, n, base, Step
  <2> HIDE DEF V
  <2>4. QED
    BY <2>1, <2>2, <2>3
<1> DEFINE T == {i \in 0 .. n : Good(g[i], i)}
<1>11. 0 \in T
  BY <1>1, <1>2, <1>10
<1>12. ASSUME NEW i \in 1 .. n, i - 1 \in T PROVE i \in T
  <2>1. Good(Step(g[i - 1], i), i)
    BY <1>3, <1>12
  <2>2. g[i] = Step(g[i - 1], i) /\ i \in 0 .. n
    BY <1>1, <1>10
  <2>3. QED
    BY <2>1, <2>2
<1>13. n \in T
  <2> HIDE DEF T
  <2>1. \A i \in 0 .. n : i \in T
    BY <1>1, <1>11, <1>12, RoundsStayIn
  <2>2. QED
    BY <1>1, <2>1
<1>14. Good(g[n], n)
  BY <1>13
<1>15. LetGo(s, list) = g[n]
  BY Zenon DEF LetGo, Dropping, g, n
<1>16. QED
  BY <1>14, <1>15, Zenon DEF Good, n

\* Of the first i of a list those that there are.
Found(s, list, q, i) ==
  /\ q \in Seq(CWindow)
  /\ \A j \in 1 .. i :
       list[j] \notin s.x.dead \/ s.wm.cwin[list[j]].refcnt > 0 => list[j] \in Range(q)

\* What is found of the first i of a list.
Finding(f, s, list) ==
  f = [i \in 0 .. Len(list) |->
         IF i = 0 THEN <<>>
         ELSE IF list[i] \notin s.x.dead \/ s.wm.cwin[list[i]].refcnt > 0
              THEN Append(f[i - 1], list[i]) ELSE f[i - 1]]

\* What there is of a list is a list of windows.
LEMMA ThereIs ==
  ASSUME NEW s, NEW list \in Seq(CWindow)
  PROVE  Found(s, list, There(s, list), Len(list))
<1> DEFINE n == Len(list)
           base == <<>>
           Step(q, i) == IF list[i] \notin s.x.dead \/ s.wm.cwin[list[i]].refcnt > 0
                         THEN Append(q, list[i]) ELSE q
           Good(q, i) == Found(s, list, q, i)
           A == Seq(CWindow)
           h == [p \in A \X (1 .. n) |->
                   IF Step(p[1], p[2]) \in A THEN Step(p[1], p[2]) ELSE base]
<1>1. n \in Nat
  BY LenProperties
<1>2. Good(base, 0)
  BY EmptySeq DEF Found
<1>3. ASSUME NEW i \in 1 .. n, NEW q, Good(q, i - 1) PROVE Good(Step(q, i), i)
  <2> DEFINE w == list[i]
             is(v) == v \notin s.x.dead \/ s.wm.cwin[v].refcnt > 0
  <2>1. w \in CWindow
    BY LenProperties, ElementOfSeq
  <2>2. q \in Seq(CWindow) /\ \A j \in 1 .. i - 1 : is(list[j]) => list[j] \in Range(q)
    BY <1>3 DEF Found
  <2>3. \A j \in 1 .. i : j = i \/ j \in 1 .. i - 1
    BY <1>1
  <2>4. Step(q, i) = IF is(w) THEN Append(q, w) ELSE q
    BY Zenon
  <2> HIDE DEF w, is, Step
  <2>5. CASE is(w)
    <3>1. Append(q, w) = q \o <<w>> /\ <<w>> \in Seq(CWindow)
      BY <2>1, <2>2
    <3> DEFINE one == <<w>>
    <3>2. w \in Range(one) /\ one \in Seq(CWindow) /\ Append(q, w) = q \o one
      BY <3>1 DEF Range
    <3> HIDE DEF one
    <3>3. Append(q, w) \in Seq(CWindow) /\ Range(Append(q, w)) = Range(q) \cup Range(one)
      BY <2>2, <3>2, ConcatRange
    <3>4. \A j \in 1 .. i : is(list[j]) => list[j] \in Range(Append(q, w))
      BY <2>2, <2>3, <3>2, <3>3 DEF w
    <3>5. Step(q, i) = Append(q, w)
      BY <2>4, <2>5
    <3>6. Found(s, list, Append(q, w), i)
      BY <3>3, <3>4, Zenon DEF Found, is
    <3>7. QED
      BY <3>5, <3>6
  <2>6. CASE ~ is(w)
    <3>1. \A j \in 1 .. i : is(list[j]) => list[j] \in Range(q)
      BY <2>2, <2>3, <2>6 DEF w
    <3>2. Found(s, list, q, i)
      BY <2>2, <3>1, Zenon DEF Found, is
    <3>3. QED
      BY <2>4, <2>6, <3>2
  <2>7. QED
    BY <2>5, <2>6
<1>4. \A q, i : Good(q, i) => q \in A
  BY Zenon DEF Found
<1> HIDE DEF n, base, Step, A, Good
<1>5. base \in A
  BY <1>2, <1>4
<1>6. h \in [A \X (1 .. n) -> A]
  BY <1>5
<1>7. PICK f \in [0 .. n -> A] : f[0] = base /\ \A i \in 1 .. n : f[i] = Step(f[i - 1], i)
  <2>1. PICK f : Recursion(f, n, A, base, h)
    <3> HIDE DEF h
    <3>1. QED
      BY <1>1, <1>5, <1>6, RecursionExists
  <2>2. f \in [0 .. n -> A] /\ f[0] = base /\ \A i \in 1 .. n : f[i] = h[<<f[i - 1], i>>]
    BY <2>1 DEF Recursion
  <2> DEFINE T == {i \in 0 .. n : Good(f[i], i)}
  <2>3. 0 \in T
    BY <1>1, <1>2, <2>2
  <2>4. ASSUME NEW i \in 1 .. n, i - 1 \in T PROVE i \in T /\ f[i] = Step(f[i - 1], i)
    <3>1. Good(Step(f[i - 1], i), i)
      BY <1>3, <2>4
    <3>2. Step(f[i - 1], i) \in A /\ f[i - 1] \in A
      BY <1>4, <2>4, <3>1
    <3>3. h[<<f[i - 1], i>>] = Step(f[i - 1], i)
      BY <3>2
    <3> HIDE DEF h
    <3>4. f[i] = Step(f[i - 1], i) /\ i \in 0 .. n
      BY <1>1, <2>2, <3>3
    <3>5. QED
      BY <3>1, <3>4
  <2>5. \A i \in 0 .. n : i \in T
    <3> HIDE DEF T
    <3>1. QED
      BY <1>1, <2>3, <2>4, RoundsStayIn
  <2>6. \A i \in 1 .. n : i - 1 \in 0 .. n
    BY <1>1
  <2>7. \A i \in 1 .. n : f[i] = Step(f[i - 1], i)
    BY <2>4, <2>5, <2>6
  <2>8. QED
    BY <2>2, <2>7
<1>8. Finding(f, s, list)
  <2> DEFINE V(i) == IF i = 0 THEN base ELSE Step(f[i - 1], i)
  <2>1. \A i \in 0 .. n : i = 0 \/ i \in 1 .. n
    BY <1>1
  <2>2. \A i \in 0 .. n : f[i] = V(i)
    BY <1>7, <2>1
  <2> HIDE DEF V
  <2>3. f = [i \in 0 .. n |-> V(i)]
    BY <1>7, <2>2
  <2>4. QED
    BY <2>3, Zenon DEF V, Finding, n, base, Step
<1> DEFINE g == CHOOSE p : Finding(p, s, list)
<1>9. Finding(g, s, list)
  BY <1>8
<1> HIDE DEF g
<1>10. g[0] = base /\ \A i \in 1 .. n : g[i] = Step(g[i - 1], i)
  <2> DEFINE V(i) == IF i = 0 THEN base ELSE Step(g[i - 1], i)
  <2>1. 0 \in 0 .. n /\ \A i \in 1 .. n : i \in 0 .. n /\ i # 0
    BY <1>1
  <2>2. V(0) = base /\ \A i \in 1 .. n : V(i) = Step(g[i - 1], i)
    BY <2>1, Zenon
  <2>3. g = [i \in 0 .. n |-> V(i)]
    BY <1>9, Zenon DEF V, Finding, n, base, Step
  <2> HIDE DEF V
  <2>4. QED
    BY <2>1, <2>2, <2>3
<1> DEFINE T == {i \in 0 .. n : Good(g[i], i)}
<1>11. 0 \in T
  BY <1>1, <1>2, <1>10
<1>12. ASSUME NEW i \in 1 .. n, i - 1 \in T PROVE i \in T
  <2>1. Good(Step(g[i - 1], i), i)
    BY <1>3, <1>12
  <2>2. g[i] = Step(g[i - 1], i) /\ i \in 0 .. n
    BY <1>1, <1>10
  <2>3. QED
    BY <2>1, <2>2
<1>13. n \in T
  <2> HIDE DEF T
  <2>1. \A i \in 0 .. n : i \in T
    BY <1>1, <1>11, <1>12, RoundsStayIn
  <2>2. QED
    BY <1>1, <2>1
<1>14. Good(g[n], n)
  BY <1>13
<1>15. There(s, list) = g[n]
  BY Zenon DEF There, Finding, g, n
<1>16. QED
  BY <1>14, <1>15, Zenon DEF Good, n

(***************************************************************************)
(* The places of a window.                                                  *)
(***************************************************************************)

\* Those on one list, which are as many as it occurs on it.
PlacesOn(list, o, w) == {<<o, i>> : i \in {j \in DOMAIN list : list[j] = w}}

\* The places on one list are as many as the window occurs there.
LEMMA PlacesOnAre ==
  ASSUME NEW list \in Seq(CWindow), NEW o, NEW w
  PROVE  /\ IsFiniteSet(PlacesOn(list, o, w))
         /\ Cardinality(PlacesOn(list, o, w)) = Occurs(list, w, Len(list))
<1> DEFINE n == Len(list)
           At == {j \in 1 .. n : list[j] = w}
           f == [i \in At |-> <<o, i>>]
           H == PlacesOn(list, o, w)
<1>1. n \in Nat /\ DOMAIN list = 1 .. n
  BY LenProperties
<1>2. IsFiniteSet(At)
  <2>1. At \in SUBSET (1 .. n) /\ IsFiniteSet(1 .. n)
    BY <1>1, FS_Interval
  <2> HIDE DEF At
  <2>2. QED
    BY <2>1, FS_Subset
<1>3. H = {<<o, i>> : i \in At}
  BY <1>1 DEF PlacesOn
<1> HIDE DEF At, n
<1>4. f \in [At -> H] /\ \A p \in H : \E i \in At : f[i] = p
  <2>1. \A i \in At : <<o, i>> \in H /\ f[i] = <<o, i>>
    BY <1>3
  <2> HIDE DEF H
  <2>2. f \in [At -> H]
    BY <2>1
  <2>3. \A p \in H : \E i \in At : p = <<o, i>>
    BY <1>3
  <2>4. QED
    BY <2>1, <2>2, <2>3
<1>5. \A i, j \in At : f[i] = f[j] => i = j
  OBVIOUS
<1> HIDE DEF f, H
<1>6. f \in Bijection(At, H)
  BY <1>4, <1>5 DEF Bijection, Injection, Surjection, IsInjective
<1>7. ExistsBijection(At, H)
  BY <1>6 DEF ExistsBijection
<1>8. IsFiniteSet(H) /\ Cardinality(H) = Cardinality(At)
  BY <1>2, <1>7, FS_Bijection
<1>9. QED
  BY <1>8 DEF H, At, n, Occurs

\* Those elsewhere stay when a list is given up for another one.
LEMMA PlacesSplit ==
  ASSUME NEW cwins \in [Owner -> Seq(CWindow)], NEW o \in Owner, NEW list \in Seq(CWindow), NEW w
  PROVE  \E E : /\ IsFiniteSet(E)
                /\ PlacesOnLists(cwins, w) = E \cup PlacesOn(cwins[o], o, w)
                /\ PlacesOnLists([cwins EXCEPT ![o] = list], w) = E \cup PlacesOn(list, o, w)
                /\ E \cap PlacesOn(cwins[o], o, w) = {}
                /\ E \cap PlacesOn(list, o, w) = {}
<1> DEFINE new == [cwins EXCEPT ![o] = list]
           F == {PlacesOn(cwins[v], v, w) : v \in Owner \ {o}}
           E == UNION F
           g == [v \in Owner \ {o} |-> PlacesOn(cwins[v], v, w)]
<1>1. IsFiniteSet(Owner \ {o})
  <2>1. IsFiniteSet(Client \cup {root})
    BY FS_AddElement, ColormapsAssumption DEF ColormapsAssumption
  <2>2. QED
    BY <2>1, FS_Difference DEF Owner
<1>2. \A cw : PlacesOnLists(cw, w) = UNION {PlacesOn(cw[v], v, w) : v \in Owner}
  BY Zenon DEF PlacesOnLists, PlacesOn
<1>3. g \in Surjection(Owner \ {o}, F)
  BY DEF Surjection
<1>4. IsFiniteSet(F)
  <2> HIDE DEF g, F
  <2>1. QED
    BY <1>1, <1>3, FS_Surjection
<1>5. \A S \in F : IsFiniteSet(S)
  <2>1. \A v \in Owner \ {o} : IsFiniteSet(PlacesOn(cwins[v], v, w))
    BY PlacesOnAre
  <2>2. QED
    BY <2>1
<1>6. IsFiniteSet(E)
  <2> HIDE DEF F
  <2>1. QED
    BY <1>4, <1>5, FS_UNION
<1>7. PlacesOnLists(cwins, w) = E \cup PlacesOn(cwins[o], o, w)
  BY <1>2
<1>8. new[o] = list /\ \A v \in Owner \ {o} : new[v] = cwins[v]
  OBVIOUS
<1> HIDE DEF new
<1>9. PlacesOnLists(new, w) = E \cup PlacesOn(list, o, w)
  <2>1. PlacesOnLists(new, w) = UNION {PlacesOn(new[v], v, w) : v \in Owner}
    BY <1>2
  <2>2. QED
    BY <1>8, <2>1
<1>10. \A p \in E : p[1] # o
  BY DEF PlacesOn
<1>11. \A l : \A p \in PlacesOn(l, o, w) : p[1] = o
  BY DEF PlacesOn
<1>12. E \cap PlacesOn(cwins[o], o, w) = {} /\ E \cap PlacesOn(list, o, w) = {}
  <2> HIDE DEF E
  <2>1. QED
    BY <1>10, <1>11
<1> HIDE DEF E
<1>13. QED
  BY <1>6, <1>7, <1>9, <1>12 DEF new

\* With another list the places are those before, less those on the old, and those on the new.
LEMMA OtherList ==
  ASSUME NEW cwins \in [Owner -> Seq(CWindow)], NEW o \in Owner, NEW list \in Seq(CWindow), NEW w
  PROVE  /\ Cardinality(PlacesOnLists(cwins, w)) >= Occurs(cwins[o], w, Len(cwins[o]))
         /\ Cardinality(PlacesOnLists([cwins EXCEPT ![o] = list], w))
              = Cardinality(PlacesOnLists(cwins, w)) - Occurs(cwins[o], w, Len(cwins[o]))
                  + Occurs(list, w, Len(list))
         /\ Cardinality(PlacesOnLists(cwins, w)) \in Nat
<1> DEFINE P == PlacesOnLists(cwins, w)
           Q == PlacesOnLists([cwins EXCEPT ![o] = list], w)
           A == PlacesOn(cwins[o], o, w)
           B == PlacesOn(list, o, w)
<1>1. PICK E : IsFiniteSet(E) /\ P = E \cup A /\ Q = E \cup B /\ E \cap A = {} /\ E \cap B = {}
  BY PlacesSplit
<1>2. IsFiniteSet(A) /\ Cardinality(A) = Occurs(cwins[o], w, Len(cwins[o]))
  BY PlacesOnAre
<1>3. IsFiniteSet(B) /\ Cardinality(B) = Occurs(list, w, Len(list))
  BY PlacesOnAre
<1> HIDE DEF P, Q, A, B
<1>4. Cardinality(P) = Cardinality(E) + Cardinality(A)
  <2>1. Cardinality(E \cup A) = Cardinality(E) + Cardinality(A) - Cardinality(E \cap A)
    BY <1>1, <1>2, FS_Union
  <2>2. Cardinality(E \cap A) = 0 /\ Cardinality(E) \in Nat /\ Cardinality(A) \in Nat
    BY <1>1, <1>2, FS_EmptySet, FS_CardinalityType
  <2>3. QED
    BY <1>1, <2>1, <2>2
<1>5. Cardinality(Q) = Cardinality(E) + Cardinality(B)
  <2>1. Cardinality(E \cup B) = Cardinality(E) + Cardinality(B) - Cardinality(E \cap B)
    BY <1>1, <1>3, FS_Union
  <2>2. Cardinality(E \cap B) = 0 /\ Cardinality(E) \in Nat /\ Cardinality(B) \in Nat
    BY <1>1, <1>3, FS_EmptySet, FS_CardinalityType
  <2>3. QED
    BY <1>1, <2>1, <2>2
<1>6. Cardinality(E) \in Nat /\ Cardinality(A) \in Nat /\ Cardinality(B) \in Nat
  BY <1>1, <1>2, <1>3, FS_CardinalityType
<1>7. /\ Cardinality(P) >= Cardinality(A) /\ Cardinality(P) \in Nat
      /\ Cardinality(Q) = Cardinality(P) - Cardinality(A) + Cardinality(B)
  BY <1>4, <1>5, <1>6
<1>8. QED
  BY <1>2, <1>3, <1>7 DEF P, Q

\* f.colormap: the place from which the list turned by one gets its window.
LEMMA RotatedOccurs ==
  ASSUME NEW list \in Seq(CWindow), NEW inc \in {-1, 1}
  PROVE  LET turned == Rotated(list, inc)
         IN  /\ turned \in Seq(CWindow) /\ Len(turned) = Len(list) /\ Range(turned) = Range(list)
             /\ \A w : Occurs(turned, w, Len(turned)) = Occurs(list, w, Len(list))
<1> DEFINE turned == Rotated(list, inc)
           n == Len(list)
           from(j) == IF j + inc > n THEN j + inc - n
                      ELSE IF j + inc < 1 THEN j + inc + n ELSE j + inc
           to(j) == IF j - inc > n THEN j - inc - n
                    ELSE IF j - inc < 1 THEN j - inc + n ELSE j - inc
<1>1. n \in Nat /\ \A j \in 1 .. n : list[j] \in CWindow
  BY LenProperties, ElementOfSeq
<1>2. turned = [j \in 1 .. n |-> list[from(j)]]
  BY Zenon DEF Rotated
<1> HIDE DEF n, turned
<1>3. inc \in Int /\ (inc = 1 \/ inc = -1)
  OBVIOUS
<1>4. ASSUME NEW j \in 1 .. n
      PROVE  from(j) \in 1 .. n /\ to(j) \in 1 .. n /\ from(to(j)) = j /\ to(from(j)) = j
  <2>1. from(j) \in 1 .. n /\ to(j) \in 1 .. n
    BY <1>1, <1>3
  <2>2. from(to(j)) = j /\ to(from(j)) = j
    BY <1>1, <1>3
  <2>3. QED
    BY <2>1, <2>2
<1> HIDE DEF from, to
<1>5. turned \in [1 .. n -> CWindow]
  BY <1>1, <1>2, <1>4
<1>6. turned \in Seq(CWindow) /\ Len(turned) = n
  BY <1>1, <1>5
<1>7. \A j \in 1 .. n : turned[j] = list[from(j)] /\ turned[to(j)] = list[j]
  BY <1>2, <1>4
<1>8. Range(turned) = Range(list)
  <2>1. DOMAIN turned = 1 .. n /\ DOMAIN list = 1 .. n
    BY <1>5, LenProperties DEF n
  <2>2. ASSUME NEW e \in Range(turned) PROVE e \in Range(list)
    <3>1. PICK j \in 1 .. n : e = turned[j]
      BY <2>1 DEF Range
    <3>2. list[from(j)] = e /\ from(j) \in DOMAIN list
      BY <1>4, <1>7, <2>1, <3>1
    <3>3. QED
      BY <3>2 DEF Range
  <2>3. ASSUME NEW e \in Range(list) PROVE e \in Range(turned)
    <3>1. PICK j \in 1 .. n : e = list[j]
      BY <2>1 DEF Range
    <3>2. turned[to(j)] = e /\ to(j) \in DOMAIN turned
      BY <1>4, <1>7, <2>1, <3>1
    <3>3. QED
      BY <3>2 DEF Range
  <2>4. QED
    BY <2>2, <2>3
<1>9. ASSUME NEW w PROVE Occurs(turned, w, n) = Occurs(list, w, n)
  <2> DEFINE S == {j \in 1 .. n : turned[j] = w}
             T == {j \in 1 .. n : list[j] = w}
             f == [j \in S |-> from(j)]
  <2>1. f \in [S -> T] /\ \A i, j \in S : f[i] = f[j] => i = j
    BY <1>4, <1>7
  <2>2. ASSUME NEW j \in T PROVE to(j) \in S /\ f[to(j)] = j
    BY <1>4, <1>7
  <2> HIDE DEF f
  <2>3. f \in Bijection(S, T)
    <3> HIDE DEF S, T
    <3>1. QED
      BY <2>1, <2>2 DEF Bijection, Injection, Surjection, IsInjective
  <2>4. IsFiniteSet(S)
    <3>1. S \in SUBSET (1 .. n) /\ IsFiniteSet(1 .. n)
      BY <1>1, FS_Interval
    <3> HIDE DEF S
    <3>2. QED
      BY <3>1, FS_Subset
  <2> HIDE DEF S, T
  <2>5. Cardinality(T) = Cardinality(S)
    BY <2>3, <2>4, FS_Bijection DEF ExistsBijection
  <2>6. QED
    BY <2>5 DEF S, T, Occurs
<1>10. QED
  BY <1>6, <1>8, <1>9 DEF n, turned

(***************************************************************************)
(* What keeps the counts right.                                             *)
(***************************************************************************)

\* What counts nothing leaves the counts right.
LEMMA KeepsSane ==
  ASSUME NEW s, NEW t, Sane(s), Keeps(s, t), InForce(t)
  PROVE  Sane(t)
<1>1. /\ s \in CState /\ ColorsCounted(s) /\ WindowsCounted(s) /\ Listed(s)
      /\ \A e \in Deaths(s) : e.w \in Client
  BY DEF Sane
<1>2. /\ t \in CState /\ t.wm.cwin = s.wm.cwin /\ t.wm.cwins = s.wm.cwins
      /\ \A c \in Colormap : t.wm.cmap[c].refcnt = s.wm.cmap[c].refcnt
      /\ Deaths(t) \subseteq Deaths(s)
  BY DEF Keeps
<1>3. \A c \in Colormap : Wearing(t, c) = Wearing(s, c)
  BY <1>2 DEF Wearing
<1>4. ColorsCounted(t)
  BY <1>1, <1>2, <1>3, SameWearing
<1>5. WindowsCounted(t) /\ Listed(t)
  BY <1>1, <1>2 DEF WindowsCounted, Listed
<1>6. QED
  BY <1>1, <1>2, <1>4, <1>5 DEF Sane

\* The same, where the lists in force stay.
LEMMA StillSane ==
  ASSUME NEW s, NEW t, Sane(s), Still(s, t)
  PROVE  Sane(t)
<1>1. InForce(t)
  BY DEF Sane, InForce, Still, Keeps, owning
<1>2. QED
  BY <1>1, KeepsSane DEF Still

\* From s to t nothing else changes than the list of o, and the scoreboard.
Relisted(s, t, o, list) ==
  /\ t \in CState /\ t.x = s.x /\ t.wm.cwin = s.wm.cwin /\ t.wm.cmap = s.wm.cmap
  /\ t.wm.cwins = [s.wm.cwins EXCEPT ![o] = list] /\ t.wm.cmaps = s.wm.cmaps
  /\ t.wm.pushed_cmaps = s.wm.pushed_cmaps /\ t.wm.root_pushes = s.wm.root_pushes

\* A list is replaced.
LEMMA RelistedIs ==
  ASSUME NEW s \in CState, NEW o \in Owner, NEW list \in Seq(CWindow)
  PROVE  /\ Relisted(s, [s EXCEPT !.wm.cwins[o] = list], o, list)
         /\ Relisted(s, [s EXCEPT !.wm.cwins[o] = list, !.wm.scoreboard[o] = {}], o, list)
<1> DEFINE cwins == [s.wm.cwins EXCEPT ![o] = list]
           board == [s.wm.scoreboard EXCEPT ![o] = {}]
           t == [s EXCEPT !.wm.cwins = cwins]
           u == [t EXCEPT !.wm.scoreboard = board]
<1>1. cwins \in [Owner -> Seq(CWindow)]
  <2>1. s.wm.cwins \in [Owner -> Seq(CWindow)]
    BY CStateIs
  <2>2. QED
    BY <2>1
<1>2. board \in [Owner -> SUBSET (Nat \X Nat)]
  <2> DEFINE B == SUBSET (Nat \X Nat)
  <2>1. s.wm.scoreboard \in [Owner -> B]
    BY CStateIs DEF WmType
  <2>2. {} \in B
    OBVIOUS
  <2> HIDE DEF B
  <2>3. board \in [Owner -> B]
    BY <2>1, <2>2
  <2>4. QED
    BY <2>3 DEF B
<1>3. [s EXCEPT !.wm.cwins[o] = list] = t
  BY Zenon
<1> DEFINE y == s.wm.scoreboard
<1>4. t.wm.scoreboard = y
  BY DEF CState, WmType
<1>5. [s EXCEPT !.wm.cwins[o] = list, !.wm.scoreboard[o] = {}] = u
  BY <1>4, Zenon
<1> HIDE DEF cwins, board, u
<1>6. /\ t \in CState /\ t.x = s.x /\ t.wm.cwin = s.wm.cwin /\ t.wm.cmap = s.wm.cmap
      /\ t.wm.cwins = cwins /\ t.wm.cmaps = s.wm.cmaps
      /\ t.wm.pushed_cmaps = s.wm.pushed_cmaps /\ t.wm.root_pushes = s.wm.root_pushes
  BY <1>1 DEF CState, WmType
<1> HIDE DEF t
<1>7. u = [t EXCEPT !.wm.scoreboard = board]
  BY DEF u
<1>8. /\ u \in CState /\ u.x = t.x /\ u.wm.cwin = t.wm.cwin /\ u.wm.cmap = t.wm.cmap
      /\ u.wm.cwins = t.wm.cwins /\ u.wm.cmaps = t.wm.cmaps
      /\ u.wm.pushed_cmaps = t.wm.pushed_cmaps /\ u.wm.root_pushes = t.wm.root_pushes
  BY <1>2, <1>6, <1>7 DEF CState, WmType
<1>9. Relisted(s, t, o, list) /\ Relisted(s, u, o, list)
  BY <1>6, <1>8 DEF cwins, Relisted
<1>10. QED
  BY <1>3, <1>5, <1>9

\* The list of an owner is let go, and every window on it is one less.
LEMMA FreeIs ==
  ASSUME NEW s \in CState, ColorsCounted(s), NEW o \in Owner,
         \A v \in CWindow :
           s.wm.cwin[v].refcnt >= Occurs(s.wm.cwins[o], v, Len(s.wm.cwins[o]))
  PROVE  LET t == free_cwins(s, o)
         IN  /\ t \in CState /\ ColorsCounted(t) /\ t.x = s.x
             /\ t.wm.cwins = [s.wm.cwins EXCEPT ![o] = <<>>] /\ t.wm.cmaps = s.wm.cmaps
             /\ t.wm.pushed_cmaps = s.wm.pushed_cmaps /\ t.wm.root_pushes = s.wm.root_pushes
             /\ \A v \in CWindow : t.wm.cwin[v].refcnt =
                  s.wm.cwin[v].refcnt - Occurs(s.wm.cwins[o], v, Len(s.wm.cwins[o]))
<1> DEFINE list == s.wm.cwins[o]
           u == LetGo(s, list)
           none == <<>>
           t == [u EXCEPT !.wm.cwins[o] = none, !.wm.scoreboard[o] = {}]
<1>1. list \in Seq(CWindow) /\ none \in Seq(CWindow)
  BY CStateIs, EmptySeq
<1>2. t = free_cwins(s, o)
  BY Zenon DEF free_cwins
<1> HIDE DEF list, none
<1>3. Dropped(s, list, u, Len(list))
  BY <1>1, LetGoIs DEF list
<1>4. /\ u \in CState /\ ColorsCounted(u) /\ u.x = s.x /\ u.wm.cwins = s.wm.cwins
      /\ u.wm.cmaps = s.wm.cmaps /\ u.wm.pushed_cmaps = s.wm.pushed_cmaps
      /\ u.wm.root_pushes = s.wm.root_pushes
      /\ \A v \in CWindow : u.wm.cwin[v].refcnt = s.wm.cwin[v].refcnt - Occurs(list, v, Len(list))
  BY <1>3 DEF Dropped, Around
<1> HIDE DEF u
<1>5. Relisted(u, t, o, none)
  BY <1>1, <1>4, RelistedIs
<1> HIDE DEF t
<1>6. /\ t \in CState /\ t.x = u.x /\ t.wm.cwin = u.wm.cwin /\ t.wm.cmap = u.wm.cmap
      /\ t.wm.cwins = [u.wm.cwins EXCEPT ![o] = none] /\ t.wm.cmaps = u.wm.cmaps
      /\ t.wm.pushed_cmaps = u.wm.pushed_cmaps /\ t.wm.root_pushes = u.wm.root_pushes
  BY <1>5 DEF Relisted
<1>7. ColorsCounted(t)
  <2>1. \A c \in Colormap : Wearing(t, c) = Wearing(u, c)
    BY <1>6 DEF Wearing
  <2>2. QED
    BY <1>4, <1>6, <2>1, SameWearing
<1>8. t.wm.cwins = [s.wm.cwins EXCEPT ![o] = <<>>]
  BY <1>4, <1>6 DEF none
<1>9. QED
  BY <1>2, <1>4, <1>6, <1>7, <1>8 DEF list

\* A list is given up for another one.
LEMMA ListsCounted ==
  ASSUME NEW s \in CState, WindowsCounted(s), NEW t, NEW o \in Owner, NEW list \in Seq(CWindow),
         t.wm.cwins = [s.wm.cwins EXCEPT ![o] = list],
         \A v \in CWindow : t.wm.cwin[v].refcnt =
           s.wm.cwin[v].refcnt + Occurs(list, v, Len(list))
             - Occurs(s.wm.cwins[o], v, Len(s.wm.cwins[o]))
  PROVE  WindowsCounted(t)
<1> DEFINE cwins == s.wm.cwins
           new == [cwins EXCEPT ![o] = list]
<1>1. cwins \in [Owner -> Seq(CWindow)] /\ Len(list) \in Nat
  BY CStateIs, LenProperties
<1>2. cwins[o] \in Seq(CWindow)
  BY <1>1
<1>3. Len(cwins[o]) \in Nat
  BY <1>2, LenProperties
<1>4. ASSUME NEW v \in CWindow
      PROVE  t.wm.cwin[v].refcnt = Cardinality(PlacesOnLists(t.wm.cwins, v))
  <2> DEFINE a == Occurs(cwins[o], v, Len(cwins[o]))
             b == Occurs(list, v, Len(list))
             p == Cardinality(PlacesOnLists(cwins, v))
             q == Cardinality(PlacesOnLists(new, v))
  <2> HIDE DEF cwins
  <2>1. a \in Nat /\ b \in Nat
    BY <1>1, <1>3, OccursIs
  <2>2. q = p - a + b /\ p \in Nat
    BY <1>1, OtherList
  <2>3. s.wm.cwin[v].refcnt = p
    BY DEF WindowsCounted, cwins
  <2>4. t.wm.cwin[v].refcnt = p + b - a
    BY <2>3 DEF cwins
  <2>5. t.wm.cwins = new
    BY DEF cwins
  <2> HIDE DEF a, b, p, q, cwins, new
  <2>6. t.wm.cwin[v].refcnt = q
    BY <2>1, <2>2, <2>4
  <2>7. QED
    BY <2>5, <2>6 DEF q
<1>5. QED
  BY <1>4 DEF WindowsCounted

\* From s to t the counts stay right and the same list is in force.
Steady(s, t) ==
  /\ Sane(t)
  /\ t.wm.cmaps = s.wm.cmaps /\ t.wm.pushed_cmaps = s.wm.pushed_cmaps
  /\ t.wm.root_pushes = s.wm.root_pushes
  /\ Deaths(t) \subseteq Deaths(s) /\ t.x.dead = s.x.dead

\* What counts nothing is steady.
LEMMA StillSteady ==
  ASSUME NEW s, NEW t, Sane(s), Still(s, t)
  PROVE  Steady(s, t)
BY StillSane DEF Steady, Still, Keeps

\* Twice steady is steady.
LEMMA SteadyTwice ==
  ASSUME NEW s, NEW t, NEW u, Steady(s, t), Steady(t, u)
  PROVE  Steady(s, u)
BY DEF Steady

\* What is steady pushes nothing.
LEMMA SteadyStays ==
  ASSUME NEW s, NEW t, NEW us, Steady(s, t), Unpushed(s, us)
  PROVE  Unpushed(t, us)
BY DEF Steady, Unpushed

\* What is forgotten of a colormap.
LEMMA ForgottenIs ==
  ASSUME NEW k \in MapState
  PROVE  /\ [k EXCEPT !.installable = FALSE] \in MapState
         /\ [k EXCEPT !.installable = FALSE].refcnt = k.refcnt
         /\ [k EXCEPT !.installed = FALSE, !.installable = FALSE] \in MapState
         /\ [k EXCEPT !.installed = FALSE, !.installable = FALSE].refcnt = k.refcnt
BY DEF MapState

\* To forget the states counts nothing.
LEMMA ResetStatesStill ==
  ASSUME NEW s \in CState, NEW o \in Owner
  PROVE  Still(s, ResetStates(s, o))
<1> DEFINE maps == {s.wm.cwin[w].colormap : w \in Range(s.wm.cwins[o])}
           gone(m) == [s.wm.cmap[m] EXCEPT !.installed = FALSE, !.installable = FALSE]
           some(m) == IF m \in maps THEN gone(m) ELSE s.wm.cmap[m]
           cmap == [m \in Colormap |-> some(m)]
<1>1. ResetStates(s, o) = [s EXCEPT !.wm.cmap = cmap]
  BY Zenon DEF ResetStates
<1> HIDE DEF maps
<1>2. ASSUME NEW m \in Colormap PROVE some(m) \in MapState /\ some(m).refcnt = s.wm.cmap[m].refcnt
  <2> DEFINE k == s.wm.cmap[m]
  <2>1. k \in MapState
    BY CStateIs
  <2> HIDE DEF k
  <2>2. /\ [k EXCEPT !.installed = FALSE, !.installable = FALSE] \in MapState
        /\ [k EXCEPT !.installed = FALSE, !.installable = FALSE].refcnt = k.refcnt
    BY <2>1, ForgottenIs
  <2>3. gone(m) \in MapState /\ gone(m).refcnt = k.refcnt
    BY <2>2 DEF k
  <2> HIDE DEF gone
  <2>4. QED
    BY <2>1, <2>3 DEF k
<1> HIDE DEF some
<1>3. cmap \in [Colormap -> MapState] /\ \A c \in Colormap : cmap[c].refcnt = s.wm.cmap[c].refcnt
  BY <1>2
<1> HIDE DEF cmap
<1>4. Still(s, [s EXCEPT !.wm.cmap = cmap])
  BY <1>3, CmapStill
<1>5. QED
  BY <1>1, <1>4

\* Another list is in force or pushed, or another number is.
Forced(s, t) ==
  /\ t \in CState /\ t.x = s.x
  /\ t.wm.cwin = s.wm.cwin /\ t.wm.cwins = s.wm.cwins /\ t.wm.cmap = s.wm.cmap

\* Another list in force leaves the counts right.
LEMMA ForcedSane ==
  ASSUME NEW s, NEW t, Sane(s), Forced(s, t), InForce(t)
  PROVE  Sane(t) /\ Deaths(t) = Deaths(s)
<1>1. /\ ColorsCounted(s) /\ WindowsCounted(s) /\ Listed(s)
      /\ \A e \in Deaths(s) : e.w \in Client
  BY DEF Sane
<1>2. /\ t \in CState /\ t.x = s.x
      /\ t.wm.cwin = s.wm.cwin /\ t.wm.cwins = s.wm.cwins /\ t.wm.cmap = s.wm.cmap
  BY DEF Forced
<1>3. \A c \in Colormap : Wearing(t, c) = Wearing(s, c)
  BY <1>2 DEF Wearing
<1>4. ColorsCounted(t)
  BY <1>1, <1>2, <1>3, SameWearing
<1>5. WindowsCounted(t) /\ Listed(t) /\ Deaths(t) = Deaths(s)
  BY <1>1, <1>2 DEF WindowsCounted, Listed, Deaths
<1>6. QED
  BY <1>1, <1>2, <1>4, <1>5 DEF Sane

\* The three ways to force a list.
LEMMA ForcedIs ==
  ASSUME NEW s \in CState, NEW o \in Owner, NEW n \in Nat
  PROVE  /\ LET t == [s EXCEPT !.wm.pushed_cmaps = o]
            IN  /\ Forced(s, t) /\ t.wm.cmaps = s.wm.cmaps /\ t.wm.pushed_cmaps = o
                /\ t.wm.root_pushes = s.wm.root_pushes
         /\ LET t == [s EXCEPT !.wm.cmaps = o]
            IN  /\ Forced(s, t) /\ t.wm.cmaps = o /\ t.wm.pushed_cmaps = s.wm.pushed_cmaps
                /\ t.wm.root_pushes = s.wm.root_pushes
         /\ LET t == [s EXCEPT !.wm.root_pushes = n]
            IN  /\ Forced(s, t) /\ t.wm.cmaps = s.wm.cmaps
                /\ t.wm.pushed_cmaps = s.wm.pushed_cmaps /\ t.wm.root_pushes = n
<1> DEFINE t == [s EXCEPT !.wm.pushed_cmaps = o]
           u == [s EXCEPT !.wm.cmaps = o]
           v == [s EXCEPT !.wm.root_pushes = n]
<1>1. /\ Forced(s, t) /\ t.wm.cmaps = s.wm.cmaps /\ t.wm.pushed_cmaps = o
      /\ t.wm.root_pushes = s.wm.root_pushes
  BY DEF Forced, CState, WmType
<1>2. /\ Forced(s, u) /\ u.wm.cmaps = o /\ u.wm.pushed_cmaps = s.wm.pushed_cmaps
      /\ u.wm.root_pushes = s.wm.root_pushes
  BY DEF Forced, CState, WmType
<1>3. /\ Forced(s, v) /\ v.wm.cmaps = s.wm.cmaps
      /\ v.wm.pushed_cmaps = s.wm.pushed_cmaps /\ v.wm.root_pushes = n
  BY DEF Forced, CState, WmType
<1> HIDE DEF t, u, v
<1>4. QED
  BY <1>1, <1>2, <1>3, Zenon DEF t, u, v

\* InstallColormaps of a list that is there.
LEMMA InstallColormapsIs ==
  ASSUME NEW s, Sane(s), NEW o \in owning(s) \cup {root}
  PROVE  LET t == InstallColormaps(s, o)
         IN  /\ Sane(t) /\ Keeps(s, t) /\ t.wm.pushed_cmaps = o
             /\ t.wm.cmaps = IF s.wm.root_pushes > 0 THEN s.wm.cmaps ELSE o
<1> DEFINE old == {s.wm.cwin[w].colormap : w \in Range(s.wm.cwins[s.wm.cmaps])}
           gone(m) == [s.wm.cmap[m] EXCEPT !.installable = FALSE]
           some(m) == IF m \in old THEN gone(m) ELSE s.wm.cmap[m]
           cmap == [m \in Colormap |-> some(m)]
           p == [s EXCEPT !.wm.pushed_cmaps = o]
           q == [p EXCEPT !.wm.cmaps = o]
           r == [q EXCEPT !.wm.cmap = cmap]
<1>1. s \in CState /\ o \in Owner /\ InForce(s)
  BY DEF Sane, owning, Owner
<1>2. InstallColormaps(s, o) = IF s.wm.root_pushes > 0 THEN p ELSE InstallList(r)
  BY Zenon DEF InstallColormaps
<1> HIDE DEF p, q, r, cmap
<1>3. /\ Forced(s, p) /\ p.wm.cmaps = s.wm.cmaps /\ p.wm.pushed_cmaps = o
      /\ p.wm.root_pushes = s.wm.root_pushes
  BY <1>1, ForcedIs DEF p
<1>4. p \in CState
  BY <1>3 DEF Forced
<1>5. /\ Forced(p, q) /\ q.wm.cmaps = o /\ q.wm.pushed_cmaps = p.wm.pushed_cmaps
      /\ q.wm.root_pushes = p.wm.root_pushes
  BY <1>1, <1>4, ForcedIs DEF q
<1>6. Forced(s, q) /\ q \in CState /\ q.wm.pushed_cmaps = o
  BY <1>3, <1>5 DEF Forced
<1>7. InForce(p) /\ InForce(q)
  BY <1>1, <1>3, <1>5, <1>6 DEF InForce, Forced, owning
<1>8. Sane(p) /\ Sane(q) /\ Deaths(p) = Deaths(s) /\ Deaths(q) = Deaths(s)
  BY <1>3, <1>6, <1>7, ForcedSane
<1>9. Keeps(s, p) /\ Keeps(s, q)
  BY <1>3, <1>5, <1>6, <1>8 DEF Keeps, Forced
<1>10. ASSUME NEW m \in Colormap PROVE some(m) \in MapState /\ some(m).refcnt = s.wm.cmap[m].refcnt
  <2> DEFINE k == s.wm.cmap[m]
  <2>1. k \in MapState
    BY <1>1, CStateIs
  <2> HIDE DEF k
  <2>2. /\ [k EXCEPT !.installable = FALSE] \in MapState
        /\ [k EXCEPT !.installable = FALSE].refcnt = k.refcnt
    BY <2>1, ForgottenIs
  <2>3. gone(m) \in MapState /\ gone(m).refcnt = k.refcnt
    BY <2>2 DEF k
  <2> HIDE DEF gone, old
  <2>4. QED
    BY <2>1, <2>3 DEF k
<1> HIDE DEF some, old
<1>11. cmap \in [Colormap -> MapState] /\ \A c \in Colormap : cmap[c].refcnt = q.wm.cmap[c].refcnt
  <2>1. q.wm.cmap = s.wm.cmap
    BY <1>6 DEF Forced
  <2>2. QED
    BY <1>10, <2>1 DEF cmap
<1>12. Still(q, r)
  BY <1>6, <1>11, CmapStill DEF r
<1>13. r \in CState
  BY <1>12 DEF Still, Keeps
<1>14. Still(q, InstallList(r))
  BY <1>12, <1>13, InstallListStill, StillTwice
<1>15. Sane(InstallList(r)) /\ Keeps(s, InstallList(r))
  <2>1. Sane(InstallList(r))
    BY <1>8, <1>14, StillSane
  <2>2. QED
    BY <1>9, <1>14, <2>1 DEF Still, Keeps
<1>16. InstallList(r).wm.cmaps = o /\ InstallList(r).wm.pushed_cmaps = o
  BY <1>5, <1>6, <1>14 DEF Still
<1>17. CASE s.wm.root_pushes > 0
  <2>1. InstallColormaps(s, o) = p
    BY <1>2, <1>17
  <2>2. QED
    BY <1>3, <1>8, <1>9, <1>17, <2>1
<1>18. CASE ~ (s.wm.root_pushes > 0)
  <2>1. InstallColormaps(s, o) = InstallList(r)
    BY <1>2, <1>18
  <2>2. QED
    BY <1>15, <1>16, <1>18, <2>1
<1>19. QED
  BY <1>17, <1>18

\* The root colormap is pushed.
LEMMA InstallRootIs ==
  ASSUME NEW s, Sane(s)
  PROVE  LET t == InstallRootColormap(s) IN Sane(t) /\ Deaths(t) \subseteq Deaths(s)
<1> DEFINE t == InstallColormaps(s, root)
           u == [t EXCEPT !.wm.pushed_cmaps = s.wm.pushed_cmaps]
           v == IF s.wm.root_pushes = 0 THEN u ELSE s
           w == [v EXCEPT !.wm.root_pushes = v.wm.root_pushes + 1]
<1>1. InstallRootColormap(s) = w
  BY Zenon DEF InstallRootColormap
<1>2. Sane(t) /\ Keeps(s, t) /\ t.wm.cmaps \in {s.wm.cmaps, root}
  <2> HIDE DEF t
  <2>1. /\ Sane(t) /\ Keeps(s, t)
        /\ t.wm.cmaps = IF s.wm.root_pushes > 0 THEN s.wm.cmaps ELSE root
    BY InstallColormapsIs DEF t
  <2>2. QED
    BY <2>1
<1> HIDE DEF t, u, v, w
<1>3. t \in CState /\ s \in CState /\ s.wm.pushed_cmaps \in Owner /\ InForce(s)
  BY <1>2, CStateIs DEF Sane
<1>4. Forced(t, u) /\ u.wm.cmaps = t.wm.cmaps /\ u.wm.pushed_cmaps = s.wm.pushed_cmaps
  BY <1>3, ForcedIs DEF u
<1>5. InForce(u)
  BY <1>2, <1>3, <1>4 DEF InForce, Forced, Keeps, owning
<1>6. Sane(u) /\ Deaths(u) = Deaths(t)
  BY <1>2, <1>4, <1>5, ForcedSane
<1>7. Sane(v) /\ Deaths(v) \subseteq Deaths(s)
  BY <1>2, <1>6 DEF v, Keeps
<1>8. v \in CState /\ v.wm.root_pushes \in Nat
  BY <1>7, CStateIs DEF Sane
<1> DEFINE n == v.wm.root_pushes + 1
<1>9. n \in Nat
  BY <1>8
<1> HIDE DEF n
<1>10. v.wm.cmaps \in Owner
  BY <1>8, CStateIs
<1>11. Forced(v, w) /\ w.wm.cmaps = v.wm.cmaps /\ w.wm.pushed_cmaps = v.wm.pushed_cmaps
  BY <1>8, <1>9, <1>10, ForcedIs DEF w, n
<1>12. InForce(w)
  BY <1>7, <1>11 DEF InForce, Forced, owning, Sane
<1>13. Sane(w) /\ Deaths(w) = Deaths(v)
  BY <1>7, <1>11, <1>12, ForcedSane
<1>14. QED
  BY <1>1, <1>7, <1>13

\* What was pushed comes back.
LEMMA UninstallRootIs ==
  ASSUME NEW s, Sane(s)
  PROVE  LET t == UninstallRootColormap(s) IN Sane(t) /\ Deaths(t) \subseteq Deaths(s)
<1> DEFINE n == IF s.wm.root_pushes = 0 THEN 0 ELSE s.wm.root_pushes - 1
           t == [s EXCEPT !.wm.root_pushes = n]
           crossed == \E i \in DOMAIN s.x.queue : s.x.queue[i].type = "enter"
           u == InstallColormaps(t, t.wm.pushed_cmaps)
<1>1. UninstallRootColormap(s) = IF t.wm.root_pushes > 0 \/ crossed THEN t ELSE u
  BY Zenon DEF UninstallRootColormap
<1>2. s \in CState /\ s.wm.root_pushes \in Nat /\ s.wm.cmaps \in Owner /\ InForce(s)
  BY CStateIs DEF Sane
<1>3. n \in Nat
  BY <1>2
<1> HIDE DEF n, t, u, crossed
<1>4. Forced(s, t) /\ t.wm.cmaps = s.wm.cmaps /\ t.wm.pushed_cmaps = s.wm.pushed_cmaps
  BY <1>2, <1>3, ForcedIs DEF t
<1>5. InForce(t)
  BY <1>2, <1>4 DEF InForce, Forced, owning
<1>6. Sane(t) /\ Deaths(t) = Deaths(s)
  BY <1>4, <1>5, ForcedSane
<1>7. t.wm.pushed_cmaps \in owning(t) \cup {root}
  BY <1>5 DEF InForce
<1> DEFINE o == t.wm.pushed_cmaps
<1> HIDE DEF o
<1>8. Sane(u) /\ Keeps(t, u)
  BY <1>6, <1>7, InstallColormapsIs DEF u, o
<1>9. QED
  BY <1>1, <1>6, <1>8 DEF Keeps

\* A window that has a place is counted.
LEMMA PlaceCounts ==
  ASSUME NEW s \in CState, WindowsCounted(s), NEW o \in Owner, NEW w \in Range(s.wm.cwins[o])
  PROVE  w \in CWindow /\ s.wm.cwin[w].refcnt > 0
<1> DEFINE list == s.wm.cwins[o]
           P == PlacesOnLists(s.wm.cwins, w)
<1>1. list \in Seq(CWindow) /\ s.wm.cwins \in [Owner -> Seq(CWindow)]
  BY CStateIs
<1>2. PICK i \in 1 .. Len(list) : w = list[i]
  <2> HIDE DEF list
  <2>1. w \in Range(list)
    BY DEF list
  <2>2. QED
    BY <1>1, <2>1, RangeIs
<1>3. w \in CWindow /\ DOMAIN list = 1 .. Len(list)
  <2> HIDE DEF list
  <2>1. QED
    BY <1>1, <1>2, LenProperties, ElementOfSeq
<1>4. <<o, i>> \in P
  BY <1>2, <1>3 DEF PlacesOnLists
<1>5. IsFiniteSet(P)
  <2> DEFINE cwins == s.wm.cwins
  <2>1. cwins \in [Owner -> Seq(CWindow)]
    BY <1>1
  <2>2. list \in Seq(CWindow) /\ cwins[o] = list
    BY <1>1
  <2> HIDE DEF cwins, list
  <2>3. PICK E : /\ IsFiniteSet(E)
                 /\ PlacesOnLists(cwins, w) = E \cup PlacesOn(cwins[o], o, w)
                 /\ PlacesOnLists([cwins EXCEPT ![o] = list], w) = E \cup PlacesOn(list, o, w)
                 /\ E \cap PlacesOn(cwins[o], o, w) = {}
                 /\ E \cap PlacesOn(list, o, w) = {}
    BY <2>1, <2>2, PlacesSplit
  <2>4. IsFiniteSet(PlacesOn(list, o, w))
    BY <2>2, PlacesOnAre
  <2> DEFINE Q == PlacesOn(list, o, w)
  <2>5. IsFiniteSet(Q) /\ PlacesOnLists(cwins, w) = E \cup Q
    BY <2>2, <2>3, <2>4
  <2> HIDE DEF Q
  <2>6. IsFiniteSet(E)
    BY <2>3
  <2>7. IsFiniteSet(E \cup Q)
    BY <2>5, <2>6, FS_Union
  <2>8. QED
    BY <2>5, <2>7 DEF cwins
<1> HIDE DEF P
<1>6. Cardinality(P) \in Nat /\ Cardinality(P) # 0
  BY <1>4, <1>5, FS_EmptySet, FS_CardinalityType
<1>7. s.wm.cwin[w].refcnt = Cardinality(P)
  BY <1>3 DEF WindowsCounted, P
<1>8. QED
  BY <1>3, <1>6, <1>7

\* The new list of a client has the client if that is there.
LEMMA NewListIs ==
  ASSUME NEW s \in CState, NEW o \in Client, o \notin s.x.dead \/ s.wm.cwin[o].refcnt > 0
  PROVE  LET list == s.x.list[o]
             all == IF o \in Range(list) THEN list ELSE <<o>> \o list
             there == There(s, all)
         IN  there \in Seq(CWindow) /\ o \in Range(there)
<1> DEFINE list == s.x.list[o]
           one == <<o>>
           all == IF o \in Range(list) THEN list ELSE one \o list
           there == There(s, all)
<1>1. list \in Seq(Client \cup Sub)
  BY CStateIs
<1> HIDE DEF list
<1>2. list \in Seq(CWindow)
  <2>1. \A i \in 1 .. Len(list) : list[i] \in CWindow
    BY <1>1, ElementOfSeq DEF CWindow
  <2>2. Len(list) \in Nat /\ list = [i \in 1 .. Len(list) |-> list[i]]
    BY <1>1, LenProperties
  <2>3. list \in [1 .. Len(list) -> CWindow]
    BY <2>1, <2>2
  <2>4. QED
    BY <2>2, <2>3
<1>3. one \in Seq(CWindow) /\ o \in Range(one)
  BY DEF CWindow, Range
<1> HIDE DEF one
<1>4. all \in Seq(CWindow) /\ o \in Range(all)
  <2>1. one \o list \in Seq(CWindow) /\ Range(one \o list) = Range(one) \cup Range(list)
    BY <1>2, <1>3, ConcatRange
  <2>2. QED
    BY <1>2, <1>3, <2>1
<1> HIDE DEF all
<1>5. Found(s, all, there, Len(all))
  BY <1>4, ThereIs
<1>6. PICK i \in 1 .. Len(all) : o = all[i]
  BY <1>4, RangeIs
<1> HIDE DEF there
<1>7. there \in Seq(CWindow) /\ o \in Range(there)
  BY <1>5, <1>6 DEF Found
<1>8. QED
  BY <1>7, Zenon DEF there, all, one, list

\* The list of a client is fetched.
LEMMA FetchSteady ==
  ASSUME NEW s, Sane(s), NEW o \in Client, o \notin s.x.dead \/ o \in owning(s)
  PROVE  Steady(s, FetchWmColormapWindows(s, o))
<1> DEFINE had == s.wm.cwins[o] # <<>>
           previnst == s.wm.cmaps = o /\ had
           list == s.x.list[o]
           all == IF o \in Range(list) THEN list ELSE <<o>> \o list
           there == There(s, all)
           r == IF previnst THEN ResetStates(s, o) ELSE s
           taken == TakenUp(r, there)
           freed == free_cwins(taken, o)
           new == [freed EXCEPT !.wm.cwins[o] = there]
<1>1. FetchWmColormapWindows(s, o) = IF previnst THEN InstallList(new) ELSE new
  BY Zenon DEF FetchWmColormapWindows
<1>2. /\ s \in CState /\ ColorsCounted(s) /\ WindowsCounted(s) /\ Listed(s) /\ o \in Owner
      /\ o # root
  BY ColormapsAssumption DEF Sane, Owner, ColormapsAssumption
<1>3. o \notin s.x.dead \/ s.wm.cwin[o].refcnt > 0
  <2>1. CASE o \in owning(s)
    <3>1. o \in Range(s.wm.cwins[o])
      BY <1>2, <2>1 DEF owning, Listed
    <3>2. QED
      BY <1>2, <3>1, PlaceCounts
  <2>2. QED
    BY <2>1
<1>4. there \in Seq(CWindow) /\ o \in Range(there)
  BY <1>2, <1>3, NewListIs
<1> HIDE DEF previnst, there, r, taken, freed, new
<1>5. Still(s, r)
  <2>1. Still(s, s)
    BY <1>2 DEF Still, Keeps
  <2>2. Still(s, ResetStates(s, o))
    BY <1>2, ResetStatesStill
  <2>3. QED
    BY <2>1, <2>2 DEF r
<1>6. Sane(r) /\ Steady(s, r)
  BY <1>5, StillSane, StillSteady
<1>7. /\ r \in CState /\ ColorsCounted(r) /\ WindowsCounted(r) /\ Listed(r) /\ InForce(r)
      /\ \A e \in Deaths(r) : e.w \in Client
  BY <1>6 DEF Sane
<1>8. Took(r, there, taken, Len(there))
  BY <1>4, <1>7, TakenUpIs DEF taken
<1>9. /\ taken \in CState /\ ColorsCounted(taken) /\ taken.x = r.x
      /\ taken.wm.cwins = r.wm.cwins /\ taken.wm.cmaps = r.wm.cmaps
      /\ taken.wm.pushed_cmaps = r.wm.pushed_cmaps /\ taken.wm.root_pushes = r.wm.root_pushes
      /\ \A v \in CWindow :
           taken.wm.cwin[v].refcnt = r.wm.cwin[v].refcnt + Occurs(there, v, Len(there))
  BY <1>8 DEF Took, Around
<1> DEFINE mine == r.wm.cwins[o]
<1>10. ASSUME NEW v \in CWindow
       PROVE  /\ taken.wm.cwin[v].refcnt >= Occurs(mine, v, Len(mine))
              /\ Occurs(mine, v, Len(mine)) \in Nat
              /\ Occurs(there, v, Len(there)) \in Nat
              /\ r.wm.cwin[v].refcnt \in Nat
  <2> DEFINE cwins == r.wm.cwins
             a == Occurs(mine, v, Len(mine))
             b == Occurs(there, v, Len(there))
             p == Cardinality(PlacesOnLists(cwins, v))
  <2>1. cwins \in [Owner -> Seq(CWindow)] /\ mine = cwins[o] /\ mine \in Seq(CWindow)
    BY <1>2, <1>7, CStateIs
  <2>2. r.wm.cwin[v].refcnt = p
    BY <1>7 DEF WindowsCounted
  <2> HIDE DEF cwins, mine
  <2>3. p >= a /\ p \in Nat
    BY <1>2, <1>4, <2>1, OtherList
  <2>4. a \in Nat /\ b \in Nat
    <3>1. Len(mine) \in Nat /\ Len(there) \in Nat
      BY <1>4, <2>1, LenProperties
    <3>2. QED
      BY <3>1, OccursIs
  <2>5. taken.wm.cwin[v].refcnt = p + b
    BY <1>9, <2>2
  <2> HIDE DEF a, b, p
  <2>6. taken.wm.cwin[v].refcnt >= a
    BY <2>3, <2>4, <2>5
  <2>7. QED
    BY <2>2, <2>3, <2>4, <2>6 DEF a, b
<1>11. mine = taken.wm.cwins[o]
  BY <1>9
<1> HIDE DEF mine
<1>12. /\ freed \in CState /\ ColorsCounted(freed) /\ freed.x = taken.x
       /\ freed.wm.cwins = [taken.wm.cwins EXCEPT ![o] = <<>>]
       /\ freed.wm.cmaps = taken.wm.cmaps
       /\ freed.wm.pushed_cmaps = taken.wm.pushed_cmaps
       /\ freed.wm.root_pushes = taken.wm.root_pushes
       /\ \A v \in CWindow : freed.wm.cwin[v].refcnt =
            taken.wm.cwin[v].refcnt - Occurs(mine, v, Len(mine))
  <2>1. \A v \in CWindow : taken.wm.cwin[v].refcnt >=
           Occurs(taken.wm.cwins[o], v, Len(taken.wm.cwins[o]))
    BY <1>10, <1>11
  <2>2. QED
    BY <1>2, <1>9, <1>11, <2>1, FreeIs DEF freed
<1>13. Relisted(freed, new, o, there)
  BY <1>2, <1>4, <1>12, RelistedIs DEF new
<1>14. /\ new \in CState /\ new.x = r.x /\ new.wm.cwin = freed.wm.cwin
       /\ new.wm.cmap = freed.wm.cmap /\ new.wm.cmaps = r.wm.cmaps
       /\ new.wm.pushed_cmaps = r.wm.pushed_cmaps /\ new.wm.root_pushes = r.wm.root_pushes
       /\ new.wm.cwins = [freed.wm.cwins EXCEPT ![o] = there]
  BY <1>9, <1>12, <1>13 DEF Relisted
<1>15. new.wm.cwins = [r.wm.cwins EXCEPT ![o] = there]
  <2> DEFINE cwins == r.wm.cwins
  <2>1. cwins \in [Owner -> Seq(CWindow)]
    BY <1>7, CStateIs
  <2>2. freed.wm.cwins = [cwins EXCEPT ![o] = <<>>]
    BY <1>9, <1>12
  <2> HIDE DEF cwins
  <2>3. [[cwins EXCEPT ![o] = <<>>] EXCEPT ![o] = there] = [cwins EXCEPT ![o] = there]
    BY <2>1
  <2>4. QED
    BY <1>14, <2>2, <2>3 DEF cwins
<1>16. ColorsCounted(new)
  <2>1. \A c \in Colormap : Wearing(new, c) = Wearing(freed, c)
    BY <1>14 DEF Wearing
  <2>2. QED
    BY <1>12, <1>14, <2>1, SameWearing
<1>17. WindowsCounted(new)
  <2>1. \A v \in CWindow : new.wm.cwin[v].refcnt =
           r.wm.cwin[v].refcnt + Occurs(there, v, Len(there)) - Occurs(mine, v, Len(mine))
    BY <1>9, <1>10, <1>12, <1>14
  <2>2. QED
    BY <1>2, <1>4, <1>7, <1>15, <2>1, ListsCounted DEF mine
<1>18. /\ new.wm.cwins[o] = there
       /\ \A v \in Owner \ {o} : new.wm.cwins[v] = r.wm.cwins[v]
  <2>1. r.wm.cwins \in [Owner -> Seq(CWindow)]
    BY <1>7, CStateIs
  <2>2. QED
    BY <1>2, <1>15, <2>1
<1>19. there # <<>>
  BY <1>4 DEF Range
<1>20. Listed(new)
  <2>1. root \in Owner \ {o} /\ Client \subseteq Owner
    BY <1>2 DEF Owner
  <2>2. new.wm.cwins[root] = <<root>>
    BY <1>7, <1>18, <2>1 DEF Listed
  <2>3. ASSUME NEW v \in Client, new.wm.cwins[v] # <<>> PROVE v \in Range(new.wm.cwins[v])
    BY <1>4, <1>7, <1>18, <2>1, <2>3 DEF Listed
  <2>4. QED
    BY <2>2, <2>3 DEF Listed
<1>21. InForce(new)
  <2>1. owning(r) \subseteq owning(new)
    BY <1>18, <1>19 DEF owning, Owner
  <2>2. QED
    BY <1>7, <1>14, <2>1 DEF InForce
<1>22. Deaths(new) = Deaths(r)
  BY <1>14 DEF Deaths
<1>23. Sane(new)
  BY <1>7, <1>14, <1>16, <1>17, <1>20, <1>21, <1>22 DEF Sane
<1>24. Steady(s, new)
  BY <1>6, <1>14, <1>22, <1>23 DEF Steady
<1>25. Still(new, InstallList(new))
  BY <1>14, InstallListStill
<1>26. Steady(s, InstallList(new))
  BY <1>23, <1>24, <1>25, StillSteady, SteadyTwice
<1>27. QED
  BY <1>1, <1>24, <1>26

\* f.colormap turns the list.
LEMMA BumpSteady ==
  ASSUME NEW s, Sane(s), NEW o \in owning(s), NEW inc \in {-1, 0, 1}
  PROVE  Steady(s, BumpWindowColormap(s, o, inc))
<1> DEFINE r == IF s.wm.cmaps = o THEN ResetStates(s, o) ELSE s
           list == r.wm.cwins[o]
           turned == Rotated(list, inc)
           t == [r EXCEPT !.wm.cwins[o] = turned, !.wm.scoreboard[o] = {}]
<1>1. BumpWindowColormap(s, o, inc)
        = IF inc = 0 THEN FetchWmColormapWindows(s, o)
          ELSE IF s.wm.cmaps = o THEN InstallList(t) ELSE t
  BY Zenon DEF BumpWindowColormap
<1>2. /\ s \in CState /\ o \in Client /\ o \in Owner /\ o # root
  BY ColormapsAssumption DEF Sane, owning, Owner, ColormapsAssumption
<1>3. CASE inc = 0
  BY <1>1, <1>2, <1>3, FetchSteady
<1>4. CASE inc # 0
  <2> HIDE DEF r, list, turned, t
  <2>1. Still(s, r)
    <3>1. Still(s, s)
      BY <1>2 DEF Still, Keeps
    <3>2. Still(s, ResetStates(s, o))
      BY <1>2, ResetStatesStill
    <3>3. QED
      BY <3>1, <3>2 DEF r
  <2>2. Sane(r) /\ Steady(s, r) /\ r.wm.cwins = s.wm.cwins
    BY <2>1, StillSane, StillSteady DEF Still, Keeps
  <2>3. /\ r \in CState /\ ColorsCounted(r) /\ WindowsCounted(r) /\ Listed(r) /\ InForce(r)
        /\ \A e \in Deaths(r) : e.w \in Client
    BY <2>2 DEF Sane
  <2>4. list \in Seq(CWindow) /\ inc \in {-1, 1}
    BY <1>2, <1>4, <2>3, CStateIs DEF list
  <2>5. /\ turned \in Seq(CWindow) /\ Len(turned) = Len(list) /\ Range(turned) = Range(list)
        /\ \A w : Occurs(turned, w, Len(turned)) = Occurs(list, w, Len(list))
    BY <2>4, RotatedOccurs DEF turned
  <2>6. Relisted(r, t, o, turned)
    BY <1>2, <2>3, <2>5, RelistedIs DEF t
  <2>7. /\ t \in CState /\ t.x = r.x /\ t.wm.cwin = r.wm.cwin /\ t.wm.cmap = r.wm.cmap
        /\ t.wm.cwins = [r.wm.cwins EXCEPT ![o] = turned] /\ t.wm.cmaps = r.wm.cmaps
        /\ t.wm.pushed_cmaps = r.wm.pushed_cmaps /\ t.wm.root_pushes = r.wm.root_pushes
    BY <2>6 DEF Relisted
  <2>8. ColorsCounted(t)
    <3>1. \A c \in Colormap : Wearing(t, c) = Wearing(r, c)
      BY <2>7 DEF Wearing
    <3>2. QED
      BY <2>3, <2>7, <3>1, SameWearing
  <2>9. WindowsCounted(t)
    <3>1. ASSUME NEW v \in CWindow
          PROVE  t.wm.cwin[v].refcnt =
                   r.wm.cwin[v].refcnt + Occurs(turned, v, Len(turned)) - Occurs(list, v, Len(list))
      <4> DEFINE a == Occurs(list, v, Len(list))
                 d == r.wm.cwin[v].refcnt
      <4>1. a \in Nat
        BY <2>4, LenProperties, OccursIs
      <4>2. d \in Nat
        BY <2>3, CStateIs DEF LookedAt
      <4>3. Occurs(turned, v, Len(turned)) = a /\ t.wm.cwin[v].refcnt = d
        BY <2>5, <2>7
      <4> HIDE DEF a, d
      <4>4. d = d + a - a
        BY <4>1, <4>2
      <4>5. QED
        BY <4>3, <4>4 DEF a, d
    <3>2. QED
      BY <1>2, <2>3, <2>5, <2>7, <3>1, ListsCounted DEF list
  <2>10. t.wm.cwins[o] = turned /\ \A v \in Owner \ {o} : t.wm.cwins[v] = r.wm.cwins[v]
    <3>1. r.wm.cwins \in [Owner -> Seq(CWindow)]
      BY <2>3, CStateIs
    <3>2. QED
      BY <1>2, <2>7, <3>1
  <2>11. o \in Range(turned)
    <3>1. list # <<>> /\ list = r.wm.cwins[o]
      BY <2>2 DEF owning, list
    <3>2. QED
      BY <1>2, <2>3, <2>5, <3>1 DEF Listed
  <2>12. turned # <<>>
    BY <2>11 DEF Range
  <2>13. Listed(t)
    <3>1. root \in Owner \ {o} /\ Client \subseteq Owner
      BY <1>2 DEF Owner
    <3>2. t.wm.cwins[root] = <<root>>
      BY <2>3, <2>10, <3>1 DEF Listed
    <3>3. ASSUME NEW v \in Client, t.wm.cwins[v] # <<>> PROVE v \in Range(t.wm.cwins[v])
      BY <2>3, <2>10, <2>11, <3>1, <3>3 DEF Listed
    <3>4. QED
      BY <3>2, <3>3 DEF Listed
  <2>14. InForce(t)
    <3>1. owning(r) \subseteq owning(t)
      BY <2>10, <2>12 DEF owning, Owner
    <3>2. QED
      BY <2>3, <2>7, <3>1 DEF InForce
  <2>15. Deaths(t) = Deaths(r)
    BY <2>7 DEF Deaths
  <2>16. Sane(t)
    BY <2>3, <2>7, <2>8, <2>9, <2>13, <2>14, <2>15 DEF Sane
  <2>17. Steady(s, t)
    BY <2>2, <2>7, <2>15, <2>16 DEF Steady
  <2>18. Still(t, InstallList(t))
    BY <2>7, InstallListStill
  <2>19. Steady(s, InstallList(t))
    BY <2>16, <2>17, <2>18, StillSteady, SteadyTwice
  <2>20. QED
    BY <1>1, <1>4, <2>17, <2>19
<1>5. QED
  BY <1>3, <1>4

\* A client has gone, while nothing is pushed.
LEMMA DestroySane ==
  ASSUME NEW s, Sane(s), NEW o \in Client,
         s.wm.root_pushes = 0, s.wm.pushed_cmaps = s.wm.cmaps
  PROVE  LET t == DestroyColormaps(s, o)
         IN  /\ Sane(t) /\ Deaths(t) \subseteq Deaths(s)
             /\ t.wm.root_pushes = 0 /\ t.wm.pushed_cmaps = t.wm.cmaps
<1> DEFINE r == IF s.wm.cmaps = o THEN InstallColormaps(s, root) ELSE s
           list == r.wm.cwins[o]
           t == free_cwins(r, o)
           none == <<>>
<1>1. DestroyColormaps(s, o) = t
  BY Zenon DEF DestroyColormaps
<1>2. s \in CState /\ o \in Owner /\ o # root
  BY ColormapsAssumption DEF Sane, Owner, ColormapsAssumption
<1> HIDE DEF r, t, list, none
<1>3. /\ Sane(r) /\ Deaths(r) \subseteq Deaths(s) /\ r.wm.cmaps # o
      /\ r.wm.root_pushes = 0 /\ r.wm.pushed_cmaps = r.wm.cmaps
  <2>1. CASE s.wm.cmaps = o
    <3> DEFINE u == InstallColormaps(s, root)
    <3>1. /\ Sane(u) /\ Keeps(s, u) /\ u.wm.pushed_cmaps = root
          /\ u.wm.cmaps = IF s.wm.root_pushes > 0 THEN s.wm.cmaps ELSE root
      BY InstallColormapsIs
    <3>2. r = u
      BY <2>1 DEF r
    <3> HIDE DEF u
    <3>3. u.wm.cmaps = root
      BY <3>1
    <3>4. QED
      BY <1>2, <3>1, <3>2, <3>3 DEF Keeps
  <2>2. CASE s.wm.cmaps # o
    BY <2>2 DEF r
  <2>3. QED
    BY <2>1, <2>2
<1>4. /\ r \in CState /\ ColorsCounted(r) /\ WindowsCounted(r) /\ Listed(r) /\ InForce(r)
      /\ \A e \in Deaths(r) : e.w \in Client
  BY <1>3 DEF Sane
<1>5. list \in Seq(CWindow) /\ none \in Seq(CWindow)
  BY <1>2, <1>4, CStateIs, EmptySeq DEF list, none
<1>6. ASSUME NEW v \in CWindow
      PROVE  /\ r.wm.cwin[v].refcnt >= Occurs(list, v, Len(list))
             /\ Occurs(none, v, Len(none)) = 0
             /\ r.wm.cwin[v].refcnt \in Nat
             /\ Occurs(list, v, Len(list)) \in Nat
  <2> DEFINE cwins == r.wm.cwins
             p == Cardinality(PlacesOnLists(cwins, v))
  <2>1. cwins \in [Owner -> Seq(CWindow)] /\ list = cwins[o]
    BY <1>2, <1>4, CStateIs DEF list
  <2>2. r.wm.cwin[v].refcnt = p
    BY <1>4 DEF WindowsCounted
  <2> HIDE DEF cwins
  <2>3. p >= Occurs(list, v, Len(list)) /\ p \in Nat
    BY <1>2, <1>5, <2>1, OtherList
  <2>4. Len(none) = 0
    BY DEF none
  <2>5. Occurs(none, v, Len(none)) = 0
    BY <2>4, OccursIs
  <2>6. Occurs(list, v, Len(list)) \in Nat
    BY <1>5, LenProperties, OccursIs
  <2>7. QED
    BY <2>2, <2>3, <2>5, <2>6
<1>7. /\ t \in CState /\ ColorsCounted(t) /\ t.x = r.x
      /\ t.wm.cwins = [r.wm.cwins EXCEPT ![o] = <<>>] /\ t.wm.cmaps = r.wm.cmaps
      /\ t.wm.pushed_cmaps = r.wm.pushed_cmaps /\ t.wm.root_pushes = r.wm.root_pushes
      /\ \A v \in CWindow : t.wm.cwin[v].refcnt = r.wm.cwin[v].refcnt - Occurs(list, v, Len(list))
  <2>1. \A v \in CWindow : r.wm.cwin[v].refcnt >= Occurs(r.wm.cwins[o], v, Len(r.wm.cwins[o]))
    BY <1>6 DEF list
  <2>2. QED
    BY <1>2, <1>4, <2>1, FreeIs DEF t, list
<1>8. t.wm.cwins = [r.wm.cwins EXCEPT ![o] = none]
  BY <1>7 DEF none
<1>9. WindowsCounted(t)
  <2>1. \A v \in CWindow : t.wm.cwin[v].refcnt =
          r.wm.cwin[v].refcnt + Occurs(none, v, Len(none)) - Occurs(list, v, Len(list))
    BY <1>6, <1>7
  <2>2. QED
    BY <1>2, <1>4, <1>5, <1>8, <2>1, ListsCounted DEF list
<1>10. t.wm.cwins[o] = none /\ \A v \in Owner \ {o} : t.wm.cwins[v] = r.wm.cwins[v]
  <2>1. r.wm.cwins \in [Owner -> Seq(CWindow)]
    BY <1>4, CStateIs
  <2>2. QED
    BY <1>2, <1>8, <2>1
<1>11. Listed(t)
  <2>1. root \in Owner \ {o} /\ Client \subseteq Owner
    BY <1>2 DEF Owner
  <2>2. t.wm.cwins[root] = <<root>>
    BY <1>4, <1>10, <2>1 DEF Listed
  <2>3. ASSUME NEW v \in Client, t.wm.cwins[v] # <<>> PROVE v \in Range(t.wm.cwins[v])
    BY <1>4, <1>10, <2>1, <2>3 DEF Listed, none
  <2>4. QED
    BY <2>2, <2>3 DEF Listed
<1>12. InForce(t)
  <2>1. owning(r) \ {o} \subseteq owning(t)
    BY <1>10 DEF owning, Owner
  <2>2. {r.wm.cmaps, r.wm.pushed_cmaps} \subseteq (owning(r) \ {o}) \cup {root}
    BY <1>3, <1>4 DEF InForce
  <2>3. QED
    BY <1>7, <2>1, <2>2 DEF InForce
<1>13. Deaths(t) = Deaths(r)
  BY <1>7 DEF Deaths
<1>14. Sane(t)
  BY <1>4, <1>7, <1>9, <1>11, <1>12, <1>13 DEF Sane
<1>15. QED
  BY <1>1, <1>3, <1>7, <1>13, <1>14

(***************************************************************************)
(* The events.                                                              *)
(***************************************************************************)

\* The counts of the lists stay right if those of the windows stay.
LEMMA CountsSteady ==
  ASSUME NEW s, NEW t, Sane(s), Around(s, t), ColorsCounted(t),
         \A v \in CWindow : t.wm.cwin[v].refcnt = s.wm.cwin[v].refcnt
  PROVE  Steady(s, t)
<1>1. /\ WindowsCounted(s) /\ Listed(s) /\ InForce(s) /\ \A e \in Deaths(s) : e.w \in Client
  BY DEF Sane
<1>2. /\ t \in CState /\ t.x = s.x /\ t.wm.cwins = s.wm.cwins /\ t.wm.cmaps = s.wm.cmaps
      /\ t.wm.pushed_cmaps = s.wm.pushed_cmaps /\ t.wm.root_pushes = s.wm.root_pushes
  BY DEF Around
<1>3. WindowsCounted(t) /\ Listed(t) /\ InForce(t) /\ Deaths(t) = Deaths(s)
  BY <1>1, <1>2 DEF WindowsCounted, Listed, InForce, Deaths, owning
<1>4. QED
  BY <1>1, <1>2, <1>3 DEF Sane, Steady

\* Another state of a colormap that is held as often.
LEMMA CmapSteady ==
  ASSUME NEW s, Sane(s), NEW c \in Colormap, NEW k \in MapState,
         k.refcnt = s.wm.cmap[c].refcnt
  PROVE  Steady(s, [s EXCEPT !.wm.cmap[c] = k])
<1> DEFINE t == [s EXCEPT !.wm.cmap[c] = k]
<1>1. s \in CState /\ ColorsCounted(s)
  BY DEF Sane
<1> HIDE DEF t
<1>2. /\ Around(s, t) /\ t.wm.cwin = s.wm.cwin /\ t.wm.cmap[c] = k
      /\ \A d \in Colormap \ {c} : t.wm.cmap[d] = s.wm.cmap[d]
  BY <1>1, CmapIs DEF t
<1>3. \A d \in Colormap : /\ Wearing(t, d) = Wearing(s, d)
                          /\ t.wm.cmap[d].refcnt = s.wm.cmap[d].refcnt
  BY <1>2 DEF Wearing
<1>4. ColorsCounted(t)
  BY <1>1, <1>3, SameWearing
<1>5. Steady(s, t)
  BY <1>2, <1>4, CountsSteady
<1>6. QED
  BY <1>5 DEF t

\* A colormap is known to be installed or not.
LEMMA InstalledSteady ==
  ASSUME NEW s, Sane(s), NEW c \in Colormap, NEW b \in BOOLEAN
  PROVE  Steady(s, [s EXCEPT !.wm.cmap[c].installed = b])
<1> DEFINE l == s.wm.cmap[c]
           k == [l EXCEPT !.installed = b]
<1>1. l \in MapState
  BY CStateIs DEF Sane
<1> HIDE DEF l
<1>2. k \in MapState /\ k.refcnt = l.refcnt
  BY <1>1 DEF MapState
<1>3. [s EXCEPT !.wm.cmap[c].installed = b] = [s EXCEPT !.wm.cmap[c] = k]
  BY Zenon DEF l
<1> HIDE DEF k
<1>4. Steady(s, [s EXCEPT !.wm.cmap[c] = k])
  BY <1>2, CmapSteady DEF l
<1>5. QED
  BY <1>3, <1>4

\* What else ctwm keeps counts nothing.
LEMMA ThrashingStill ==
  ASSUME NEW s \in CState, NEW b \in BOOLEAN
  PROVE  Still(s, [s EXCEPT !.wm.ColortableThrashing = b])
<1> DEFINE t == [s EXCEPT !.wm.ColortableThrashing = b]
<1>1. /\ t \in CState /\ t.x = s.x /\ t.wm.cmap = s.wm.cmap
      /\ t.wm.cwin = s.wm.cwin /\ t.wm.cwins = s.wm.cwins /\ t.wm.cmaps = s.wm.cmaps
      /\ t.wm.pushed_cmaps = s.wm.pushed_cmaps /\ t.wm.root_pushes = s.wm.root_pushes
  BY DEF CState, WmType
<1> HIDE DEF t
<1>2. Still(s, t)
  BY <1>1 DEF Still, Keeps, Deaths
<1>3. QED
  BY <1>2 DEF t

\* The scoreboard counts nothing.
LEMMA ScoreStill ==
  ASSUME NEW s \in CState, NEW lost \in Nat, NEW won \in Nat
  PROVE  Still(s, MarkConflict(s, lost, won))
<1> DEFINE o == s.wm.cmaps
           B == SUBSET (Nat \X Nat)
           pair == IF lost > won THEN <<lost, won>> ELSE <<won, lost>>
           had == s.wm.scoreboard[o]
           has == had \cup {pair}
           board == [s.wm.scoreboard EXCEPT ![o] = has]
           t == [s EXCEPT !.wm.scoreboard = board]
<1>1. o \in Owner /\ s.wm.scoreboard \in [Owner -> B]
  BY CStateIs DEF WmType
<1>2. has \in B
  BY <1>1
<1>3. MarkConflict(s, lost, won) = t
  BY Zenon DEF MarkConflict
<1> HIDE DEF B, has
<1>4. board \in [Owner -> B]
  BY <1>1, <1>2
<1> HIDE DEF board
<1>5. board \in [Owner -> SUBSET (Nat \X Nat)]
  BY <1>4 DEF B
<1>6. /\ t \in CState /\ t.x = s.x /\ t.wm.cmap = s.wm.cmap
      /\ t.wm.cwin = s.wm.cwin /\ t.wm.cwins = s.wm.cwins /\ t.wm.cmaps = s.wm.cmaps
      /\ t.wm.pushed_cmaps = s.wm.pushed_cmaps /\ t.wm.root_pushes = s.wm.root_pushes
  BY <1>5 DEF CState, WmType
<1> HIDE DEF t
<1>7. Still(s, t)
  BY <1>6 DEF Still, Keeps, Deaths
<1>8. QED
  BY <1>3, <1>7

\* A colormap that one window leaves for another one.
LEMMA Recolored ==
  ASSUME NEW s, Sane(s), NEW w \in CWindow, s.wm.cwin[w].refcnt > 0,
         NEW new \in Colormap, NEW b \in BOOLEAN
  PROVE  LET c == s.wm.cwin[w].colormap
             t == [s EXCEPT !.wm.cwin[w].colormap = new,
                            !.wm.cmap[new] = Held(s.wm.cmap[new])]
             k == t.wm.cmap[c]
             u == [t EXCEPT !.wm.cmap[c] = [k EXCEPT !.refcnt = k.refcnt - 1, !.installed = b]]
         IN  Steady(s, u)
<1> DEFINE l == s.wm.cwin[w]
           c == l.colormap
           r == [l EXCEPT !.colormap = new]
           a == [s EXCEPT !.wm.cwin[w] = r]
           held == Held(s.wm.cmap[new])
           t == [a EXCEPT !.wm.cmap[new] = held]
           k == t.wm.cmap[c]
           less == [k EXCEPT !.refcnt = k.refcnt - 1, !.installed = b]
           u == [t EXCEPT !.wm.cmap[c] = less]
<1>1. s \in CState /\ ColorsCounted(s)
  BY DEF Sane
<1>2. /\ s.wm.cwin \in [CWindow -> LookedAt] /\ s.wm.cmap \in [Colormap -> MapState]
  BY <1>1, CStateIs
<1>3. l \in LookedAt
  BY <1>2
<1>4. [s EXCEPT !.wm.cwin[w].colormap = new, !.wm.cmap[new] = Held(s.wm.cmap[new])] = t
  BY Zenon
<1> HIDE DEF l
<1>5. c \in Colormap /\ r \in LookedAt /\ r.colormap = new /\ r.refcnt = l.refcnt
  BY <1>3 DEF LookedAt
<1> HIDE DEF c, r, a, held, t, k, less, u
<1>6. /\ Around(s, a) /\ a.wm.cmap = s.wm.cmap /\ a.wm.cwin[w] = r
      /\ \A v \in CWindow \ {w} : a.wm.cwin[v] = s.wm.cwin[v]
  BY <1>1, <1>5, CwinIs DEF a
<1>7. held \in MapState /\ held.refcnt = s.wm.cmap[new].refcnt + 1
  BY <1>2, HeldIs DEF held
<1>8. a \in CState
  BY <1>6 DEF Around
<1>9. /\ Around(a, t) /\ t.wm.cwin = a.wm.cwin /\ t.wm.cmap[new] = held
      /\ \A d \in Colormap \ {new} : t.wm.cmap[d] = a.wm.cmap[d]
  BY <1>7, <1>8, CmapIs DEF t
<1>10. t \in CState
  BY <1>9 DEF Around
<1>11. k \in MapState
  BY <1>5, <1>10, CStateIs DEF k
<1> DEFINE n == k.refcnt
<1>12. n = s.wm.cmap[c].refcnt + IF c = new THEN 1 ELSE 0
  <2>1. CASE c = new
    BY <1>7, <1>9, <2>1 DEF k
  <2>2. CASE c # new
    <3>1. k = s.wm.cmap[c]
      BY <1>5, <1>6, <1>9, <2>2 DEF k
    <3>2. s.wm.cmap[c].refcnt \in Nat
      BY <1>2, <1>5 DEF MapState
    <3>3. QED
      BY <2>2, <3>1, <3>2
  <2>3. QED
    BY <2>1, <2>2
<1>13. w \in Wearing(s, c) /\ \A d \in Colormap \ {c} : w \notin Wearing(s, d)
  BY <1>3 DEF Wearing, l, c
<1>14. s.wm.cmap[c].refcnt \in Nat /\ s.wm.cmap[c].refcnt > 0
  <2> DEFINE W == Wearing(s, c)
  <2>1. IsFiniteSet(W) /\ w \in W /\ Cardinality(W) \in Nat
    BY <1>13, WearingFinite
  <2>2. s.wm.cmap[c].refcnt = Cardinality(W)
    BY <1>1, <1>5 DEF ColorsCounted
  <2> HIDE DEF W
  <2>3. Cardinality(W) # 0
    BY <2>1, FS_EmptySet
  <2>4. QED
    BY <2>1, <2>2, <2>3
<1>15. n \in Nat /\ n > 0
  BY <1>12, <1>14
<1>16. less \in MapState /\ less.refcnt = n - 1
  <2> DEFINE m == k.refcnt - 1
  <2>1. m \in Nat
    BY <1>15
  <2> HIDE DEF m
  <2>2. [k EXCEPT !.refcnt = m, !.installed = b] \in MapState
    BY <1>11, <2>1 DEF MapState
  <2>3. [k EXCEPT !.refcnt = m, !.installed = b].refcnt = m
    BY <1>11 DEF MapState
  <2>4. QED
    BY <2>2, <2>3 DEF less, m
<1>17. /\ Around(t, u) /\ u.wm.cwin = t.wm.cwin /\ u.wm.cmap[c] = less
       /\ \A d \in Colormap \ {c} : u.wm.cmap[d] = t.wm.cmap[d]
  BY <1>5, <1>10, <1>16, CmapIs DEF u
<1>18. Around(s, u)
  BY <1>6, <1>9, <1>17 DEF Around
<1>19. /\ u.wm.cwin[w] = r /\ \A v \in CWindow \ {w} : u.wm.cwin[v] = s.wm.cwin[v]
  BY <1>6, <1>9, <1>17
<1>20. \A v \in CWindow : u.wm.cwin[v].refcnt = s.wm.cwin[v].refcnt
  BY <1>5, <1>19 DEF l
<1>21. ColorsCounted(u)
  <2>1. CASE c = new
    <3>1. ASSUME NEW d \in Colormap
          PROVE  /\ Wearing(u, d) = Wearing(s, d)
                 /\ u.wm.cmap[d].refcnt = s.wm.cmap[d].refcnt
      <4>1. \A v \in CWindow : u.wm.cwin[v].colormap = s.wm.cwin[v].colormap
        BY <1>5, <1>19, <2>1 DEF l, c
      <4>2. Wearing(u, d) = Wearing(s, d)
        BY <1>20, <4>1 DEF Wearing
      <4>3. CASE d = c
        BY <1>12, <1>14, <1>16, <1>17, <2>1, <4>2, <4>3
      <4>4. CASE d # c
        BY <1>6, <1>9, <1>17, <2>1, <4>2, <4>4
      <4>5. QED
        BY <4>2, <4>3, <4>4
    <3>2. QED
      BY <1>1, <3>1, SameWearing
  <2>2. CASE c # new
    <3>1. Wearing(u, c) = Wearing(s, c) \ {w}
      BY <1>5, <1>19, <1>20, <2>2 DEF Wearing
    <3>2. Wearing(u, new) = Wearing(s, new) \cup {w} /\ w \notin Wearing(s, new)
      <4>1. u.wm.cwin[w].colormap = new /\ u.wm.cwin[w].refcnt > 0
        BY <1>5, <1>19, <1>20
      <4>2. QED
        BY <1>13, <1>19, <2>2, <4>1 DEF Wearing
    <3>3. \A d \in Colormap \ {c, new} : Wearing(u, d) = Wearing(s, d)
      BY <1>5, <1>13, <1>19, <1>20 DEF Wearing, l, c
    <3>4. u.wm.cmap[c].refcnt = s.wm.cmap[c].refcnt - 1
      BY <1>12, <1>14, <1>16, <1>17, <2>2
    <3>5. u.wm.cmap[new].refcnt = s.wm.cmap[new].refcnt + 1
      BY <1>7, <1>9, <1>17, <2>2
    <3>6. \A d \in Colormap \ {c, new} : u.wm.cmap[d].refcnt = s.wm.cmap[d].refcnt
      BY <1>6, <1>9, <1>17
    <3>7. ASSUME NEW d \in Colormap PROVE u.wm.cmap[d].refcnt = Cardinality(Wearing(u, d))
      <4>1. s.wm.cmap[d].refcnt = Cardinality(Wearing(s, d))
        BY <1>1 DEF ColorsCounted
      <4>2. CASE d = c
        <5>1. Cardinality(Wearing(s, c) \ {w}) = Cardinality(Wearing(s, c)) - 1
          BY <1>13, WearingFinite, FS_RemoveElement
        <5>2. QED
          BY <3>1, <3>4, <4>1, <4>2, <5>1
      <4>3. CASE d = new
        <5>1. Cardinality(Wearing(s, new) \cup {w}) = Cardinality(Wearing(s, new)) + 1
          BY <3>2, WearingFinite, FS_AddElement
        <5>2. QED
          BY <3>2, <3>5, <4>1, <4>3, <5>1
      <4>4. CASE d \notin {c, new}
        BY <3>3, <3>6, <4>1, <4>4
      <4>5. QED
        BY <4>2, <4>3, <4>4
    <3>8. QED
      BY <3>7 DEF ColorsCounted
  <2>3. QED
    BY <2>1, <2>2
<1>22. Steady(s, u)
  BY <1>18, <1>20, <1>21, CountsSteady
<1>23. QED
  BY <1>4, <1>22, Zenon DEF u, less, k, c, l

\* The fields of an event.
LEMMA EventIs ==
  ASSUME NEW e \in CEvent
  PROVE  /\ e.type = "cmap" =>
              /\ e.w \in CWindow /\ e.new \in BOOLEAN /\ e.colormap \in Colormap
              /\ e.installed \in BOOLEAN /\ e.fresh \in BOOLEAN
              /\ e.by \in Colormap \cup {NoColormap}
         /\ e.type = "visibility" => e.w \in CWindow /\ e.state \in Visibility
         /\ e.type \in {"property", "destroy", "enter"} => e.w \in Owner
         /\ e.type \in {"cmap", "visibility", "property", "destroy", "enter"}
BY DEF CEvent

\* A window has another colormap.
LEMMA NewColormapSteady ==
  ASSUME NEW s, Sane(s), NEW e \in CEvent, e.type = "cmap", s.wm.cwin[e.w].refcnt > 0
  PROVE  Steady(s, NewColormap(s, e))
<1> DEFINE w == e.w
           new == e.colormap
           b == e.installed
           c == s.wm.cwin[w].colormap
           t == [s EXCEPT !.wm.cwin[w].colormap = new,
                          !.wm.cmap[new] = Held(s.wm.cmap[new])]
           k == t.wm.cmap[c]
           u == [t EXCEPT !.wm.cmap[c] = [k EXCEPT !.refcnt = k.refcnt - 1, !.installed = b]]
<1>1. w \in CWindow /\ new \in Colormap /\ b \in BOOLEAN
  BY EventIs
<1>2. NewColormap(s, e) = IF u.wm.cmap[c].installable THEN InstallList(u) ELSE u
  BY Zenon DEF NewColormap
<1>3. s.wm.cwin[w].refcnt > 0
  OBVIOUS
<1> HIDE DEF w, new, b
<1>4. Steady(s, u)
  BY <1>1, <1>3, Recolored
<1> HIDE DEF u
<1>5. Sane(u) /\ u \in CState
  BY <1>4 DEF Steady, Sane
<1>6. Steady(s, InstallList(u))
  BY <1>4, <1>5, InstallListStill, StillSteady, SteadyTwice
<1>7. QED
  BY <1>2, <1>4, <1>6

\* The server took a colormap away that ctwm wants.
LEMMA LostSteady ==
  ASSUME NEW s, Sane(s), NEW e \in CEvent, e.type = "cmap"
  PROVE  Steady(s, Lost(s, e))
<1> DEFINE list == s.wm.cwins[s.wm.cmaps]
           c == s.wm.cwin[e.w].colormap
           r == [s EXCEPT !.wm.cmap[c].installed = FALSE]
           t == [r EXCEPT !.wm.ColortableThrashing = TRUE]
           places == {i \in DOMAIN list : list[i] = e.w}
           lost == IF places = {} THEN 0 ELSE Min(places)
           winners == {n \in DOMAIN list \ {lost} :
                         e.by # NoColormap /\ s.wm.cwin[list[n]].colormap = e.by}
           won == CHOOSE n \in winners : \A m \in winners : n <= m
           marked == MarkConflict(t, lost, won)
           back == [t EXCEPT !.wm.cmap[c].installed = TRUE]
           calm == [t EXCEPT !.wm.ColortableThrashing = FALSE]
<1>1. s \in CState /\ e.w \in CWindow /\ e.fresh \in BOOLEAN
  BY EventIs DEF Sane
<1>2. Lost(s, e) =
        CASE ~e.fresh -> t
          [] e.fresh /\ winners # {} /\ lost # 0 -> marked
          [] e.fresh /\ winners # {} /\ lost = 0 -> back
          [] e.fresh /\ winners = {} /\ lost # 0 -> InstallList(t)
          [] OTHER -> calm
  BY Zenon DEF Lost
<1>3. list \in Seq(CWindow) /\ c \in Colormap
  BY <1>1, CStateIs DEF LookedAt
<1> HIDE DEF list, c, r, t, marked, back, calm
<1>4. DOMAIN list \subseteq Nat
  BY <1>3, LenProperties
<1>5. places \in SUBSET Nat /\ winners \in SUBSET Nat
  BY <1>4
<1> HIDE DEF places, winners
<1>6. lost \in Nat
  BY <1>5, MinIsLeast
<1> HIDE DEF lost
<1>7. winners # {} => won \in Nat
  BY <1>5, LeastNat
<1> HIDE DEF won
<1>8. Steady(s, r)
  BY <1>3, InstalledSteady DEF r
<1>9. Sane(r) /\ r \in CState
  BY <1>8 DEF Steady, Sane
<1>10. Steady(s, t)
  BY <1>8, <1>9, ThrashingStill, StillSteady, SteadyTwice DEF t
<1>11. Sane(t) /\ t \in CState
  BY <1>10 DEF Steady, Sane
<1>12. winners # {} => Steady(s, marked)
  BY <1>6, <1>7, <1>10, <1>11, ScoreStill, StillSteady, SteadyTwice DEF marked
<1>13. Steady(s, back)
  BY <1>3, <1>10, <1>11, InstalledSteady, SteadyTwice DEF back
<1>14. Steady(s, calm)
  BY <1>10, <1>11, ThrashingStill, StillSteady, SteadyTwice DEF calm
<1>15. Steady(s, InstallList(t))
  BY <1>10, <1>11, InstallListStill, StillSteady, SteadyTwice
<1> DEFINE a == winners # {}
           z == lost = 0
<1>16. Lost(s, e) \in {t, back, InstallList(t), calm} \/ (a /\ Lost(s, e) = marked)
  <2>1. CASE ~e.fresh
    BY <1>2, <2>1
  <2>2. CASE e.fresh /\ a /\ ~z
    BY <1>2, <2>2
  <2>3. CASE e.fresh /\ a /\ z
    BY <1>2, <2>3
  <2>4. CASE e.fresh /\ ~a /\ ~z
    BY <1>2, <2>4
  <2>5. CASE e.fresh /\ ~a /\ z
    BY <1>2, <2>5
  <2>6. QED
    BY <1>1, <2>1, <2>2, <2>3, <2>4, <2>5
<1>17. QED
  BY <1>10, <1>12, <1>13, <1>14, <1>15, <1>16

\* A colormap has come or gone, or a window has another one.
LEMMA ColormapNotifySteady ==
  ASSUME NEW s, Sane(s), NEW e \in CEvent, e.type = "cmap"
  PROVE  Steady(s, HandleColormapNotify(s, e))
<1> DEFINE c == s.wm.cwin[e.w].colormap
           held == s.wm.cwin[e.w].refcnt
           lost == ~e.installed /\ s.wm.cmap[c].installable
           known == [s EXCEPT !.wm.cmap[c].installed = e.installed]
<1>1. s \in CState /\ e.w \in CWindow /\ e.new \in BOOLEAN /\ e.installed \in BOOLEAN
  BY EventIs DEF Sane
<1>2. c \in Colormap /\ held \in Nat
  BY <1>1, CStateIs DEF LookedAt
<1>3. HandleColormapNotify(s, e) =
        CASE held = 0 -> s
          [] held > 0 /\ e.new -> NewColormap(s, e)
          [] held > 0 /\ ~e.new /\ lost -> IF s.wm.cmap[c].installed THEN Lost(s, e) ELSE s
          [] OTHER -> known
  BY Zenon DEF HandleColormapNotify
<1>4. Steady(s, s)
  BY DEF Steady
<1>5. held > 0 => Steady(s, NewColormap(s, e))
  BY NewColormapSteady
<1>6. Steady(s, Lost(s, e))
  BY LostSteady
<1>7. Steady(s, known)
  <2> DEFINE b == e.installed
  <2>1. b \in BOOLEAN
    BY <1>1
  <2> HIDE DEF b, c
  <2>2. Steady(s, [s EXCEPT !.wm.cmap[c].installed = b])
    BY <1>2, <2>1, InstalledSteady
  <2>3. QED
    BY <2>2 DEF b, c
<1> HIDE DEF c, lost, known
<1>8. \/ HandleColormapNotify(s, e) \in {s, Lost(s, e), known}
      \/ held > 0 /\ HandleColormapNotify(s, e) = NewColormap(s, e)
  <2>1. CASE held = 0
    BY <1>3, <2>1
  <2>2. CASE held > 0 /\ e.new
    BY <1>3, <2>2
  <2>3. CASE held > 0 /\ ~e.new /\ lost
    BY <1>3, <2>3
  <2>4. CASE held > 0 /\ ~e.new /\ ~lost
    BY <1>3, <2>4
  <2>5. QED
    BY <1>1, <1>2, <2>1, <2>2, <2>3, <2>4
<1>9. QED
  BY <1>4, <1>5, <1>6, <1>7, <1>8

\* A window is covered, or no longer.
LEMMA VisibilitySteady ==
  ASSUME NEW s, Sane(s), NEW e \in CEvent, e.type = "visibility"
  PROVE  Steady(s, HandleVisibilityNotify(s, e))
<1> DEFINE w == e.w
           state == e.state
           cwin == s.wm.cwin[w]
           r == [cwin EXCEPT !.visibility = state]
           t == [s EXCEPT !.wm.cwin[w] = r]
           again == /\ s.wm.cmap[cwin.colormap].installable
                    /\ state # cwin.visibility
                    /\ s.wm.cmap[cwin.colormap].w = w
<1>1. s \in CState /\ ColorsCounted(s) /\ w \in CWindow /\ state \in Visibility
  BY EventIs DEF Sane
<1>2. HandleVisibilityNotify(s, e) = IF cwin.refcnt = 0 THEN s
                                     ELSE IF again THEN InstallList(t) ELSE t
  BY Zenon DEF HandleVisibilityNotify
<1> HIDE DEF w, state, t, again
<1>3. cwin \in LookedAt
  BY <1>1, CStateIs
<1> HIDE DEF cwin
<1>4. r \in LookedAt /\ r.refcnt = cwin.refcnt /\ r.colormap = cwin.colormap
  BY <1>1, <1>3 DEF LookedAt
<1> HIDE DEF r
<1>5. /\ Around(s, t) /\ t.wm.cmap = s.wm.cmap /\ t.wm.cwin[w] = r
      /\ \A v \in CWindow \ {w} : t.wm.cwin[v] = s.wm.cwin[v]
  BY <1>1, <1>4, CwinIs DEF t
<1>6. \A v \in CWindow : /\ t.wm.cwin[v].refcnt = s.wm.cwin[v].refcnt
                         /\ t.wm.cwin[v].colormap = s.wm.cwin[v].colormap
  BY <1>4, <1>5 DEF cwin
<1>7. \A c \in Colormap : Wearing(t, c) = Wearing(s, c)
  BY <1>6 DEF Wearing
<1>8. ColorsCounted(t)
  BY <1>1, <1>5, <1>7, SameWearing
<1>9. Steady(s, t)
  BY <1>5, <1>6, <1>8, CountsSteady
<1>10. Sane(t) /\ t \in CState
  BY <1>9 DEF Steady, Sane
<1>11. Steady(s, InstallList(t))
  BY <1>9, <1>10, InstallListStill, StillSteady, SteadyTwice
<1>12. Steady(s, s)
  BY DEF Steady
<1>13. QED
  BY <1>2, <1>9, <1>11, <1>12

(***************************************************************************)
(* How ctwm starts.                                                         *)
(***************************************************************************)

\* Nothing is looked at and no list is there.
Blank(colors) ==
  [x |-> [colormap |-> [w \in CWindow |-> IF w = root THEN Default ELSE colors[w]],
          visibility |-> [w \in CWindow |-> "shown"],
          installed |-> <<Default>>, list |-> [o \in Client |-> <<>>],
          dead |-> {}, queue |-> <<>>],
   wm |-> [cwin |-> [w \in CWindow |->
                      [refcnt |-> 0, colormap |-> Default, visibility |-> "shown"]],
           cmap |-> [c \in Colormap |-> NoCmap],
           cwins |-> [o \in Owner |-> <<>>],
           scoreboard |-> [o \in Owner |-> {}],
           cmaps |-> root, pushed_cmaps |-> root, root_pushes |-> 0,
           ColortableThrashing |-> FALSE]]

\* The counts are right before anything is looked at.
LEMMA BlankIs ==
  ASSUME NEW colors \in [Client \cup Sub -> Colormap]
  PROVE  LET s == Blank(colors)
         IN  /\ s \in CState /\ ColorsCounted(s) /\ WindowsCounted(s)
             /\ s.x.dead = {} /\ s.x.queue = <<>>
             /\ \A v \in CWindow : s.wm.cwin[v].refcnt = 0
             /\ \A o \in Owner : s.wm.cwins[o] = <<>>
             /\ s.wm.cmaps = root /\ s.wm.pushed_cmaps = root /\ s.wm.root_pushes = 0
<1> DEFINE s == Blank(colors)
           none == <<>>
           r == [refcnt |-> 0, colormap |-> Default, visibility |-> "shown"]
<1>1. Default \in Colormap /\ root \in Owner
  BY ColormapsAssumption DEF ColormapsAssumption, Owner
<1>2. r \in LookedAt /\ NoCmap \in MapState
  BY <1>1 DEF LookedAt, Visibility, NoCmap, MapState
<1>3. none \in Seq(CEvent) /\ none \in Seq(CWindow) /\ none \in Seq(Client \cup Sub)
  BY EmptySeq
<1>4. /\ [w \in CWindow |-> IF w = root THEN Default ELSE colors[w]] \in [CWindow -> Colormap]
      /\ [w \in CWindow |-> "shown"] \in [CWindow -> Visibility]
  BY <1>1 DEF CWindow, Visibility
<1>5. <<Default>> \in Seq(Colormap) /\ <<Default>> # <<>>
  BY <1>1
<1>6. s.x \in XType /\ s.x.installed # <<>>
  <2>1. [o \in Client |-> none] \in [Client -> Seq(Client \cup Sub)]
    BY <1>3
  <2>2. QED
    BY <1>3, <1>4, <1>5, <2>1 DEF XType, Blank
<1>7. s.wm \in WmType
  <2>1. [w \in CWindow |-> r] \in [CWindow -> LookedAt]
    BY <1>2
  <2>2. [c \in Colormap |-> NoCmap] \in [Colormap -> MapState]
    BY <1>2
  <2>3. [o \in Owner |-> none] \in [Owner -> Seq(CWindow)]
    BY <1>3
  <2>4. [o \in Owner |-> {}] \in [Owner -> SUBSET (Nat \X Nat)]
    OBVIOUS
  <2>5. QED
    BY <1>1, <2>1, <2>2, <2>3, <2>4 DEF WmType, Blank, LookedAt, MapState
<1>8. s \in CState
  <2>1. s = [x |-> s.x, wm |-> s.wm]
    BY DEF Blank
  <2>2. QED
    BY <1>6, <1>7, <2>1 DEF CState
<1>9. /\ s.x.dead = {} /\ s.x.queue = <<>>
      /\ \A v \in CWindow : s.wm.cwin[v].refcnt = 0
      /\ \A c \in Colormap : s.wm.cmap[c].refcnt = 0
      /\ \A o \in Owner : s.wm.cwins[o] = <<>>
      /\ s.wm.cmaps = root /\ s.wm.pushed_cmaps = root /\ s.wm.root_pushes = 0
  BY DEF Blank, NoCmap
<1> HIDE DEF s
<1>10. ColorsCounted(s)
  <2>1. \A c \in Colormap : Wearing(s, c) = {}
    BY <1>9 DEF Wearing
  <2>2. QED
    BY <1>9, <2>1, FS_EmptySet DEF ColorsCounted
<1>11. WindowsCounted(s)
  <2>1. ASSUME NEW v \in CWindow PROVE PlacesOnLists(s.wm.cwins, v) = {}
    <3>1. \A o \in Owner : DOMAIN s.wm.cwins[o] = {}
      BY <1>9
    <3>2. QED
      BY <3>1 DEF PlacesOnLists
  <2>2. QED
    BY <1>9, <2>1, FS_EmptySet DEF WindowsCounted
<1>12. QED
  BY <1>8, <1>9, <1>10, <1>11 DEF s

\* The root is looked at, and is its own list.
Rooted(colors) ==
  [CreateColormapWindow(Blank(colors), root, "shown") EXCEPT !.wm.cwins[root] = <<root>>]

\* The counts are right once the root is looked at.
LEMMA RootedIs ==
  ASSUME NEW colors \in [Client \cup Sub -> Colormap]
  PROVE  LET s == Rooted(colors)
         IN  /\ Sane(s) /\ Deaths(s) = {} /\ s.x.dead = {} /\ s.wm.root_pushes = 0
<1> DEFINE s == Blank(colors)
           a == CreateColormapWindow(s, root, "shown")
           list == <<root>>
           t == [a EXCEPT !.wm.cwins[root] = list]
<1>1. /\ s \in CState /\ ColorsCounted(s) /\ WindowsCounted(s)
      /\ s.x.dead = {} /\ s.x.queue = <<>>
      /\ \A v \in CWindow : s.wm.cwin[v].refcnt = 0
      /\ \A o \in Owner : s.wm.cwins[o] = <<>>
      /\ s.wm.cmaps = root /\ s.wm.pushed_cmaps = root /\ s.wm.root_pushes = 0
  BY BlankIs
<1>2. root \in CWindow /\ root \in Owner /\ root \notin Client /\ Client \subseteq Owner
  BY ColormapsAssumption DEF ColormapsAssumption, CWindow, Owner
<1>3. list \in Seq(CWindow) /\ list # <<>> /\ Len(list) = 1 /\ list[1] = root
  BY <1>2
<1>4. Rooted(colors) = t
  BY Zenon DEF Rooted
<1> HIDE DEF s, a, list, t
<1>5. /\ Around(s, a) /\ ColorsCounted(a)
      /\ \A v \in CWindow : a.wm.cwin[v].refcnt = s.wm.cwin[v].refcnt + IF v = root THEN 1 ELSE 0
  <2>1. "shown" \in Visibility
    BY DEF Visibility
  <2>2. QED
    BY <1>1, <1>2, <2>1, CreateIs DEF a
<1>6. /\ a \in CState /\ a.x = s.x /\ a.wm.cwins = s.wm.cwins /\ a.wm.cmaps = s.wm.cmaps
      /\ a.wm.pushed_cmaps = s.wm.pushed_cmaps /\ a.wm.root_pushes = s.wm.root_pushes
  BY <1>5 DEF Around
<1>7. Relisted(a, t, root, list)
  BY <1>2, <1>3, <1>6, RelistedIs DEF t
<1>8. /\ t \in CState /\ t.x = s.x /\ t.wm.cwin = a.wm.cwin /\ t.wm.cmap = a.wm.cmap
      /\ t.wm.cwins = [s.wm.cwins EXCEPT ![root] = list] /\ t.wm.cmaps = root
      /\ t.wm.pushed_cmaps = root /\ t.wm.root_pushes = 0
  BY <1>1, <1>6, <1>7 DEF Relisted
<1>9. ColorsCounted(t)
  <2>1. \A c \in Colormap : Wearing(t, c) = Wearing(a, c)
    BY <1>8 DEF Wearing
  <2>2. QED
    BY <1>5, <1>8, <2>1, SameWearing
<1>10. WindowsCounted(t)
  <2> DEFINE had == s.wm.cwins[root]
  <2>1. had = <<>>
    BY <1>1, <1>2
  <2>2. Len(had) = 0
    BY <2>1
  <2> HIDE DEF had
  <2>3. ASSUME NEW v \in CWindow
        PROVE  t.wm.cwin[v].refcnt =
                 s.wm.cwin[v].refcnt + Occurs(list, v, Len(list)) - Occurs(had, v, Len(had))
    <3>1. Occurs(had, v, Len(had)) = 0
      BY <2>2, OccursIs
    <3>2. Occurs(list, v, 0) = 0
      BY OccursIs
    <3>3. Occurs(list, v, 1) = Occurs(list, v, 1 - 1) + IF list[1] = v THEN 1 ELSE 0
      BY OccursIs
    <3>4. Occurs(list, v, Len(list)) = IF v = root THEN 1 ELSE 0
      BY <1>3, <3>2, <3>3
    <3>5. QED
      BY <1>1, <1>5, <1>8, <3>1, <3>4
  <2>4. QED
    BY <1>1, <1>2, <1>3, <1>8, <2>3, ListsCounted DEF had
<1>11. t.wm.cwins[root] = list /\ \A o \in Client : t.wm.cwins[o] = <<>>
  <2>1. s.wm.cwins \in [Owner -> Seq(CWindow)]
    BY <1>1, CStateIs
  <2>2. QED
    BY <1>1, <1>2, <1>8, <2>1
<1>12. Listed(t)
  BY <1>11 DEF Listed, list
<1>13. InForce(t) /\ Deaths(t) = {}
  BY <1>1, <1>8 DEF InForce, Deaths, Range
<1>14. Sane(t)
  BY <1>8, <1>9, <1>10, <1>12, <1>13 DEF Sane
<1>15. QED
  BY <1>1, <1>4, <1>8, <1>13, <1>14

\* The lists of all of some clients are fetched.
FetchedAll(s, clients) ==
  LET upto[n \in 0 .. Len(clients)] ==
        IF n = 0 THEN s ELSE FetchWmColormapWindows(upto[n - 1], clients[n])
  IN  upto[Len(clients)]

\* The states between, as the list of each client is fetched.
Fetching(f, s, clients) ==
  f = [i \in 0 .. Len(clients) |->
         IF i = 0 THEN s ELSE FetchWmColormapWindows(f[i - 1], clients[i])]

\* The counts are right after each of them.
LEMMA FetchedAllIs ==
  ASSUME NEW s, Sane(s), s.x.dead = {}, NEW clients \in Seq(Client)
  PROVE  Steady(s, FetchedAll(s, clients))
<1> DEFINE n == Len(clients)
           base == s
           Step(q, i) == FetchWmColormapWindows(q, clients[i])
           Good(q, i) == Steady(s, q)
           A == CState
           h == [p \in A \X (1 .. n) |->
                   IF Step(p[1], p[2]) \in A THEN Step(p[1], p[2]) ELSE base]
<1>1. n \in Nat
  BY LenProperties
<1>2. Good(base, 0)
  BY DEF Steady
<1>3. ASSUME NEW i \in 1 .. n, NEW q, Good(q, i - 1) PROVE Good(Step(q, i), i)
  <2>1. Sane(q) /\ q.x.dead = {} /\ clients[i] \in Client
    BY <1>3, ElementOfSeq DEF Steady
  <2>2. Steady(q, FetchWmColormapWindows(q, clients[i]))
    BY <2>1, FetchSteady
  <2>3. QED
    BY <1>3, <2>2, SteadyTwice
<1>4. \A q, i : Good(q, i) => q \in A
  BY Zenon DEF Good, A, Steady, Sane
<1> HIDE DEF n, base, Step, A, Good
<1>5. base \in A
  BY <1>2, <1>4
<1>6. h \in [A \X (1 .. n) -> A]
  BY <1>5
<1>7. PICK f \in [0 .. n -> A] : f[0] = base /\ \A i \in 1 .. n : f[i] = Step(f[i - 1], i)
  <2>1. PICK f : Recursion(f, n, A, base, h)
    <3> HIDE DEF h
    <3>1. QED
      BY <1>1, <1>5, <1>6, RecursionExists
  <2>2. f \in [0 .. n -> A] /\ f[0] = base /\ \A i \in 1 .. n : f[i] = h[<<f[i - 1], i>>]
    BY <2>1 DEF Recursion
  <2> DEFINE T == {i \in 0 .. n : Good(f[i], i)}
  <2>3. 0 \in T
    BY <1>1, <1>2, <2>2
  <2>4. ASSUME NEW i \in 1 .. n, i - 1 \in T PROVE i \in T /\ f[i] = Step(f[i - 1], i)
    <3>1. Good(Step(f[i - 1], i), i)
      BY <1>3, <2>4
    <3>2. Step(f[i - 1], i) \in A /\ f[i - 1] \in A
      BY <1>4, <2>4, <3>1
    <3>3. h[<<f[i - 1], i>>] = Step(f[i - 1], i)
      BY <3>2
    <3> HIDE DEF h
    <3>4. f[i] = Step(f[i - 1], i) /\ i \in 0 .. n
      BY <1>1, <2>2, <3>3
    <3>5. QED
      BY <3>1, <3>4
  <2>5. \A i \in 0 .. n : i \in T
    <3> HIDE DEF T
    <3>1. QED
      BY <1>1, <2>3, <2>4, RoundsStayIn
  <2>6. \A i \in 1 .. n : i - 1 \in 0 .. n
    BY <1>1
  <2>7. \A i \in 1 .. n : f[i] = Step(f[i - 1], i)
    BY <2>4, <2>5, <2>6
  <2>8. QED
    BY <2>2, <2>7
<1>8. Fetching(f, s, clients)
  <2> DEFINE V(i) == IF i = 0 THEN base ELSE Step(f[i - 1], i)
  <2>1. \A i \in 0 .. n : i = 0 \/ i \in 1 .. n
    BY <1>1
  <2>2. \A i \in 0 .. n : f[i] = V(i)
    BY <1>7, <2>1
  <2> HIDE DEF V
  <2>3. f = [i \in 0 .. n |-> V(i)]
    BY <1>7, <2>2
  <2>4. QED
    BY <2>3, Zenon DEF V, Fetching, n, base, Step
<1> DEFINE g == CHOOSE p : Fetching(p, s, clients)
<1>9. Fetching(g, s, clients)
  BY <1>8
<1> HIDE DEF g
<1>10. g[0] = base /\ \A i \in 1 .. n : g[i] = Step(g[i - 1], i)
  <2> DEFINE V(i) == IF i = 0 THEN base ELSE Step(g[i - 1], i)
  <2>1. 0 \in 0 .. n /\ \A i \in 1 .. n : i \in 0 .. n /\ i # 0
    BY <1>1
  <2>2. V(0) = base /\ \A i \in 1 .. n : V(i) = Step(g[i - 1], i)
    BY <2>1, Zenon
  <2>3. g = [i \in 0 .. n |-> V(i)]
    BY <1>9, Zenon DEF V, Fetching, n, base, Step
  <2> HIDE DEF V
  <2>4. QED
    BY <2>1, <2>2, <2>3
<1> DEFINE T == {i \in 0 .. n : Good(g[i], i)}
<1>11. 0 \in T
  BY <1>1, <1>2, <1>10
<1>12. ASSUME NEW i \in 1 .. n, i - 1 \in T PROVE i \in T
  <2>1. Good(Step(g[i - 1], i), i)
    BY <1>3, <1>12
  <2>2. g[i] = Step(g[i - 1], i) /\ i \in 0 .. n
    BY <1>1, <1>10
  <2>3. QED
    BY <2>1, <2>2
<1>13. n \in T
  <2> HIDE DEF T
  <2>1. \A i \in 0 .. n : i \in T
    BY <1>1, <1>11, <1>12, RoundsStayIn
  <2>2. QED
    BY <1>1, <2>1
<1>14. Good(g[n], n)
  BY <1>13
<1>15. FetchedAll(s, clients) = g[n]
  BY Zenon DEF FetchedAll, Fetching, g, n
<1>16. QED
  BY <1>14, <1>15, Zenon DEF Good, n

\* What ctwm starts with is in order.
LEMMA StartedIs ==
  ASSUME NEW colors \in [Client \cup Sub -> Colormap]
  PROVE  LET t == ColormapsStarted(colors)
         IN  /\ Sane(t) /\ Deaths(t) = {}
             /\ t.wm.root_pushes = 0 /\ t.wm.pushed_cmaps = t.wm.cmaps
<1> DEFINE r == Rooted(colors)
           s == InstallColormaps(r, root)
           clients == SetToSeq(Client)
           t == FetchedAll(s, clients)
<1>1. ColormapsStarted(colors) = t
  BY Zenon DEF ColormapsStarted, FetchedAll, Rooted, Blank
<1>2. /\ Sane(r) /\ Deaths(r) = {} /\ r.x.dead = {} /\ r.wm.root_pushes = 0
  BY RootedIs
<1> HIDE DEF r, s, clients, t
<1>3. /\ Sane(s) /\ Keeps(r, s) /\ s.wm.pushed_cmaps = root
      /\ s.wm.cmaps = IF r.wm.root_pushes > 0 THEN r.wm.cmaps ELSE root
  BY <1>2, InstallColormapsIs DEF s
<1>4. /\ Deaths(s) = {} /\ s.x.dead = {} /\ s.wm.root_pushes = 0
      /\ s.wm.pushed_cmaps = s.wm.cmaps
  BY <1>2, <1>3 DEF Keeps
<1>5. clients \in Seq(Client)
  BY SetToSeqLists, FS_CardinalityType, ColormapsAssumption DEF ColormapsAssumption, clients
<1>6. Steady(s, t)
  BY <1>3, <1>4, <1>5, FetchedAllIs DEF t
<1>7. QED
  BY <1>1, <1>4, <1>6 DEF Steady

(***************************************************************************)
(* The steps.                                                               *)
(***************************************************************************)

\* A queue with the events of another one, or fewer, and some that tell of no end.
LEMMA QueueStill ==
  ASSUME NEW s \in CState, NEW q \in Seq(CEvent),
         \A e \in Range(q) : e.type = "destroy" => e \in Range(s.x.queue)
  PROVE  Still(s, [s EXCEPT !.x.queue = q])
<1> DEFINE t == [s EXCEPT !.x.queue = q]
<1>1. t \in CState /\ t.x.queue = q /\ t.wm = s.wm /\ t.x.dead = s.x.dead
  BY QueueIs
<1> HIDE DEF t
<1>2. Still(s, t)
  BY <1>1 DEF Still, Keeps, Deaths
<1>3. QED
  BY <1>2 DEF t

\* One event more, which tells of no end.
LEMMA OneMore ==
  ASSUME NEW s, Sane(s), NEW us, Unpushed(s, us), NEW e \in CEvent, e.type # "destroy"
  PROVE  LET t == [s EXCEPT !.x.queue = Append(s.x.queue, e)]
         IN  Sane(t) /\ Unpushed(t, us)
<1> DEFINE q == Append(s.x.queue, e)
           t == [s EXCEPT !.x.queue = q]
<1>1. s \in CState /\ s.x.queue \in Seq(CEvent)
  BY CStateIs DEF Sane
<1>2. q \in Seq(CEvent) /\ \A f \in Range(q) : f = e \/ f \in Range(s.x.queue)
  <2> DEFINE p == s.x.queue
  <2>1. p \in Seq(CEvent) /\ p \o <<e>> = q /\ <<e>> \in Seq(CEvent)
    BY <1>1
  <2>2. Range(<<e>>) = {e}
    BY DEF Range
  <2> HIDE DEF p, q
  <2>3. p \o <<e>> \in Seq(CEvent) /\ Range(p \o <<e>>) = Range(p) \cup Range(<<e>>)
    BY <2>1, ConcatRange
  <2>4. QED
    BY <2>1, <2>2, <2>3 DEF p
<1> HIDE DEF q, t
<1>3. Still(s, t)
  BY <1>1, <1>2, QueueStill DEF t
<1>4. Sane(t) /\ Unpushed(t, us)
  BY <1>3, StillSteady, SteadyStays DEF Steady
<1>5. QED
  BY <1>4 DEF t, q

\* What is handled.
Handled(s, e) ==
  IF e.type = "cmap" THEN HandleColormapNotify(s, e) ELSE HandleOther(s, e)

\* Every event that is handled leaves the counts right.
LEMMA HandledIs ==
  ASSUME NEW s, Sane(s), NEW us, Unpushed(s, us), NEW e \in CEvent,
         e.type = "destroy" => e.w \in Client /\ "destroy" \in us
  PROVE  Sane(Handled(s, e)) /\ Unpushed(Handled(s, e), us)
<1> DEFINE o == e.w
<1>1. CASE e.type = "cmap"
  <2>1. Steady(s, HandleColormapNotify(s, e))
    BY <1>1, ColormapNotifySteady
  <2>2. QED
    BY <1>1, <2>1, SteadyStays DEF Handled, Steady
<1>2. CASE e.type = "visibility"
  <2>1. Steady(s, HandleVisibilityNotify(s, e))
    BY <1>2, VisibilitySteady
  <2>2. Handled(s, e) = HandleVisibilityNotify(s, e)
    BY <1>2 DEF Handled, HandleOther
  <2>3. QED
    BY <2>1, <2>2, SteadyStays DEF Steady
<1>3. CASE e.type = "enter"
  <2> DEFINE t == InstallColormaps(s, o)
  <2>1. Handled(s, e) = IF o \in owning(s) \cup {root} THEN t ELSE s
    BY <1>3 DEF Handled, HandleOther
  <2> HIDE DEF o, t
  <2>2. CASE o \in owning(s) \cup {root}
    <3>1. /\ Sane(t) /\ Keeps(s, t) /\ t.wm.pushed_cmaps = o
          /\ t.wm.cmaps = IF s.wm.root_pushes > 0 THEN s.wm.cmaps ELSE o
      BY <2>2, InstallColormapsIs DEF t
    <3>2. Unpushed(t, us)
      <4>1. CASE "destroy" \in us
        <5>1. s.wm.root_pushes = 0 /\ t.wm.root_pushes = s.wm.root_pushes
          BY <3>1, <4>1 DEF Unpushed, Keeps
        <5>2. t.wm.cmaps = o
          BY <3>1, <5>1
        <5>3. QED
          BY <3>1, <4>1, <5>1, <5>2 DEF Unpushed
      <4>2. CASE "destroy" \notin us
        BY <3>1, <4>2 DEF Unpushed, Keeps
      <4>3. QED
        BY <4>1, <4>2
    <3>3. QED
      BY <2>1, <2>2, <3>1, <3>2
  <2>3. QED
    BY <2>1, <2>2
<1>4. CASE e.type = "property"
  <2>1. Handled(s, e) = IF o \in owning(s) THEN FetchWmColormapWindows(s, o) ELSE s
    BY <1>4 DEF Handled, HandleOther
  <2> HIDE DEF o
  <2>2. o \in owning(s) => Steady(s, FetchWmColormapWindows(s, o))
    BY FetchSteady DEF owning
  <2>3. QED
    BY <2>1, <2>2, SteadyStays DEF Steady
<1>5. CASE e.type = "destroy"
  <2> DEFINE t == DestroyColormaps(s, o)
  <2>1. Handled(s, e) = t
    BY <1>5 DEF Handled, HandleOther
  <2>2. o \in Client /\ "destroy" \in us
    BY <1>5
  <2> HIDE DEF o, t
  <2>3. s.wm.root_pushes = 0 /\ s.wm.pushed_cmaps = s.wm.cmaps
    BY <2>2 DEF Unpushed
  <2>4. /\ Sane(t) /\ t.wm.root_pushes = 0 /\ t.wm.pushed_cmaps = t.wm.cmaps
    BY <2>2, <2>3, DestroySane DEF t
  <2>5. QED
    BY <2>1, <2>2, <2>4 DEF Unpushed
<1>6. QED
  BY <1>1, <1>2, <1>3, <1>4, <1>5, EventIs

\* ctwm starts with the invariant.
LEMMA ColormapsInitInv ==
  ASSUME ColormapsInit
  PROVE  ColormapsInv
<1>1. PICK colors \in [Client \cup Sub -> Colormap] :
        x = ColormapsStarted(colors).x /\ wm = ColormapsStarted(colors).wm
  BY Zenon DEF ColormapsInit
<1> DEFINE t == ColormapsStarted(colors)
<1>2. /\ Sane(t) /\ Deaths(t) = {}
      /\ t.wm.root_pushes = 0 /\ t.wm.pushed_cmaps = t.wm.cmaps
  BY StartedIs
<1> HIDE DEF t
<1>3. Cmaps = t
  <2>1. t \in [x : XType, wm : WmType]
    BY <1>2 DEF Sane, CState
  <2>2. t = [x |-> t.x, wm |-> t.wm]
    BY <2>1
  <2>3. x = t.x /\ wm = t.wm
    BY <1>1 DEF t
  <2>4. QED
    BY <2>2, <2>3 DEF Cmaps
<1>4. user \in [uses : ColormapSessions, acts : 0 .. MaxActs]
  <2>1. user \in [uses : ColormapSessions, acts : {0}]
    BY Zenon DEF ColormapsInit
  <2>2. 0 \in 0 .. MaxActs
    BY ColormapsAssumption DEF ColormapsAssumption
  <2>3. QED
    BY <2>1, <2>2
<1>5. Unpushed(t, user.uses)
  BY <1>2 DEF Unpushed
<1>6. QED
  BY <1>2, <1>3, <1>4, <1>5 DEF ColormapsInv

\* A step to a state in order, by which the session stays or goes on.
LEMMA StepIs ==
  ASSUME NEW t, CmapsBecome(t), Sane(t), Unpushed(t, user.uses), ColormapsInv,
         user' = user \/ \E use : UserActs(use)
  PROVE  ColormapsInv'
<1>1. Cmaps' = t
  <2>1. t \in [x : XType, wm : WmType]
    BY DEF Sane, CState
  <2>2. t = [x |-> t.x, wm |-> t.wm]
    BY <2>1
  <2>3. x' = t.x /\ wm' = t.wm
    BY DEF CmapsBecome
  <2>4. Cmaps' = [x |-> x', wm |-> wm']
    BY DEF Cmaps
  <2>5. QED
    BY <2>2, <2>3, <2>4
<1>2. user' \in [uses : ColormapSessions, acts : 0 .. MaxActs] /\ user'.uses = user.uses
  <2>1. user \in [uses : ColormapSessions, acts : 0 .. MaxActs]
    BY DEF ColormapsInv
  <2>2. CASE user' = user
    BY <2>1, <2>2
  <2>3. CASE \E use : UserActs(use)
    <3>1. user' = [user EXCEPT !.acts = @ + 1] /\ user.acts < MaxActs
      BY <2>3 DEF UserActs
    <3>2. user.acts + 1 \in 0 .. MaxActs
      BY <2>1, <3>1, ColormapsAssumption DEF ColormapsAssumption
    <3>3. QED
      BY <2>1, <3>1, <3>2
  <2>4. QED
    BY <2>2, <2>3
<1>3. Sane(Cmaps)' /\ Unpushed(Cmaps, user.uses)'
  <2>1. Sane(Cmaps') /\ Unpushed(Cmaps', user'.uses)
    BY <1>1, <1>2
  <2>2. QED
    BY <2>1
<1>4. QED
  BY <1>2, <1>3 DEF ColormapsInv

\* The head of the queue is handled.
LEMMA HandleEventInv ==
  ASSUME ColormapsInv, HandleEvent
  PROVE  ColormapsInv'
<1> DEFINE q == Tail(x.queue)
           e == Head(x.queue)
           s == [Cmaps EXCEPT !.x.queue = q]
           us == user.uses
<1>1. /\ Sane(Cmaps) /\ Unpushed(Cmaps, us) /\ Cmaps \in CState /\ Cmaps.x = x
  BY DEF ColormapsInv, Sane, Cmaps
<1>2. x.queue \in Seq(CEvent) /\ x.queue # <<>>
  BY <1>1, CStateIs DEF HandleEvent
<1>3. e \in CEvent /\ q \in Seq(CEvent) /\ Range(q) \subseteq Range(x.queue) /\ e \in Range(x.queue)
  <2>1. e \in CEvent /\ q \in Seq(CEvent) /\ Range(q) \subseteq Range(x.queue)
    BY <1>2, TailRange
  <2>2. e = x.queue[1] /\ 1 \in 1 .. Len(x.queue)
    BY <1>2
  <2>3. e \in Range(x.queue)
    BY <1>2, <2>2, RangeIs
  <2>4. QED
    BY <2>1, <2>3
<1>4. CmapsBecome(Handled(s, e)) /\ user' = user
  <2>1. s = [Cmaps EXCEPT !.x.queue = Tail(Cmaps.x.queue)]
    BY <1>1
  <2>2. QED
    BY <2>1, Zenon DEF HandleEvent, Handled
<1> HIDE DEF q, e, s, us
<1>5. Still(Cmaps, s)
  BY <1>1, <1>3, QueueStill DEF s
<1>6. Sane(s) /\ Unpushed(s, us)
  BY <1>1, <1>5, StillSteady, SteadyStays DEF Steady
<1>7. e.type = "destroy" => e.w \in Client /\ "destroy" \in us
  <2>1. SUFFICES ASSUME e.type = "destroy" PROVE e.w \in Client /\ "destroy" \in us
    OBVIOUS
  <2>2. e \in Deaths(Cmaps)
    BY <1>1, <1>3, <2>1 DEF Deaths
  <2>3. QED
    BY <1>1, <2>2 DEF Sane, Unpushed
<1>8. Sane(Handled(s, e)) /\ Unpushed(Handled(s, e), us)
  BY <1>3, <1>6, <1>7, HandledIs
<1>9. QED
  BY <1>4, <1>8, StepIs DEF us

\* What the root's colormaps and the loop of HandleEvents do.
LEMMA PushInv ==
  ASSUME ColormapsInv, PushAlone, Push \/ Pop
  PROVE  ColormapsInv'
<1> DEFINE us == user.uses
           a == InstallRootColormap(Cmaps)
           b == UninstallRootColormap(Cmaps)
<1>1. Sane(Cmaps) /\ Unpushed(Cmaps, us) /\ us \in ColormapSessions
  BY DEF ColormapsInv
<1>2. "push" \in us /\ \E use : UserActs(use)
  BY DEF Push, Pop, UserActs
<1>3. "destroy" \notin us
  BY <1>1, <1>2 DEF PushAlone
<1>4. Sane(a) /\ Deaths(a) \subseteq Deaths(Cmaps)
  BY <1>1, InstallRootIs
<1>5. Sane(b) /\ Deaths(b) \subseteq Deaths(Cmaps)
  BY <1>1, UninstallRootIs
<1>6. CmapsBecome(a) \/ CmapsBecome(b)
  BY DEF Push, Pop
<1> HIDE DEF a, b
<1>7. Unpushed(a, us) /\ Unpushed(b, us)
  BY <1>1, <1>3, <1>4, <1>5 DEF Unpushed
<1>8. QED
  BY <1>2, <1>4, <1>5, <1>6, <1>7, StepIs DEF us

\* The head of the loop of HandleEvents keeps the invariant.
LEMMA ThrashingInv ==
  ASSUME ColormapsInv, Thrashing
  PROVE  ColormapsInv'
<1> DEFINE t == InstallList(Cmaps)
<1>1. Sane(Cmaps) /\ Unpushed(Cmaps, user.uses) /\ Cmaps \in CState
  BY DEF ColormapsInv, Sane
<1>2. Steady(Cmaps, t)
  BY <1>1, InstallListStill, StillSteady
<1>3. CmapsBecome(t) /\ user' = user
  BY DEF Thrashing
<1> HIDE DEF t
<1>4. Sane(t) /\ Unpushed(t, user.uses)
  BY <1>1, <1>2, SteadyStays DEF Steady
<1>5. QED
  BY <1>3, <1>4, StepIs

\* f.colormap keeps the invariant.
LEMMA BumpInv ==
  ASSUME ColormapsInv, Bump
  PROVE  ColormapsInv'
<1>1. Sane(Cmaps) /\ Unpushed(Cmaps, user.uses)
  BY DEF ColormapsInv
<1>2. PICK o \in owning(Cmaps), inc \in {-1, 0, 1} : CmapsBecome(BumpWindowColormap(Cmaps, o, inc))
  BY DEF Bump
<1> DEFINE t == BumpWindowColormap(Cmaps, o, inc)
<1>3. Steady(Cmaps, t)
  BY <1>1, BumpSteady
<1>4. \E use : UserActs(use)
  BY DEF Bump
<1>5. CmapsBecome(t)
  BY <1>2
<1> HIDE DEF t
<1>6. Sane(t) /\ Unpushed(t, user.uses)
  BY <1>1, <1>3, SteadyStays DEF Steady
<1>7. QED
  BY <1>4, <1>5, <1>6, StepIs

\* The pointer enters a window.
LEMMA EnterInv ==
  ASSUME ColormapsInv, PointerEnters
  PROVE  ColormapsInv'
<1>1. Sane(Cmaps) /\ Unpushed(Cmaps, user.uses) /\ Cmaps.x = x /\ \E use : UserActs(use)
  BY DEF ColormapsInv, Cmaps, PointerEnters
<1>2. PICK o \in Owner : Sent(<<[type |-> "enter", w |-> o]>>)
  BY DEF PointerEnters
<1> DEFINE e == [type |-> "enter", w |-> o]
           p == Cmaps.x.queue
           t == [Cmaps EXCEPT !.x.queue = Append(p, e)]
<1>3. e \in CEvent /\ e.type # "destroy" /\ p \in Seq(CEvent)
  <2>1. e \in CEvent /\ e.type # "destroy"
    BY DEF CEvent
  <2>2. p \in Seq(CEvent)
    BY <1>1, CStateIs DEF Sane
  <2>3. QED
    BY <2>1, <2>2
<1>4. CmapsBecome([Cmaps EXCEPT !.x.queue = p \o <<e>>])
  BY <1>2, Zenon DEF Sent
<1> HIDE DEF e, p
<1>5. p \o <<e>> = Append(p, e)
  BY <1>3
<1>6. CmapsBecome(t)
  BY <1>4, <1>5
<1>7. Sane(t) /\ Unpushed(t, user.uses)
  BY <1>1, <1>3, OneMore DEF p
<1> HIDE DEF t
<1>8. QED
  BY <1>1, <1>6, <1>7, StepIs

\* What clients do to the server is not ctwm's.
LEMMA ServerStill ==
  ASSUME NEW s, NEW t, s \in CState, t \in CState, t.wm = s.wm,
         t.x.queue = s.x.queue, t.x.dead = s.x.dead
  PROVE  Still(s, t)
BY DEF Still, Keeps, Deaths

\* A client lists other windows.
LEMMA SetListInv ==
  ASSUME ColormapsInv, SetList
  PROVE  ColormapsInv'
<1>1. /\ Sane(Cmaps) /\ Unpushed(Cmaps, user.uses) /\ Cmaps \in CState
      /\ \E use : UserActs(use)
  BY DEF ColormapsInv, SetList, Sane
<1>2. PICK list \in List, o \in Client :
        CmapsBecome([Cmaps EXCEPT !.x.list[o] = list[o],
                       !.x.queue = Append(@, [type |-> "property", w |-> o])])
  BY Zenon DEF SetList
<1> DEFINE e == [type |-> "property", w |-> o]
           l == list[o]
           new == [Cmaps.x.list EXCEPT ![o] = l]
           a == [Cmaps EXCEPT !.x.list = new]
           p == Cmaps.x.queue
           t == [a EXCEPT !.x.queue = Append(p, e)]
<1>3. CmapsBecome(t)
  BY <1>2, Zenon
<1>4. e \in CEvent /\ e.type # "destroy"
  BY DEF CEvent, Owner
<1>5. l \in Seq(Client \cup Sub)
  BY ColormapsAssumption DEF ColormapsAssumption
<1> HIDE DEF e, l
<1>6. new \in [Client -> Seq(Client \cup Sub)]
  <2>1. Cmaps.x.list \in [Client -> Seq(Client \cup Sub)]
    BY <1>1, CStateIs
  <2>2. QED
    BY <1>5, <2>1
<1> HIDE DEF new
<1>7. /\ a \in CState /\ a.wm = Cmaps.wm /\ a.x.queue = p /\ a.x.dead = Cmaps.x.dead
  BY <1>1, <1>6 DEF CState, XType
<1> HIDE DEF a
<1>8. Sane(a) /\ Unpushed(a, user.uses)
  <2>1. Still(Cmaps, a)
    BY <1>1, <1>7, ServerStill
  <2>2. QED
    BY <1>1, <2>1, StillSteady, SteadyStays DEF Steady
<1> HIDE DEF p
<1>9. Sane(t) /\ Unpushed(t, user.uses)
  BY <1>4, <1>7, <1>8, OneMore
<1> HIDE DEF t
<1>10. QED
  BY <1>1, <1>3, <1>9, StepIs

\* A window is covered, or no longer.
LEMMA ObscureInv ==
  ASSUME ColormapsInv, Obscure
  PROVE  ColormapsInv'
<1>1. /\ Sane(Cmaps) /\ Unpushed(Cmaps, user.uses) /\ Cmaps \in CState
      /\ \E use : UserActs(use)
  BY DEF ColormapsInv, Obscure, Sane
<1>2. PICK w \in Client \cup Sub, v \in Visibility :
        CmapsBecome([Cmaps EXCEPT !.x.visibility[w] = v,
                       !.x.queue = Append(@, [type |-> "visibility", w |-> w, state |-> v])])
  BY Zenon DEF Obscure
<1> DEFINE e == [type |-> "visibility", w |-> w, state |-> v]
           new == [Cmaps.x.visibility EXCEPT ![w] = v]
           a == [Cmaps EXCEPT !.x.visibility = new]
           p == Cmaps.x.queue
           t == [a EXCEPT !.x.queue = Append(p, e)]
<1>3. CmapsBecome(t)
  BY <1>2, Zenon
<1>4. e \in CEvent /\ e.type # "destroy"
  BY DEF CEvent, CWindow
<1> HIDE DEF e
<1>5. new \in [CWindow -> Visibility]
  <2>1. Cmaps.x.visibility \in [CWindow -> Visibility]
    BY <1>1 DEF CState, XType
  <2>2. QED
    BY <2>1
<1> HIDE DEF new
<1>6. /\ a \in CState /\ a.wm = Cmaps.wm /\ a.x.queue = p /\ a.x.dead = Cmaps.x.dead
  BY <1>1, <1>5 DEF CState, XType
<1> HIDE DEF a
<1>7. Sane(a) /\ Unpushed(a, user.uses)
  <2>1. Still(Cmaps, a)
    BY <1>1, <1>6, ServerStill
  <2>2. QED
    BY <1>1, <2>1, StillSteady, SteadyStays DEF Steady
<1> HIDE DEF p
<1>8. Sane(t) /\ Unpushed(t, user.uses)
  BY <1>4, <1>6, <1>7, OneMore
<1> HIDE DEF t
<1>9. QED
  BY <1>1, <1>3, <1>8, StepIs

\* A client gives a window another colormap.
LEMMA SetColormapInv ==
  ASSUME ColormapsInv, SetColormap
  PROVE  ColormapsInv'
<1>1. /\ Sane(Cmaps) /\ Unpushed(Cmaps, user.uses) /\ Cmaps \in CState
      /\ \E use : UserActs(use)
  BY DEF ColormapsInv, SetColormap, Sane
<1>2. PICK w \in Client \cup Sub, c \in Colormap :
        CmapsBecome([Cmaps EXCEPT !.x.colormap[w] = c,
                       !.x.queue = Append(@, [type |-> "cmap", w |-> w, new |-> TRUE,
                         colormap |-> c, installed |-> c \in Range(x.installed),
                         fresh |-> FALSE, by |-> NoColormap])])
  BY Zenon DEF SetColormap
<1> DEFINE b == c \in Range(x.installed)
           e == [type |-> "cmap", w |-> w, new |-> TRUE, colormap |-> c, installed |-> b,
                 fresh |-> FALSE, by |-> NoColormap]
           new == [Cmaps.x.colormap EXCEPT ![w] = c]
           a == [Cmaps EXCEPT !.x.colormap = new]
           p == Cmaps.x.queue
           t == [a EXCEPT !.x.queue = Append(p, e)]
<1>3. CmapsBecome(t)
  BY <1>2, Zenon
<1>4. b \in BOOLEAN
  OBVIOUS
<1> HIDE DEF b
<1>5. e \in CEvent /\ e.type # "destroy"
  BY <1>4 DEF CEvent, CWindow
<1> HIDE DEF e
<1>6. new \in [CWindow -> Colormap]
  <2>1. Cmaps.x.colormap \in [CWindow -> Colormap]
    BY <1>1, CStateIs
  <2>2. QED
    BY <2>1
<1> HIDE DEF new
<1>7. /\ a \in CState /\ a.wm = Cmaps.wm /\ a.x.queue = p /\ a.x.dead = Cmaps.x.dead
  BY <1>1, <1>6 DEF CState, XType
<1> HIDE DEF a
<1>8. Sane(a) /\ Unpushed(a, user.uses)
  <2>1. Still(Cmaps, a)
    BY <1>1, <1>7, ServerStill
  <2>2. QED
    BY <1>1, <2>1, StillSteady, SteadyStays DEF Steady
<1> HIDE DEF p
<1>9. Sane(t) /\ Unpushed(t, user.uses)
  BY <1>5, <1>7, <1>8, OneMore
<1> HIDE DEF t
<1>10. QED
  BY <1>1, <1>3, <1>9, StepIs

\* A client installs a colormap.
LEMMA ClientInstallInv ==
  ASSUME ColormapsInv, ClientInstall
  PROVE  ColormapsInv'
<1>1. /\ Sane(Cmaps) /\ Unpushed(Cmaps, user.uses) /\ Cmaps \in CState /\ Cmaps.x = x
      /\ \E use : UserActs(use)
  BY DEF ColormapsInv, ClientInstall, Sane, Cmaps
<1>2. PICK c \in Colormap, fresh \in BOOLEAN, by \in {NoColormap, Last(x.installed)} :
        CmapsBecome(Install(Cmaps, c, fresh, by))
  BY Zenon DEF ClientInstall
<1>3. by \in Colormap \cup {NoColormap}
  <2>1. x.installed \in Seq(Colormap) /\ x.installed # <<>>
    BY <1>1, CStateIs
  <2>2. Last(x.installed) \in Colormap
    BY <2>1 DEF Last
  <2>3. QED
    BY <2>2
<1> DEFINE t == Install(Cmaps, c, fresh, by)
<1>4. Still(Cmaps, t) /\ CmapsBecome(t)
  BY <1>1, <1>2, <1>3, InstallStill
<1> HIDE DEF t
<1>5. Sane(t) /\ Unpushed(t, user.uses)
  BY <1>1, <1>4, StillSteady, SteadyStays DEF Steady
<1>6. QED
  BY <1>1, <1>4, <1>5, StepIs

\* A client goes, in a session in which nothing is pushed.
LEMMA ClientDestroyInv ==
  ASSUME ColormapsInv, ClientDestroy
  PROVE  ColormapsInv'
<1>1. /\ Sane(Cmaps) /\ Unpushed(Cmaps, user.uses) /\ Cmaps \in CState
      /\ \E use : UserActs(use)
  BY DEF ColormapsInv, ClientDestroy, Sane
<1>2. PICK o \in Client :
        CmapsBecome([Cmaps EXCEPT !.x.dead = @ \cup {o},
                       !.x.queue = Append(@, [type |-> "destroy", w |-> o])])
  BY Zenon DEF ClientDestroy
<1> DEFINE e == [type |-> "destroy", w |-> o]
           p == Cmaps.x.queue
           q == p \o <<e>>
           dead == Cmaps.x.dead \cup {o}
           t == [Cmaps EXCEPT !.x.dead = dead, !.x.queue = q]
<1>3. e \in CEvent /\ p \in Seq(CEvent) /\ dead \in SUBSET CWindow
  <2>1. e \in CEvent
    BY DEF CEvent, Owner
  <2>2. p \in Seq(CEvent) /\ Cmaps.x.dead \in SUBSET CWindow
    BY <1>1, CStateIs
  <2>3. QED
    BY <2>1, <2>2 DEF CWindow
<1>4. CmapsBecome([Cmaps EXCEPT !.x.dead = dead, !.x.queue = Append(p, e)])
  BY <1>2, Zenon
<1>5. e.w \in Client
  OBVIOUS
<1> HIDE DEF e, p, dead
<1>6. q = Append(p, e)
  BY <1>3
<1>7. q \in Seq(CEvent) /\ \A f \in Range(q) : f = e \/ f \in Range(p)
  <2>1. <<e>> \in Seq(CEvent) /\ Range(<<e>>) = {e}
    BY <1>3 DEF Range
  <2>2. q \in Seq(CEvent) /\ Range(q) = Range(p) \cup Range(<<e>>)
    BY <1>3, <2>1, ConcatRange
  <2>3. QED
    BY <2>1, <2>2
<1>8. CmapsBecome(t)
  BY <1>4, <1>6
<1> HIDE DEF q
<1>9. t \in CState /\ t.wm = Cmaps.wm /\ t.x.queue = q
  BY <1>1, <1>3, <1>7 DEF CState, XType
<1> HIDE DEF t
<1>10. \A f \in Deaths(t) : f = e \/ f \in Deaths(Cmaps)
  BY <1>7, <1>9 DEF Deaths, p
<1>11. Sane(t)
  <2>1. /\ ColorsCounted(Cmaps) /\ WindowsCounted(Cmaps) /\ Listed(Cmaps) /\ InForce(Cmaps)
        /\ \A f \in Deaths(Cmaps) : f.w \in Client
    BY <1>1 DEF Sane
  <2>2. \A c \in Colormap : Wearing(t, c) = Wearing(Cmaps, c)
    BY <1>9 DEF Wearing
  <2>3. ColorsCounted(t)
    BY <1>9, <2>1, <2>2, SameWearing
  <2>4. WindowsCounted(t) /\ Listed(t) /\ InForce(t)
    BY <1>9, <2>1 DEF WindowsCounted, Listed, InForce, owning
  <2>5. \A f \in Deaths(t) : f.w \in Client
    BY <1>5, <1>10, <2>1
  <2>6. QED
    BY <1>9, <2>3, <2>4, <2>5 DEF Sane
<1>12. Unpushed(t, user.uses)
  <2>1. "destroy" \in user.uses
    BY DEF ClientDestroy, UserActs
  <2>2. QED
    BY <1>1, <1>9, <2>1 DEF Unpushed
<1>13. QED
  BY <1>1, <1>8, <1>11, <1>12, StepIs

(***************************************************************************)
(* The theorems.                                                            *)
(***************************************************************************)

\* Every step keeps the invariant.
LEMMA ColormapsNextInv ==
  ASSUME PushAlone, ColormapsInv, [ColormapsNext]_colormapVars
  PROVE  ColormapsInv'
<1>1. CASE ColormapsNext
  <2>1. CASE HandleEvent
    BY <2>1, HandleEventInv
  <2>2. CASE Thrashing
    BY <2>2, ThrashingInv
  <2>3. CASE PointerEnters
    BY <2>3, EnterInv
  <2>4. CASE Push \/ Pop
    BY <2>4, PushInv
  <2>5. CASE Bump
    BY <2>5, BumpInv
  <2>6. CASE SetList
    BY <2>6, SetListInv
  <2>7. CASE Obscure
    BY <2>7, ObscureInv
  <2>8. CASE SetColormap
    BY <2>8, SetColormapInv
  <2>9. CASE ClientInstall
    BY <2>9, ClientInstallInv
  <2>10. CASE ClientDestroy
    BY <2>10, ClientDestroyInv
  <2>11. QED
    BY <1>1, <2>1, <2>2, <2>3, <2>4, <2>5, <2>6, <2>7, <2>8, <2>9, <2>10 DEF ColormapsNext
<1>2. CASE UNCHANGED colormapVars
  <2>1. x' = x /\ wm' = wm /\ user' = user
    BY <1>2 DEF colormapVars
  <2>2. Cmaps' = Cmaps
    BY <2>1 DEF Cmaps
  <2>3. Sane(Cmaps') /\ Unpushed(Cmaps', user'.uses)
    BY <2>1, <2>2 DEF ColormapsInv
  <2>4. Sane(Cmaps)' /\ Unpushed(Cmaps, user.uses)'
    BY <2>3
  <2>5. QED
    BY <2>1, <2>4 DEF ColormapsInv
<1>3. QED
  BY <1>1, <1>2

\* The invariant implies the property.
LEMMA ColormapsInvImplies ==
  ASSUME ColormapsInv
  PROVE  CountsAgree
<1>1. /\ Cmaps \in CState /\ ColorsCounted(Cmaps) /\ WindowsCounted(Cmaps) /\ InForce(Cmaps)
      /\ Cmaps.x = x /\ Cmaps.wm = wm
  BY DEF ColormapsInv, Sane, Cmaps
<1>2. ColormapsTypeOK
  BY <1>1, CStateIs DEF ColormapsTypeOK, ColormapsInv
<1>3. \A w \in CWindow : wm.cwin[w].refcnt = Cardinality(PlacesOnLists(wm.cwins, w))
  BY <1>1 DEF WindowsCounted
<1>4. \A c \in Colormap : wm.cmap[c].refcnt =
        Cardinality({w \in CWindow : wm.cwin[w].refcnt > 0 /\ wm.cwin[w].colormap = c})
  BY <1>1 DEF ColorsCounted, Wearing
<1>5. {wm.cmaps, wm.pushed_cmaps} \subseteq owning(Cmaps) \cup {root}
  BY <1>1 DEF InForce
<1>6. QED
  BY <1>2, <1>3, <1>4, <1>5 DEF CountsAgree

\* A window is counted once for every place it has on a list and a colormap once for
\* every window looked at that has it, and the lists in force and pushed are there,
\* whatever clients list, obscure, recolour and install, and however the lists are
\* turned and the root's colormaps pushed (free_cwins, HandleColormapNotify).
THEOREM ColormapsAreCounted ==
  ASSUME PushAlone
  PROVE  ColormapsSpec => []CountsAgree
<1>1. ColormapsInit => ColormapsInv
  BY ColormapsInitInv
<1>2. ColormapsInv /\ [ColormapsNext]_colormapVars => ColormapsInv'
  BY ColormapsNextInv
<1>3. ColormapsInv => CountsAgree
  BY ColormapsInvImplies
<1>4. QED
  BY <1>1, <1>2, <1>3, PTL DEF ColormapsSpec

=============================================================================
