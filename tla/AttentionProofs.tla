-------------------------- MODULE AttentionProofs --------------------------
(***************************************************************************)
(* Theorems about the attention of the user, for all windows, places of the *)
(* pointer, workspaces, settings and sessions of Attention:                 *)
(*   TypeCorrect            types                                           *)
(*   NothingIsLeftDangling  ctwm refers to windows it has, and the leader   *)
(*                          of the ring is on the ring                      *)
(*                                                                          *)
(* What the server does (the relation XOnly) changes nothing that ctwm has. *)
(* What ctwm does keeps a state sane that was so (Keeps), one operator after *)
(* the other, and both compose.  HandleDestroyNotify alone goes through a   *)
(* state that is not: ForgottenIs says what must be true of it.             *)
(***************************************************************************)
EXTENDS Attention, SequenceFacts

\* Kept returns the elements that are in the set, each as often as before.
LEMMA KeptRange ==
  ASSUME NEW E, NEW q \in Seq(E), NEW S
  PROVE  /\ Kept(q, S) \in Seq(E) /\ Range(Kept(q, S)) = Range(q) \cap S
         /\ IsInjective(q) => IsInjective(Kept(q, S))
<1> DEFINE n == Len(q)
           h == [p \in Seq(E) \X (1 .. n) |->
                   IF q[p[2]] \in S THEN Append(p[1], q[p[2]]) ELSE p[1]]
           Is(f) == f = [i \in 0 .. n |->
                           IF i = 0 THEN <<>>
                           ELSE IF q[i] \in S THEN Append(f[i - 1], q[i]) ELSE f[i - 1]]
           F == CHOOSE f : Is(f)
<1>1. n \in Nat /\ (\A i \in 1 .. n : q[i] \in E) /\ <<>> \in Seq(E) /\ DOMAIN q = 1 .. n
  BY ElementOfSeq, EmptySeq, LenProperties
<1>2. h \in [Seq(E) \X (1 .. n) -> Seq(E)]
  BY <1>1, AppendProperties
<1>3. \E f : Is(f)
  <2> HIDE DEF h
  <2> DEFINE A == Seq(E)
             base == <<>>
  <2>0. n \in Nat /\ base \in A /\ h \in [A \X (1 .. n) -> A]
    BY <1>1, <1>2
  <2>1. PICK f : f \in [0 .. n -> A] /\ f[0] = base /\ \A i \in 1 .. n : f[i] = h[<<f[i - 1], i>>]
    <3> HIDE DEF n, A, base
    <3>1. PICK f : Recursion(f, n, A, base, h)
      BY <2>0, RecursionExists
    <3>2. QED
      BY <3>1 DEF Recursion
  <2>2. \A i \in 1 .. n : f[i] = IF q[i] \in S THEN Append(f[i - 1], q[i]) ELSE f[i - 1]
    <3>1. TAKE i \in 1 .. n
    <3>2. <<f[i - 1], i>> \in Seq(E) \X (1 .. n)
      <4>1. i - 1 \in 0 .. n
        BY <1>1
      <4>2. f[i - 1] \in Seq(E)
        BY <2>1, <4>1
      <4>3. QED
        BY <4>2
    <3>3. QED
      BY <2>1, <3>2 DEF h
  <2>3. Is(f)
    <3> DEFINE V(i) == IF i = 0 THEN <<>>
                       ELSE IF q[i] \in S THEN Append(f[i - 1], q[i]) ELSE f[i - 1]
    <3>1. \A i \in 0 .. n : f[i] = V(i)
      <4>1. \A i \in 0 .. n : i = 0 \/ i \in 1 .. n
        BY <1>1
      <4>2. QED
        BY <2>1, <2>2, <4>1
    <3> HIDE DEF V, n
    <3>2. f = [i \in 0 .. n |-> V(i)]
      BY <2>1, <3>1
    <3>3. QED
      BY <3>2 DEF V
  <2>4. QED
    BY <2>3
<1>4. Is(F)
  <2> HIDE DEF Is
  <2>1. QED
    BY <1>3
<1>5. Kept(q, S) = F[n]
  BY DEF Kept
<1> HIDE DEF F, h
<1>6. F[0] = <<>> /\ \A i \in 1 .. n : F[i] = IF q[i] \in S THEN Append(F[i - 1], q[i]) ELSE F[i - 1]
  <2> DEFINE G == [i \in 0 .. n |->
                           IF i = 0 THEN <<>>
                           ELSE IF q[i] \in S THEN Append(F[i - 1], q[i]) ELSE F[i - 1]]
  <2>1. F = G
    BY <1>4
  <2>2. G[0] = <<>> /\ \A i \in 1 .. n : G[i] = IF q[i] \in S THEN Append(F[i - 1], q[i]) ELSE F[i - 1]
    BY <1>1
  <2> HIDE DEF G
  <2>3. QED
    BY <2>1, <2>2
<1> HIDE DEF Is
<1> DEFINE P(i) == /\ F[i] \in Seq(E)
                   /\ Range(F[i]) = {q[j] : j \in 1 .. i} \cap S
                   /\ IsInjective(q) => IsInjective(F[i])
           T == {i \in 0 .. n : ~P(i)}
<1>7. T = {}
  <2>1. SUFFICES ASSUME T # {} PROVE FALSE
    OBVIOUS
  <2>2. PICK m \in T : \A k \in T : m <= k
    <3>1. T \in SUBSET Nat
      BY <1>1
    <3>2. QED
      BY <2>1, <3>1, LeastNat
  <2>3. m \in 0 .. n /\ ~P(m)
    BY <2>2
  <2>4. P(0)
    <3>1. Range(<<>>) = {} /\ IsInjective(<<>>)
      BY DEF Range, IsInjective
    <3>2. {q[j] : j \in 1 .. 0} = {}
      OBVIOUS
    <3>3. QED
      BY <1>1, <1>6, <3>1, <3>2
  <2>5. m \in 1 .. n /\ m - 1 \in 0 .. n
    <3>1. m # 0
      BY <2>3, <2>4
    <3>2. QED
      BY <1>1, <2>3, <3>1
  <2>6. P(m - 1)
    <3>1. m - 1 \notin T
      <4>1. ~(m <= m - 1)
        BY <2>3
      <4>2. QED
        BY <2>2, <4>1
    <3>2. QED
      BY <2>5, <3>1
  <2> DEFINE g == F[m - 1]
             e == q[m]
  <2>7. {q[j] : j \in 1 .. m} = {q[j] : j \in 1 .. m - 1} \cup {e}
    <3>1. \A j \in 1 .. m : j = m \/ j \in 1 .. m - 1
      BY <2>5
    <3>2. m \in 1 .. m /\ \A j \in 1 .. m - 1 : j \in 1 .. m
      BY <2>5
    <3>3. QED
      BY <3>1, <3>2
  <2>8. CASE q[m] \in S
    <3>1. F[m] = Append(g, e) /\ e \in E /\ g \in Seq(E)
      BY <1>1, <1>6, <2>5, <2>6, <2>8
    <3>2. F[m] = g \o <<e>>
      BY <3>1, AppendIsConcat
    <3>3. <<e>> \in Seq(E) /\ Range(<<e>>) = {e} /\ IsInjective(<<e>>)
      BY <3>1 DEF Range, IsInjective
    <3>4. F[m] \in Seq(E) /\ Range(F[m]) = Range(g) \cup {e}
      <4> DEFINE one == <<e>>
      <4>1. g \in Seq(E) /\ one \in Seq(E) /\ F[m] = g \o one /\ Range(one) = {e}
        BY <3>1, <3>2, <3>3
      <4> HIDE DEF g, e, one
      <4>2. QED
        BY <4>1, ConcatRange
    <3>5. Range(F[m]) = {q[j] : j \in 1 .. m} \cap S
      BY <2>6, <2>7, <2>8, <3>4
    <3>6. ASSUME IsInjective(q) PROVE IsInjective(F[m])
      <4>1. e \notin Range(g)
        <5>1. \A j \in 1 .. m - 1 : q[j] # q[m]
          BY <1>1, <2>5, <3>6 DEF IsInjective
        <5>2. QED
          BY <2>6, <5>1
      <4>2. IsInjective(g)
        BY <2>6, <3>6
      <4> DEFINE one == <<e>>
      <4>3. /\ g \in Seq(E) /\ one \in Seq(E) /\ F[m] = g \o one
            /\ IsInjective(one) /\ Range(g) \cap Range(one) = {}
        BY <3>1, <3>2, <3>3, <4>1
      <4> HIDE DEF g, e, one
      <4>4. QED
        BY <4>2, <4>3, ConcatInjective
    <3>7. QED
      BY <2>3, <3>4, <3>5, <3>6
  <2>9. CASE q[m] \notin S
    <3>1. F[m] = F[m - 1]
      BY <1>6, <2>5, <2>9
    <3>2. {q[j] : j \in 1 .. m} \cap S = {q[j] : j \in 1 .. m - 1} \cap S
      BY <2>7, <2>9
    <3>3. QED
      BY <2>3, <2>6, <3>1, <3>2
  <2>10. QED
    BY <2>8, <2>9
<1>8. P(n)
  <2>1. n \in 0 .. n
    BY <1>1
  <2>2. QED
    BY <1>7, <2>1
<1>9. Range(q) = {q[j] : j \in 1 .. n}
  BY <1>1 DEF Range
<1>10. QED
  BY <1>5, <1>8, <1>9

(***************************************************************************)
(* Types of what the server keeps.                                          *)
(***************************************************************************)
StateType == [x : ServerType, wm : WmType]

\* There are finitely many windows.
LEMMA WinIsFinite == IsFiniteSet(Win)
<1>1. FirstWindow \in [1 .. Len(FirstWindow) -> Win] /\ Len(FirstWindow) \in Nat
  BY AttentionAssumption, LenProperties
<1>2. Range(FirstWindow) = Win
  BY AttentionAssumption
<1>3. FirstWindow \in Surjection(1 .. Len(FirstWindow), Win)
  <2>1. \A w \in Win : \E i \in 1 .. Len(FirstWindow) : FirstWindow[i] = w
    BY <1>1, <1>2 DEF Range
  <2>2. QED
    BY <1>1, <2>1 DEF Surjection
<1>4. IsFiniteSet(1 .. Len(FirstWindow))
  BY <1>1, FS_Interval
<1>5. QED
  BY <1>3, <1>4, FS_Surjection

\* What a sequence of distinct windows is.
LEMMA WinSeqIs ==
  ASSUME NEW q
  PROVE  q \in WinSeq <=> q \in Seq(Win) /\ IsInjective(q)
<1>1. ASSUME q \in Seq(Win), IsInjective(q) PROVE q \in WinSeq
  <2>1. Len(q) \in 0 .. Cardinality(Win) /\ q \in [1 .. Len(q) -> Win]
    BY <1>1, WinIsFinite, InjectiveIsShort
  <2>2. q \in SeqOf(Win, Cardinality(Win))
    BY <2>1 DEF SeqOf
  <2>3. QED
    BY <1>1, <2>2 DEF WinSeq
<1>2. ASSUME q \in WinSeq PROVE q \in Seq(Win) /\ IsInjective(q)
  <2>1. PICK m \in 0 .. Cardinality(Win) : q \in [1 .. m -> Win]
    BY <1>2 DEF WinSeq, SeqOf
  <2>2. m \in Nat
    <3>1. Cardinality(Win) \in Nat
      BY WinIsFinite, FS_CardinalityType
    <3>2. QED
      BY <3>1
  <2>3. q \in Seq(Win)
    BY <2>1, <2>2, IsASeq
  <2>4. QED
    BY <1>2, <2>3 DEF WinSeq
<1>3. QED
  BY <1>1, <1>2

\* Taking a window out of such a sequence, and putting it in at either end.
LEMMA WinSeqMoves ==
  ASSUME NEW q \in WinSeq, NEW w \in Win
  PROVE  /\ RemoveFirst(q, w) \in WinSeq /\ Range(RemoveFirst(q, w)) = Range(q) \ {w}
         /\ <<w>> \o RemoveFirst(q, w) \in WinSeq
         /\ Append(RemoveFirst(q, w), w) \in WinSeq
<1> DEFINE r == RemoveFirst(q, w)
           one == <<w>>
<1>1. q \in Seq(Win) /\ IsInjective(q)
  BY WinSeqIs
<1>2. r \in Seq(Win) /\ IsInjective(r) /\ Range(r) = Range(q) \ {w}
  BY <1>1, RemoveFirstInjective
<1>3. one \in Seq(Win) /\ IsInjective(one) /\ Range(one) = {w}
  BY DEF IsInjective, Range
<1>4. Append(r, w) = r \o one
  BY <1>2, AppendIsConcat
<1> HIDE DEF r, one
<1>5. Range(r) \cap Range(one) = {} /\ Range(one) \cap Range(r) = {}
  BY <1>2, <1>3
<1>6. one \o r \in Seq(Win) /\ IsInjective(one \o r)
  BY <1>2, <1>3, <1>5, ConcatInjective, ConcatRange
<1>7. r \o one \in Seq(Win) /\ IsInjective(r \o one)
  BY <1>2, <1>3, <1>5, ConcatInjective, ConcatRange
<1>8. r \in WinSeq /\ one \o r \in WinSeq /\ Append(r, w) \in WinSeq
  BY <1>2, <1>4, <1>6, <1>7, WinSeqIs
<1>9. QED
  BY <1>2, <1>8 DEF r, one

\* The index of the first element that passes a test, which T says.
LEMMA FirstIndex ==
  ASSUME NEW n \in Nat, NEW T \in SUBSET (1 .. n), T # {}
  PROVE  Min(T) \in T
<1>1. T \in SUBSET Nat
  OBVIOUS
<1>2. QED
  BY <1>1, MinIsLeast

\* The pointer is in a window that there is, or in the root.
LEMMA AtIsThere ==
  ASSUME NEW s \in StateType
  PROVE  At(s) \in Area
<1> DEFINE q == s.x.stack
           T == {i \in 1 .. Len(q) : Viewable(s, q[i]) /\ PartAt[s.x.point][q[i]] # "none"}
           top == IF T # {} THEN Min(T) ELSE 0
           w == q[top]
<1>1. q \in WinSeq /\ s.x.point \in Point
  BY DEF StateType, ServerType
<1>2. q \in Seq(Win) /\ Len(q) \in Nat
  BY <1>1, WinSeqIs, LenProperties
<1>3. At(s) = IF top = 0 THEN Root ELSE [win |-> w, part |-> PartAt[s.x.point][w]]
  BY Zenon DEF At, SelectInSeq
<1>4. CASE T = {}
  BY <1>3, <1>4 DEF Area, Root
<1>5. CASE T # {}
  <2>1. top \in T
    <3>1. T \in SUBSET (1 .. Len(q))
      OBVIOUS
    <3> HIDE DEF T
    <3>2. QED
      BY <1>2, <1>5, <3>1, FirstIndex
  <2> HIDE DEF top
  <2>2. top \in 1 .. Len(q) /\ PartAt[s.x.point][w] # "none"
    BY <2>1
  <2>3. w \in Win /\ top # 0
    BY <1>2, <2>2, ElementOfSeq
  <2>4. PartAt[s.x.point][w] \in Part
    BY <1>1, <2>3, AttentionAssumption
  <2>5. PartAt[s.x.point][w] \in {"frame", "client"}
    BY <2>2, <2>4 DEF Part
  <2>6. QED
    BY <1>3, <2>3, <2>5 DEF Area
<1>6. QED
  BY <1>4, <1>5

(***************************************************************************)
(* Events.                                                                  *)
(***************************************************************************)
CrossingType == {"Enter", "Leave"}
Detail == {"Ancestor", "Inferior", "Virtual", "Nonlinear", "NonlinearVirtual", "Pointer"}

\* Sequences of events.
LEMMA EventSeqs ==
  /\ <<>> \in Seq(EventType)
  /\ \A e \in EventType : <<e>> \in Seq(EventType)
  /\ \A p, q \in Seq(EventType) : p \o q \in Seq(EventType)
<1> DEFINE E == EventType
<1> HIDE DEF E
<1>1. <<>> \in Seq(E) /\ \A e \in E : <<e>> \in Seq(E)
  OBVIOUS
<1>2. \A p, q \in Seq(E) : p \o q \in Seq(E)
  BY ConcatProperties
<1>3. QED
  BY <1>1, <1>2 DEF E

\* A crossing, and a focus event.
LEMMA Events ==
  /\ \A s : \A t \in CrossingType : \A a \in Area : \A d \in Detail :
       Crossing(s, t, a, d) \in EventType
  /\ \A t \in {"FocusIn", "FocusOut"} : \A w \in Win : \A d \in Detail :
       FocusEvent(t, w, d) \in EventType
<1>1. \A s, a : HasFocus(s, a) \in BOOLEAN
  BY DEF HasFocus
<1>2. ASSUME NEW s, NEW t \in CrossingType, NEW a \in Area, NEW d \in Detail
      PROVE  Crossing(s, t, a, d) \in EventType
  <2>1. HasFocus(s, a) \in BOOLEAN
    BY <1>1
  <2>2. t \in {"Enter", "Leave", "FocusIn", "FocusOut"}
    BY DEF CrossingType
  <2> HIDE DEF CrossingType
  <2>3. QED
    BY <2>1, <2>2 DEF Crossing, EventType, Detail
<1>3. ASSUME NEW t \in {"FocusIn", "FocusOut"}, NEW w \in Win, NEW d \in Detail
      PROVE  FocusEvent(t, w, d) \in EventType
  <2>1. ClientOf(w) \in Area
    BY DEF ClientOf, Area
  <2>2. QED
    BY <2>1 DEF FocusEvent, EventType, Detail
<1>4. QED
  BY <1>2, <1>3

\* The crossings between two areas.
LEMMA CrossingsAre ==
  ASSUME NEW s, NEW a \in Area, NEW b \in Area
  PROVE  Crossings(s, a, b) \in Seq(EventType)
<1> DEFINE leave(area, detail) == Crossing(s, "Leave", area, detail)
           enter(area, detail) == Crossing(s, "Enter", area, detail)
           via(c, frame) == IF c.part = "client" THEN <<frame>> ELSE <<>>
<1>1. \A c \in Area : c # Root => FrameOf(c.win) \in Area
  BY DEF Area, FrameOf, Root
<1>2. \A c \in Area, d \in Detail : leave(c, d) \in EventType /\ enter(c, d) \in EventType
  BY Events DEF CrossingType
<1>3. \A c \in Area, d \in Detail :
        c # Root => leave(FrameOf(c.win), d) \in EventType /\ enter(FrameOf(c.win), d) \in EventType
  BY <1>1, <1>2
<1>4. \A c : \A e \in EventType : via(c, e) \in Seq(EventType)
  BY EventSeqs
<1>5. \A d \in {"Ancestor", "Inferior", "Virtual", "Nonlinear", "NonlinearVirtual"} : d \in Detail
  BY DEF Detail
<1> HIDE DEF leave, enter
<1>6. CASE a = b
  BY <1>6, EventSeqs DEF Crossings
<1>7. CASE a # b /\ a.win = b.win
  <2>1. <<leave(a, "Inferior"), enter(b, "Ancestor")>> \in Seq(EventType)
    BY <1>2, <1>5
  <2>2. <<leave(a, "Ancestor"), enter(b, "Inferior")>> \in Seq(EventType)
    BY <1>2, <1>5
  <2>3. b # Root /\ a # Root
    <3>1. \A c \in Area : c.win = None => c = Root
      BY AttentionAssumption DEF Area, Root
    <3>2. QED
      BY <1>7, <3>1 DEF Root
  <2>4. Crossings(s, a, b) =
          IF a.part = "frame" THEN <<leave(a, "Inferior"), enter(b, "Ancestor")>>
          ELSE <<leave(a, "Ancestor"), enter(b, "Inferior")>>
    BY <1>7, <2>3 DEF Crossings, leave, enter
  <2>5. QED
    BY <2>1, <2>2, <2>4
<1>8. CASE a # b /\ a.win # b.win /\ b = Root
  <2> DEFINE l == via(a, leave(FrameOf(a.win), "Virtual"))
  <2>1. a # Root
    BY <1>8
  <2>2. l \in Seq(EventType)
    BY <1>3, <1>4, <1>5, <2>1
  <2>3. <<leave(a, "Ancestor")>> \in Seq(EventType) /\ <<enter(b, "Inferior")>> \in Seq(EventType)
    BY <1>2, <1>5, EventSeqs
  <2>4. Crossings(s, a, b) = <<leave(a, "Ancestor")>> \o l \o <<enter(b, "Inferior")>>
    BY <1>8 DEF Crossings, leave, enter
  <2> HIDE DEF l
  <2>5. QED
    BY <2>2, <2>3, <2>4, EventSeqs
<1>9. CASE a # b /\ a.win # b.win /\ b # Root /\ a = Root
  <2> DEFINE e == via(b, enter(FrameOf(b.win), "Virtual"))
  <2>1. e \in Seq(EventType) /\ <<enter(b, "Ancestor")>> \in Seq(EventType)
    BY <1>2, <1>3, <1>4, <1>5, <1>9, EventSeqs
  <2>2. Crossings(s, a, b) = e \o <<enter(b, "Ancestor")>>
    BY <1>9 DEF Crossings, leave, enter
  <2> HIDE DEF e
  <2>3. QED
    BY <2>1, <2>2, EventSeqs
<1>10. CASE a # b /\ a.win # b.win /\ b # Root /\ a # Root
  <2> DEFINE l == via(a, leave(FrameOf(a.win), "NonlinearVirtual"))
             e == via(b, enter(FrameOf(b.win), "NonlinearVirtual"))
  <2>1. /\ l \in Seq(EventType) /\ <<leave(a, "Nonlinear")>> \in Seq(EventType)
        /\ e \in Seq(EventType) /\ <<enter(b, "Nonlinear")>> \in Seq(EventType)
    BY <1>2, <1>3, <1>4, <1>5, <1>10, EventSeqs
  <2>2. Crossings(s, a, b) = <<leave(a, "Nonlinear")>> \o l \o e \o <<enter(b, "Nonlinear")>>
    BY <1>10 DEF Crossings, leave, enter
  <2> HIDE DEF l, e
  <2>3. QED
    BY <2>1, <2>2, EventSeqs
<1>11. QED
  BY <1>6, <1>7, <1>8, <1>9, <1>10

(***************************************************************************)
(* The server's part of a step: what ctwm knows stays.                      *)
(***************************************************************************)
XOnly(s, t) == t \in StateType /\ t.wm = s.wm

\* Changes of the fields of the server.
LEMMA XFields ==
  ASSUME NEW s \in StateType
  PROVE  /\ \A q \in Seq(EventType) : XOnly(s, [s EXCEPT !.x.queue = q])
         /\ \A f \in Maybe : XOnly(s, [s EXCEPT !.x.focus = f, !.x.asked = None])
         /\ \A f \in Maybe : XOnly(s, [s EXCEPT !.x.asked = f])
         /\ \A q \in WinSeq : XOnly(s, [s EXCEPT !.x.stack = q])
         /\ \A p \in Point : XOnly(s, [s EXCEPT !.x.point = p])
         /\ \A d \in SUBSET Win : XOnly(s, [s EXCEPT !.x.dead = d])
<1> DEFINE Q == Seq(EventType)
<1>1. /\ s = [x |-> s.x, wm |-> s.wm] /\ s.wm \in WmType /\ s.x \in ServerType
      /\ \A y \in ServerType : [s EXCEPT !.x = y] \in StateType /\ [s EXCEPT !.x = y].wm = s.wm
  BY DEF StateType
<1>2. None \in Maybe
  BY DEF Maybe
<1>3. /\ \A q \in Q : [s.x EXCEPT !.queue = q] \in ServerType
      /\ \A f \in Maybe : [s.x EXCEPT !.focus = f, !.asked = None] \in ServerType
      /\ \A f \in Maybe : [s.x EXCEPT !.asked = f] \in ServerType
      /\ \A q \in WinSeq : [s.x EXCEPT !.stack = q] \in ServerType
      /\ \A p \in Point : [s.x EXCEPT !.point = p] \in ServerType
      /\ \A d \in SUBSET Win : [s.x EXCEPT !.dead = d] \in ServerType
  <2> DEFINE M == Maybe
             W == WinSeq
  <2>1. ServerType = [stack : W, point : Point, focus : M, asked : M, dead : SUBSET Win, queue : Q]
    BY DEF ServerType
  <2> HIDE DEF Q, M, W
  <2>2. \A q \in Q : [s.x EXCEPT !.queue = q] \in ServerType
    BY <1>1, <2>1
  <2>3. \A f \in M : [s.x EXCEPT !.focus = f, !.asked = None] \in ServerType
    BY <1>1, <1>2, <2>1 DEF M
  <2>4. \A f \in M : [s.x EXCEPT !.asked = f] \in ServerType
    BY <1>1, <2>1
  <2>5. \A q \in W : [s.x EXCEPT !.stack = q] \in ServerType
    BY <1>1, <2>1
  <2>6. \A p \in Point : [s.x EXCEPT !.point = p] \in ServerType
    BY <1>1, <2>1
  <2>7. \A d \in SUBSET Win : [s.x EXCEPT !.dead = d] \in ServerType
    BY <1>1, <2>1
  <2>8. QED
    BY <2>2, <2>3, <2>4, <2>5, <2>6, <2>7 DEF M, W
<1> HIDE DEF Q
<1>4. \A q \in Q : XOnly(s, [s EXCEPT !.x.queue = q])
  BY <1>1, <1>3 DEF XOnly
<1>5. \A f \in Maybe : XOnly(s, [s EXCEPT !.x.focus = f, !.x.asked = None])
  <2>1. TAKE f \in Maybe
  <2>2. [s EXCEPT !.x.focus = f, !.x.asked = None] = [s EXCEPT !.x = [s.x EXCEPT !.focus = f, !.asked = None]]
    BY <1>1 DEF ServerType
  <2>3. QED
    BY <1>1, <1>3, <2>2 DEF XOnly
<1>6. /\ \A f \in Maybe : XOnly(s, [s EXCEPT !.x.asked = f])
      /\ \A q \in WinSeq : XOnly(s, [s EXCEPT !.x.stack = q])
  BY <1>1, <1>3 DEF XOnly
<1>7. /\ \A p \in Point : XOnly(s, [s EXCEPT !.x.point = p])
      /\ \A d \in SUBSET Win : XOnly(s, [s EXCEPT !.x.dead = d])
  BY <1>1, <1>3 DEF XOnly
<1>8. QED
  BY <1>4, <1>5, <1>6, <1>7 DEF Q

\* More events wait.
LEMMA QueueIs ==
  ASSUME NEW s \in StateType, NEW events \in Seq(EventType)
  PROVE  XOnly(s, Queue(s, events))
<1>1. s.x.queue \in Seq(EventType)
  BY DEF StateType, ServerType
<1>2. s.x.queue \o events \in Seq(EventType)
  BY <1>1, EventSeqs
<1>3. QED
  BY <1>2, XFields DEF Queue

\* Crossing events are put into the queue, and that is all.
LEMMA CrossedIs ==
  ASSUME NEW s \in StateType, NEW t \in StateType
  PROVE  XOnly(t, Crossed(s, t))
<1>1. At(s) \in Area /\ At(t) \in Area
  BY AtIsThere
<1>2. QED
  BY <1>1, CrossingsAre, QueueIs DEF Crossed

\* So are focus events, and the focus is a window or none.
LEMMA RefocusedIs ==
  ASSUME NEW s \in StateType, NEW f \in Maybe
  PROVE  XOnly(s, Refocused(s, f))
<1> DEFINE was == s.x.focus
           under == IF At(s).part = "client" THEN {At(s).win} ELSE {}
           Told(t) == {FocusEvent(t, w, "Pointer") : w \in under}
           out == IF was # None THEN <<FocusEvent("FocusOut", was, "Nonlinear")>>
                  ELSE SetToSeq(Told("FocusOut"))
           into == IF f # None THEN <<FocusEvent("FocusIn", f, "Nonlinear")>>
                   ELSE SetToSeq(Told("FocusIn"))
           t == [s EXCEPT !.x.focus = f, !.x.asked = None]
<1>1. XOnly(s, t) /\ XOnly(s, [s EXCEPT !.x.asked = None])
  BY XFields DEF Maybe
<1>2. was \in Maybe
  BY DEF StateType, ServerType
<1>3. under \in SUBSET Win /\ IsFiniteSet(under)
  <2>1. At(s) \in Area
    BY AtIsThere
  <2>2. under \in SUBSET Win
    BY <2>1 DEF Area
  <2>3. QED
    BY <2>2, WinIsFinite, FS_Subset
<1>4. \A k \in {"FocusIn", "FocusOut"} : SetToSeq(Told(k)) \in Seq(EventType)
  <2>1. TAKE k \in {"FocusIn", "FocusOut"}
  <2> DEFINE S == Told(k)
  <2>2. S \subseteq EventType
    BY <1>3, Events DEF Detail
  <2>3. IsFiniteSet(S)
    <3>1. CASE At(s).part = "client"
      <4>1. S = {FocusEvent(k, At(s).win, "Pointer")}
        BY <3>1
      <4> HIDE DEF S
      <4>2. QED
        BY <4>1, FS_Singleton
    <3>2. CASE At(s).part # "client"
      <4>1. S = {}
        BY <3>2
      <4> HIDE DEF S
      <4>2. QED
        BY <4>1, FS_EmptySet
    <3>3. QED
      BY <3>1, <3>2
  <2> HIDE DEF S
  <2>4. SetToSeq(S) \in [1 .. Cardinality(S) -> S] /\ Cardinality(S) \in Nat
    BY <2>3, SetToSeqLists, FS_CardinalityType
  <2>5. SetToSeq(S) \in [1 .. Cardinality(S) -> EventType]
    BY <2>2, <2>4
  <2>6. SetToSeq(S) \in Seq(EventType)
    BY <2>4, <2>5, IsASeq
  <2>7. QED
    BY <2>6 DEF S
<1>5. \A k \in {"FocusIn", "FocusOut"}, w \in Win : <<FocusEvent(k, w, "Nonlinear")>> \in Seq(EventType)
  BY Events, EventSeqs DEF Detail
<1> HIDE DEF Told
<1>6. out \in Seq(EventType) /\ into \in Seq(EventType)
  BY <1>2, <1>4, <1>5 DEF Maybe
<1>7. Refocused(s, f) = IF was = f THEN [s EXCEPT !.x.asked = None] ELSE Queue(t, out \o into)
  BY DEF Refocused, Told
<1> HIDE DEF out, into, t
<1>8. out \o into \in Seq(EventType)
  BY <1>6, EventSeqs
<1>9. XOnly(t, Queue(t, out \o into))
  BY <1>1, <1>8, QueueIs DEF XOnly
<1>10. QED
  BY <1>1, <1>7, <1>9 DEF XOnly

\* A request for the focus is the server's business, whether it fails or not.
LEMMA XSetInputFocusIs ==
  ASSUME NEW s \in StateType, NEW f \in Maybe
  PROVE  XOnly(s, XSetInputFocus(s, f))
BY RefocusedIs DEF XSetInputFocus, XOnly

\* So is the focus that is lost with a window that is unmapped.
LEMMA RemappedIs ==
  ASSUME NEW s \in StateType, NEW t \in StateType
  PROVE  XOnly(t, Remapped(s, t))
<1> DEFINE u == Crossed(s, t)
<1>1. XOnly(t, u)
  BY CrossedIs
<1> HIDE DEF u
<1>2. XOnly(u, Refocused(u, None))
  BY <1>1, RefocusedIs DEF XOnly, Maybe
<1>3. QED
  BY <1>1, <1>2 DEF Remapped, u, XOnly

\* The order of the windows, and the pointer.
LEMMA XMoves ==
  ASSUME NEW s \in StateType
  PROVE  /\ \A w \in Win : XOnly(s, XRaise(s, w)) /\ XOnly(s, XLower(s, w))
         /\ \A p \in Point : XOnly(s, XWarpPointer(s, p))
<1>1. s.x.stack \in WinSeq
  BY DEF StateType, ServerType
<1>2. ASSUME NEW w \in Win PROVE XOnly(s, XRaise(s, w)) /\ XOnly(s, XLower(s, w))
  <2>1. XOnly(s, [s EXCEPT !.x.stack = <<w>> \o RemoveFirst(s.x.stack, w)])
    BY <1>1, WinSeqMoves, XFields
  <2>2. XOnly(s, [s EXCEPT !.x.stack = Append(RemoveFirst(s.x.stack, w), w)])
    BY <1>1, WinSeqMoves, XFields
  <2>3. QED
    BY <2>1, <2>2, CrossedIs DEF XRaise, XLower, XOnly
<1>3. ASSUME NEW p \in Point PROVE XOnly(s, XWarpPointer(s, p))
  <2> DEFINE t == [s EXCEPT !.x.point = p]
  <2>1. XOnly(s, t)
    BY XFields
  <2> HIDE DEF t
  <2>2. XOnly(t, Crossed(s, t))
    BY <2>1, CrossedIs DEF XOnly
  <2>3. QED
    BY <2>1, <2>2 DEF XWarpPointer, XOnly, t
<1>4. QED
  BY <1>2, <1>3

(***************************************************************************)
(* ctwm's part: it refers to windows that are there.                        *)
(***************************************************************************)
Alive(m) == (Win \ m.gone) \cup {None}

\* (save_focus is forgotten with a window only if it is used.)
SaneWm(m) ==
  /\ m \in WmType
  /\ {m.Focus, m.enter_win, m.raise_win, m.leave_win, m.lower_win} \subseteq Alive(m)
  /\ \A ws \in WorkSpace : m.save_focus[ws] \in Alive(m)
  /\ \A ws \in WorkSpace : SaveWorkspaceFocus \/ m.save_focus[ws] = None
  /\ Range(m.ring) \subseteq Win \ m.gone
  /\ m.RingLeader \in Range(m.ring) \cup {None}

Sane(s) == s \in StateType /\ SaneWm(s.wm)

\* No window is forgotten between s and t.
Keeps(s, t) == Sane(t) /\ t.wm.gone = s.wm.gone

\* The server may do anything in between.
LEMMA XKeeps ==
  ASSUME NEW s, Sane(s)
  PROVE  Keeps(s, s) /\ \A t : XOnly(s, t) => Keeps(s, t)
BY DEF Keeps, Sane, XOnly

\* What is sane after what is sane.
LEMMA KeepsTwice ==
  ASSUME NEW s, NEW t, NEW u, Keeps(s, t), Keeps(t, u)
  PROVE  Keeps(s, u)
BY DEF Keeps

\* Changes of one field of what ctwm knows.
LEMMA WmFields ==
  ASSUME NEW s, Sane(s)
  PROVE  /\ \A f \in Alive(s.wm) : /\ Keeps(s, [s EXCEPT !.wm.Focus = f])
                                   /\ [s EXCEPT !.wm.Focus = f].wm.Focus = f
                                   /\ Keeps(s, [s EXCEPT !.wm.enter_win = f])
                                   /\ Keeps(s, [s EXCEPT !.wm.raise_win = f])
                                   /\ Keeps(s, [s EXCEPT !.wm.leave_win = f])
                                   /\ Keeps(s, [s EXCEPT !.wm.lower_win = f])
         /\ \A b \in BOOLEAN : /\ Keeps(s, [s EXCEPT !.wm.FocusRoot = b])
                               /\ [s EXCEPT !.wm.FocusRoot = b].wm.Focus = s.wm.Focus
                               /\ Keeps(s, [s EXCEPT !.wm.enter_flag = b])
                               /\ Keeps(s, [s EXCEPT !.wm.leave_flag = b])
         /\ \A i \in SUBSET Win : Keeps(s, [s EXCEPT !.wm.isicon = i])
         /\ \A ws \in WorkSpace : Keeps(s, [s EXCEPT !.wm.ws = ws])
         /\ \A ws \in WorkSpace : \A f \in Alive(s.wm) :
              SaveWorkspaceFocus \/ f = None => Keeps(s, [s EXCEPT !.wm.save_focus[ws] = f])
         /\ \A r \in WinSeq : \A w \in Maybe :
              Range(r) \subseteq Win \ s.wm.gone /\ w \in Range(r) \cup {None} =>
                Keeps(s, [s EXCEPT !.wm.ring = r, !.wm.RingLeader = w])
         /\ \A w \in Maybe :
              w \in Range(s.wm.ring) \cup {None} => Keeps(s, [s EXCEPT !.wm.RingLeader = w])
<1> DEFINE m == s.wm
           SF == [WorkSpace -> Maybe]
           SW == SUBSET Win
           M == Maybe
           WS == WinSeq
<1>1. /\ s = [x |-> s.x, wm |-> m] /\ m \in WmType /\ SaneWm(m)
      /\ \A y \in WmType : [s EXCEPT !.wm = y] \in StateType /\ [s EXCEPT !.wm = y].wm = y
  BY DEF Sane, StateType
<1>2. WmType = [ Focus : M, FocusRoot : BOOLEAN, isicon : SW, gone : SW, ws : WorkSpace,
                 save_focus : SF, enter_flag : BOOLEAN, leave_flag : BOOLEAN, enter_win : M,
                 raise_win : M, leave_win : M, lower_win : M, ring : WS, RingLeader : M ]
  BY DEF WmType
<1>3. Alive(m) \subseteq M /\ None \in M
  BY DEF Alive, Maybe
<1>4. m.save_focus \in SF
  <2> HIDE DEF SF, SW, M, WS
  <2>1. QED
    BY <1>1, <1>2
<1>5. \A ws \in WorkSpace : \A f \in Alive(m) : [m.save_focus EXCEPT ![ws] = f] \in SF
  BY <1>3, <1>4
<1> HIDE DEF SF, SW, M, WS
<1>6. \A f \in M : /\ [m EXCEPT !.Focus = f] \in WmType /\ [m EXCEPT !.enter_win = f] \in WmType
                   /\ [m EXCEPT !.raise_win = f] \in WmType
  BY <1>1, <1>2
<1>7. \A f \in M : /\ [m EXCEPT !.leave_win = f] \in WmType /\ [m EXCEPT !.lower_win = f] \in WmType
                   /\ [m EXCEPT !.RingLeader = f] \in WmType
  BY <1>1, <1>2
<1>8. \A b \in BOOLEAN : /\ [m EXCEPT !.FocusRoot = b] \in WmType
                         /\ [m EXCEPT !.enter_flag = b] \in WmType
                         /\ [m EXCEPT !.leave_flag = b] \in WmType
  BY <1>1, <1>2
<1>9. /\ \A i \in SW : [m EXCEPT !.isicon = i] \in WmType
      /\ \A ws \in WorkSpace : [m EXCEPT !.ws = ws] \in WmType
      /\ \A g \in SF : [m EXCEPT !.save_focus = g] \in WmType
  BY <1>1, <1>2
<1>10. \A r \in WS : \A w \in M : [m EXCEPT !.ring = r, !.RingLeader = w] \in WmType
  BY <1>1, <1>2
<1>11. \A f \in Alive(m) : /\ Keeps(s, [s EXCEPT !.wm.Focus = f])
                           /\ [s EXCEPT !.wm.Focus = f].wm.Focus = f
                           /\ Keeps(s, [s EXCEPT !.wm.enter_win = f])
  <2>1. TAKE f \in Alive(m)
  <2>2. SaneWm([m EXCEPT !.Focus = f]) /\ SaneWm([m EXCEPT !.enter_win = f])
    BY <1>1, <1>3, <1>6 DEF SaneWm, Alive, WmType
  <2>3. /\ [m EXCEPT !.Focus = f].gone = m.gone /\ [m EXCEPT !.enter_win = f].gone = m.gone
        /\ [m EXCEPT !.Focus = f].Focus = f
    BY <1>1 DEF WmType
  <2>4. QED
    BY <1>1, <1>3, <1>6, <2>2, <2>3 DEF Keeps, Sane
<1>12. \A f \in Alive(m) : /\ Keeps(s, [s EXCEPT !.wm.raise_win = f])
                           /\ Keeps(s, [s EXCEPT !.wm.leave_win = f])
                           /\ Keeps(s, [s EXCEPT !.wm.lower_win = f])
  <2>1. TAKE f \in Alive(m)
  <2>2. /\ SaneWm([m EXCEPT !.raise_win = f]) /\ SaneWm([m EXCEPT !.leave_win = f])
        /\ SaneWm([m EXCEPT !.lower_win = f])
    <3>1. SaneWm([m EXCEPT !.raise_win = f])
      BY <1>1, <1>3, <1>6 DEF SaneWm, Alive, WmType
    <3>2. SaneWm([m EXCEPT !.leave_win = f])
      BY <1>1, <1>3, <1>7 DEF SaneWm, Alive, WmType
    <3>3. SaneWm([m EXCEPT !.lower_win = f])
      BY <1>1, <1>3, <1>7 DEF SaneWm, Alive, WmType
    <3>4. QED
      BY <3>1, <3>2, <3>3
  <2>3. /\ [m EXCEPT !.raise_win = f].gone = m.gone /\ [m EXCEPT !.leave_win = f].gone = m.gone
        /\ [m EXCEPT !.lower_win = f].gone = m.gone
    BY <1>1 DEF WmType
  <2>4. QED
    BY <1>1, <1>3, <1>6, <1>7, <2>2, <2>3 DEF Keeps, Sane
<1>13. \A b \in BOOLEAN : /\ Keeps(s, [s EXCEPT !.wm.FocusRoot = b])
                          /\ [s EXCEPT !.wm.FocusRoot = b].wm.Focus = s.wm.Focus
                          /\ Keeps(s, [s EXCEPT !.wm.enter_flag = b])
                          /\ Keeps(s, [s EXCEPT !.wm.leave_flag = b])
  <2>1. TAKE b \in BOOLEAN
  <2>2. /\ SaneWm([m EXCEPT !.FocusRoot = b]) /\ SaneWm([m EXCEPT !.enter_flag = b])
        /\ SaneWm([m EXCEPT !.leave_flag = b])
    BY <1>1, <1>8 DEF SaneWm, Alive, WmType
  <2>3. /\ [m EXCEPT !.FocusRoot = b].gone = m.gone /\ [m EXCEPT !.enter_flag = b].gone = m.gone
        /\ [m EXCEPT !.leave_flag = b].gone = m.gone /\ [m EXCEPT !.FocusRoot = b].Focus = m.Focus
    BY <1>1 DEF WmType
  <2>4. QED
    BY <1>1, <1>8, <2>2, <2>3 DEF Keeps, Sane
<1>14. /\ \A i \in SW : Keeps(s, [s EXCEPT !.wm.isicon = i])
       /\ \A ws \in WorkSpace : Keeps(s, [s EXCEPT !.wm.ws = ws])
  <2>1. /\ \A i \in SW : SaneWm([m EXCEPT !.isicon = i]) /\ [m EXCEPT !.isicon = i].gone = m.gone
        /\ \A ws \in WorkSpace : SaneWm([m EXCEPT !.ws = ws]) /\ [m EXCEPT !.ws = ws].gone = m.gone
    BY <1>1, <1>9 DEF SaneWm, Alive, WmType
  <2>2. QED
    BY <1>1, <1>9, <2>1 DEF Keeps, Sane
<1>15. \A ws \in WorkSpace : \A f \in Alive(m) :
         SaveWorkspaceFocus \/ f = None => Keeps(s, [s EXCEPT !.wm.save_focus[ws] = f])
  <2> SUFFICES ASSUME NEW ws \in WorkSpace, NEW f \in Alive(m), SaveWorkspaceFocus \/ f = None
               PROVE  Keeps(s, [s EXCEPT !.wm.save_focus[ws] = f])
    OBVIOUS
  <2> DEFINE g == [m.save_focus EXCEPT ![ws] = f]
             r == [m EXCEPT !.save_focus = g]
  <2>1. g \in SF /\ \A v \in WorkSpace : g[v] = IF v = ws THEN f ELSE m.save_focus[v]
    BY <1>4, <1>5 DEF SF
  <2> HIDE DEF g
  <2>2. r \in WmType /\ r.gone = m.gone /\ r.save_focus = g
    BY <1>1, <1>9, <2>1 DEF WmType
  <2>3. /\ r.Focus = m.Focus /\ r.enter_win = m.enter_win /\ r.raise_win = m.raise_win
        /\ r.leave_win = m.leave_win /\ r.lower_win = m.lower_win /\ r.ring = m.ring
        /\ r.RingLeader = m.RingLeader
    BY <1>1 DEF WmType
  <2>4. [s EXCEPT !.wm.save_focus[ws] = f] = [s EXCEPT !.wm = r]
    BY DEF g
  <2> HIDE DEF r
  <2>5. SaneWm(r)
    BY <1>1, <2>1, <2>2, <2>3 DEF SaneWm, Alive
  <2>6. QED
    BY <1>1, <2>2, <2>4, <2>5 DEF Keeps, Sane
<1>16. \A r \in WS : \A w \in M :
         Range(r) \subseteq Win \ m.gone /\ w \in Range(r) \cup {None} =>
           Keeps(s, [s EXCEPT !.wm.ring = r, !.wm.RingLeader = w])
  <2> SUFFICES ASSUME NEW r \in WS, NEW w \in M, Range(r) \subseteq Win \ m.gone,
                      w \in Range(r) \cup {None}
               PROVE  Keeps(s, [s EXCEPT !.wm.ring = r, !.wm.RingLeader = w])
    OBVIOUS
  <2> DEFINE n == [m EXCEPT !.ring = r, !.RingLeader = w]
  <2>1. n \in WmType /\ n.gone = m.gone /\ n.save_focus = m.save_focus
    BY <1>1, <1>10 DEF WmType
  <2>2. /\ n.Focus = m.Focus /\ n.enter_win = m.enter_win /\ n.raise_win = m.raise_win
        /\ n.leave_win = m.leave_win /\ n.lower_win = m.lower_win /\ n.ring = r
        /\ n.RingLeader = w
    BY <1>1 DEF WmType
  <2>3. [s EXCEPT !.wm.ring = r, !.wm.RingLeader = w] = [s EXCEPT !.wm = n]
    BY <1>1 DEF WmType
  <2> HIDE DEF n
  <2>4. SaneWm(n)
    BY <1>1, <2>1, <2>2 DEF SaneWm, Alive
  <2>5. QED
    BY <1>1, <2>1, <2>3, <2>4 DEF Keeps, Sane
<1>17. \A w \in M : w \in Range(m.ring) \cup {None} => Keeps(s, [s EXCEPT !.wm.RingLeader = w])
  <2> SUFFICES ASSUME NEW w \in M, w \in Range(m.ring) \cup {None}
               PROVE  Keeps(s, [s EXCEPT !.wm.RingLeader = w])
    OBVIOUS
  <2>1. SaneWm([m EXCEPT !.RingLeader = w]) /\ [m EXCEPT !.RingLeader = w].gone = m.gone
    BY <1>1, <1>7 DEF SaneWm, Alive, WmType
  <2>2. QED
    BY <1>1, <1>7, <2>1 DEF Keeps, Sane
<1>18. QED
  BY <1>11, <1>12, <1>13, <1>14, <1>15, <1>16, <1>17, Zenon DEF SW, M, WS

\* The windows that are there stay the same.
LEMMA KeepsAlive ==
  ASSUME NEW s, NEW t, Keeps(s, t)
  PROVE  /\ Sane(t) /\ Alive(t.wm) = Alive(s.wm) /\ managed(t) = managed(s)
         /\ None \in Alive(t.wm) /\ managed(t) \subseteq Alive(t.wm) /\ Alive(t.wm) \subseteq Maybe
         /\ managed(t) \subseteq Win /\ \A w \in Alive(t.wm) : w # None => w \in managed(t)
BY DEF Keeps, Alive, managed, Maybe

\* Sane states keep themselves.
LEMMA KeepsItself ==
  ASSUME NEW s, Sane(s)
  PROVE  /\ Keeps(s, s) /\ s \in StateType
         /\ None \in Alive(s.wm) /\ managed(s) \subseteq Alive(s.wm) /\ Alive(s.wm) \subseteq Maybe
         /\ managed(s) \subseteq Win /\ \A w \in Alive(s.wm) : w # None => w \in managed(s)
BY DEF Keeps, Sane, Alive, managed, Maybe

(***************************************************************************)
(* What the handlers call.                                                  *)
(***************************************************************************)
LEMMA SetFocusIs ==
  ASSUME NEW s, Sane(s), NEW f \in Alive(s.wm)
  PROVE  Keeps(s, SetFocus(s, f)) /\ SetFocus(s, f).wm.Focus \in {f, s.wm.Focus}
<1> DEFINE t == XSetInputFocus(s, f)
<1>1. f \in Maybe /\ s \in StateType /\ Keeps(s, s)
  BY KeepsItself
<1>2. XOnly(s, t)
  BY <1>1, XSetInputFocusIs
<1>3. Keeps(s, t)
  BY <1>2, XKeeps
<1> HIDE DEF t
<1>4. Sane(t) /\ f \in Alive(t.wm)
  BY <1>3, KeepsAlive
<1>5. Keeps(t, [t EXCEPT !.wm.Focus = f]) /\ [t EXCEPT !.wm.Focus = f].wm.Focus = f
  BY <1>4, WmFields
<1>6. Keeps(s, [t EXCEPT !.wm.Focus = f])
  BY <1>3, <1>5, KeepsTwice
<1>7. SetFocus(s, f) = IF SloppyFocus /\ f = None THEN s ELSE [t EXCEPT !.wm.Focus = f]
  BY DEF SetFocus, t
<1>8. QED
  BY <1>1, <1>5, <1>6, <1>7

\* f.unfocus, and a window with the focus that is destroyed.
LEMMA FocusOnRootIs ==
  ASSUME NEW s, Sane(s)
  PROVE  Keeps(s, FocusOnRoot(s)) /\ FocusOnRoot(s).wm.Focus \in {None, s.wm.Focus}
<1> DEFINE t == SetFocus(s, None)
           b == t.wm.FocusRoot \/ ~ClickToFocus
<1>1. Keeps(s, t) /\ t.wm.Focus \in {None, s.wm.Focus}
  BY KeepsItself, SetFocusIs
<1> HIDE DEF t
<1>2. Sane(t) /\ b \in BOOLEAN
  BY <1>1, KeepsAlive
<1>3. FocusOnRoot(s) = [t EXCEPT !.wm.FocusRoot = b]
  BY DEF FocusOnRoot, t
<1> HIDE DEF b
<1>4. Keeps(t, [t EXCEPT !.wm.FocusRoot = b]) /\ [t EXCEPT !.wm.FocusRoot = b].wm.Focus = t.wm.Focus
  BY <1>2, WmFields
<1>5. QED
  BY <1>1, <1>3, <1>4, KeepsTwice

\* A message to a client, and an event that ctwm puts back.
LEMMA TellClientIs ==
  ASSUME NEW s, Sane(s), NEW w \in Win
  PROVE  /\ Keeps(s, SendTakeFocusMessage(s, w))
         /\ \A k \in {"FocusIn", "FocusOut"} : Keeps(s, Synthesise(s, k, w))
<1>1. s \in StateType /\ w \in Maybe
  BY KeepsItself DEF Maybe
<1>2. XOnly(s, [s EXCEPT !.x.asked = w])
  BY <1>1, XFields
<1>3. ASSUME NEW k \in {"FocusIn", "FocusOut"} PROVE XOnly(s, Synthesise(s, k, w))
  <2> DEFINE e == FocusEvent(k, w, "Pointer")
             q == <<e>> \o s.x.queue
  <2>1. e \in EventType
    BY Events DEF Detail
  <2>2. s.x.queue \in Seq(EventType)
    BY <1>1 DEF StateType, ServerType
  <2> HIDE DEF e
  <2>3. q \in Seq(EventType)
    BY <2>1, <2>2, EventSeqs
  <2>4. Synthesise(s, k, w) = [s EXCEPT !.x.queue = q]
    BY DEF Synthesise, e
  <2> HIDE DEF q
  <2>5. QED
    BY <1>1, <2>3, <2>4, XFields
<1>4. QED
  BY <1>2, <1>3, XKeeps DEF SendTakeFocusMessage

\* A window is raised under the pointer.
LEMMA AutoRaiseIs ==
  ASSUME NEW s, Sane(s), NEW w \in managed(s)
  PROVE  Keeps(s, AutoRaiseWindow(s, w))
<1> DEFINE t == XRaise(s, w)
           t1 == [t EXCEPT !.wm.enter_win = None]
           t2 == [t1 EXCEPT !.wm.enter_flag = TRUE]
           t3 == [t2 EXCEPT !.wm.raise_win = w]
<1>1. s \in StateType /\ w \in Win
  BY KeepsItself
<1>2. Keeps(s, t)
  BY <1>1, XMoves, XKeeps
<1> HIDE DEF t
<1>3. Keeps(t, t1)
  BY <1>2, KeepsAlive, WmFields
<1>4. Keeps(s, t1)
  BY <1>2, <1>3, KeepsTwice
<1>5. AutoRaiseWindow(s, w) = t3
  BY DEF AutoRaiseWindow, t
<1> HIDE DEF t1
<1>6. Keeps(t1, t2)
  BY <1>4, KeepsAlive, WmFields
<1>7. Keeps(s, t2)
  BY <1>4, <1>6, KeepsTwice
<1> HIDE DEF t2
<1>8. Sane(t2) /\ w \in Alive(t2.wm)
  BY <1>7, KeepsAlive
<1>9. Keeps(t2, t3)
  BY <1>8, WmFields
<1>10. QED
  BY <1>5, <1>7, <1>9, KeepsTwice

\* A window is lowered when the pointer has left it.
LEMMA AutoLowerIs ==
  ASSUME NEW s, Sane(s), NEW w \in managed(s)
  PROVE  Keeps(s, AutoLowerWindow(s, w))
<1> DEFINE t == XLower(s, w)
           t1 == [t EXCEPT !.wm.enter_win = None]
           t2 == [t1 EXCEPT !.wm.enter_flag = FALSE]
           t3 == [t2 EXCEPT !.wm.raise_win = None]
           t4 == [t3 EXCEPT !.wm.leave_win = None]
           t5 == [t4 EXCEPT !.wm.leave_flag = TRUE]
           t6 == [t5 EXCEPT !.wm.lower_win = w]
<1>1. s \in StateType /\ w \in Win
  BY KeepsItself
<1>2. Keeps(s, t)
  BY <1>1, XMoves, XKeeps
<1>3. AutoLowerWindow(s, w) = t6
  BY DEF AutoLowerWindow
<1> HIDE DEF t
<1>4. Keeps(s, t1)
  BY <1>2, KeepsAlive, WmFields, KeepsTwice
<1> HIDE DEF t1
<1>5. Keeps(s, t2)
  BY <1>4, KeepsAlive, WmFields, KeepsTwice
<1> HIDE DEF t2
<1>6. Keeps(s, t3)
  BY <1>5, KeepsAlive, WmFields, KeepsTwice
<1> HIDE DEF t3
<1>7. Keeps(s, t4)
  BY <1>6, KeepsAlive, WmFields, KeepsTwice
<1> HIDE DEF t4
<1>8. Keeps(s, t5)
  BY <1>7, KeepsAlive, WmFields, KeepsTwice
<1> HIDE DEF t5
<1>9. Keeps(t5, t6)
  <2>1. Sane(t5) /\ w \in Alive(t5.wm)
    BY <1>8, KeepsAlive
  <2>2. QED
    BY <2>1, WmFields
<1>10. Keeps(s, t6)
  BY <1>8, <1>9, KeepsTwice
<1>11. QED
  BY <1>3, <1>10

\* Windows are raised before the pointer is warped to them.
LEMMA RaisedIs ==
  ASSUME NEW s, Sane(s), NEW w \in managed(s), NEW b
  PROVE  Keeps(s, Raised(s, w, b))
BY AutoRaiseIs, KeepsItself DEF Raised

\* A ring without a window, and a leader on it.
LEMMA UnlinkedRing ==
  ASSUME NEW s \in StateType, NEW w \in Win, s.wm.RingLeader \in Range(s.wm.ring) \cup {None}
  PROVE  \E r \in WinSeq : \E l \in Maybe :
           /\ Range(r) = Range(s.wm.ring) \ {w} /\ l \in Range(r) \cup {None}
           /\ UnlinkWindowFromRing(s, w) = [s EXCEPT !.wm.ring = r, !.wm.RingLeader = l]
<1> DEFINE m == s.wm
           r == RemoveFirst(m.ring, w)
           head == IF r = <<>> THEN None ELSE Head(r)
           l == IF r = <<>> \/ m.RingLeader = w THEN head ELSE m.RingLeader
<1>1. s = [x |-> s.x, wm |-> m] /\ m \in WmType /\ m.ring \in WinSeq /\ m.RingLeader \in Maybe
  BY DEF StateType, WmType
<1>2. r \in WinSeq /\ Range(r) = Range(m.ring) \ {w}
  BY <1>1, WinSeqMoves
<1>3. head \in Range(r) \cup {None}
  <2>1. CASE r = <<>>
    BY <2>1
  <2>2. CASE r # <<>>
    <3>1. r \in Seq(Win)
      BY <1>2, WinSeqIs
    <3> HIDE DEF r
    <3>2. Len(r) \in Nat /\ Len(r) # 0 /\ Head(r) = r[1]
      BY <2>2, <3>1, EmptySeq, HeadTailProperties
    <3>3. Head(r) \in Range(r)
      BY <3>1, <3>2, RangeIs
    <3>4. QED
      BY <2>2, <3>3
  <2>3. QED
    BY <2>1, <2>2
<1>4. Range(r) \subseteq Win
  <2>1. r \in Seq(Win)
    BY <1>2, WinSeqIs
  <2> HIDE DEF r
  <2>2. QED
    BY <2>1, RangeIs
<1>5. CASE w \in Range(m.ring)
  <2>1. UnlinkWindowFromRing(s, w) = [s EXCEPT !.wm.ring = r, !.wm.RingLeader = l]
    <3> DEFINE t == [s EXCEPT !.wm.ring = r]
    <3>1. t.wm.RingLeader = m.RingLeader
      <4> HIDE DEF r
      <4>1. QED
        BY <1>1 DEF WmType
    <3>2. UnlinkWindowFromRing(s, w) =
            [t EXCEPT !.wm.RingLeader = IF r = <<>> \/ t.wm.RingLeader = w THEN head ELSE t.wm.RingLeader]
      BY <1>5 DEF UnlinkWindowFromRing, WindowIsOnRing
    <3> HIDE DEF r, t
    <3>3. UnlinkWindowFromRing(s, w) = [t EXCEPT !.wm.RingLeader = l]
      BY <3>1, <3>2
    <3> HIDE DEF l
    <3>4. QED
      BY <3>3 DEF t
  <2>2. l \in Range(r) \cup {None}
    <3> HIDE DEF r, head
    <3>1. QED
      BY <1>1, <1>2, <1>3
  <2> HIDE DEF r, l
  <2>3. l \in Maybe
    BY <1>4, <2>2 DEF Maybe
  <2>4. QED
    BY <1>2, <2>1, <2>2, <2>3
<1>6. CASE w \notin Range(m.ring)
  <2> DEFINE q == m.ring
             k == m.RingLeader
  <2>1. UnlinkWindowFromRing(s, w) = s
    BY <1>6 DEF UnlinkWindowFromRing, WindowIsOnRing
  <2>2. s = [s EXCEPT !.wm.ring = q, !.wm.RingLeader = k]
    BY <1>1 DEF WmType
  <2>3. Range(q) = Range(m.ring) \ {w} /\ k \in Range(q) \cup {None} /\ q \in WinSeq /\ k \in Maybe
    BY <1>1, <1>6
  <2> HIDE DEF q, k
  <2>4. QED
    BY <2>1, <2>2, <2>3
<1>7. QED
  BY <1>5, <1>6

\* f.ring takes a window off the ring.
LEMMA UnlinkIs ==
  ASSUME NEW s, Sane(s), NEW w \in Win
  PROVE  Keeps(s, UnlinkWindowFromRing(s, w))
<1>1. /\ s \in StateType /\ s.wm.RingLeader \in Range(s.wm.ring) \cup {None}
      /\ Range(s.wm.ring) \subseteq Win \ s.wm.gone
  BY DEF Sane, SaneWm
<1>2. PICK r \in WinSeq, l \in Maybe :
        /\ Range(r) = Range(s.wm.ring) \ {w} /\ l \in Range(r) \cup {None}
        /\ UnlinkWindowFromRing(s, w) = [s EXCEPT !.wm.ring = r, !.wm.RingLeader = l]
  BY <1>1, UnlinkedRing
<1>3. Range(r) \subseteq Win \ s.wm.gone
  BY <1>1, <1>2
<1>4. Keeps(s, [s EXCEPT !.wm.ring = r, !.wm.RingLeader = l])
  BY <1>2, <1>3, WmFields
<1>5. QED
  BY <1>2, <1>4

\* f.ring puts a window on the ring, that was not on it.
LEMMA AddToRingIs ==
  ASSUME NEW s, Sane(s), NEW w \in managed(s), ~WindowIsOnRing(s, w)
  PROVE  Keeps(s, AddWindowToRing(s, w))
<1> DEFINE q == s.wm.ring
           r == IF q = <<>> THEN <<w>> ELSE <<Head(q), w>> \o Tail(q)
           l == s.wm.RingLeader
<1>1. /\ s \in StateType /\ l \in Range(q) \cup {None} /\ q \in WinSeq /\ l \in Maybe
      /\ Range(q) \subseteq Win \ s.wm.gone /\ w \in Win \ s.wm.gone /\ w \notin Range(q)
      /\ s = [x |-> s.x, wm |-> s.wm] /\ s.wm \in WmType
  BY DEF Sane, SaneWm, StateType, WmType, managed, WindowIsOnRing
<1>2. q \in Seq(Win) /\ IsInjective(q)
  BY <1>1, WinSeqIs
<1>3. r \in WinSeq /\ Range(r) = Range(q) \cup {w}
  <2>1. CASE q = <<>>
    <3>1. r = <<w>> /\ Range(q) = {}
      BY <2>1 DEF Range
    <3>2. <<w>> \in Seq(Win) /\ IsInjective(<<w>>) /\ Range(<<w>>) = {w}
      BY <1>1 DEF IsInjective, Range
    <3> HIDE DEF r
    <3>3. QED
      BY <3>1, <3>2, WinSeqIs
  <2>2. CASE q # <<>>
    <3> DEFINE h == Head(q)
               t == Tail(q)
               two == <<h, w>>
    <3>1. /\ h \in Win /\ t \in Seq(Win) /\ Len(t) = Len(q) - 1 /\ h = q[1]
          /\ \A i \in 1 .. Len(t) : t[i] = q[i + 1]
          /\ Len(q) \in Nat \ {0} /\ DOMAIN q = 1 .. Len(q)
      BY <1>2, <2>2, HeadTailProperties, LenProperties, EmptySeq
    <3>2. two \in Seq(Win) /\ Range(two) = {h, w} /\ (h # w => IsInjective(two))
      BY <1>1, <3>1 DEF Range, IsInjective
    <3>3. r = two \o t
      BY <2>2
    <3> HIDE DEF r, h, t, two
    <3>4. DOMAIN t = 1 .. Len(t) /\ Len(t) \in Nat
      BY <3>1, LenProperties
    <3>5. IsInjective(t)
      <4>1. ASSUME NEW i \in 1 .. Len(t), NEW j \in 1 .. Len(t), t[i] = t[j] PROVE i = j
        <5>1. q[i + 1] = q[j + 1] /\ i + 1 \in DOMAIN q /\ j + 1 \in DOMAIN q
          BY <3>1, <4>1
        <5> HIDE DEF q
        <5>2. i + 1 = j + 1
          BY <1>2, <5>1 DEF IsInjective
        <5>3. QED
          BY <3>4, <5>2
      <4>2. QED
        BY <3>4, <4>1 DEF IsInjective
    <3>6. h \in Range(q) /\ h \notin Range(t)
      <4>1. h \in Range(q)
        BY <3>1 DEF Range
      <4>2. \A i \in 1 .. Len(t) : t[i] # h
        BY <1>2, <3>1 DEF IsInjective
      <4>3. QED
        BY <3>4, <4>1, <4>2 DEF Range
    <3>7. Range(t) \subseteq Range(q) /\ \A e \in Range(q) : e # h => e \in Range(t)
      BY <1>2, <2>2, TailRange DEF h, t
    <3>8. Range(two) \cap Range(t) = {} /\ IsInjective(two)
      BY <1>1, <3>2, <3>6, <3>7
    <3>9. r \in Seq(Win) /\ IsInjective(r) /\ Range(r) = Range(two) \cup Range(t)
      BY <3>1, <3>2, <3>3, <3>5, <3>8, ConcatRange, ConcatInjective
    <3>10. Range(r) = Range(q) \cup {w}
      BY <3>2, <3>6, <3>7, <3>9
    <3>11. QED
      BY <3>9, <3>10, WinSeqIs
  <2>3. QED
    BY <2>1, <2>2
<1>4. AddWindowToRing(s, w) = [s EXCEPT !.wm.ring = r]
  BY DEF AddWindowToRing
<1> HIDE DEF r
<1>5. [s EXCEPT !.wm.ring = r] = [s EXCEPT !.wm.ring = r, !.wm.RingLeader = l]
  BY <1>1 DEF WmType
<1>6. Range(r) \subseteq Win \ s.wm.gone /\ l \in Range(r) \cup {None}
  BY <1>1, <1>3
<1> HIDE DEF l
<1>7. Keeps(s, [s EXCEPT !.wm.ring = r, !.wm.RingLeader = l])
  BY <1>1, <1>3, <1>6, WmFields
<1>8. QED
  BY <1>4, <1>5, <1>7

\* A workspace is shown: the focus goes to a window that is there.
LEMMA LastWindowIs ==
  ASSUME NEW s, Sane(s)
  PROVE  get_last_window(s) \in Alive(s.wm) /\ Keeps(s, set_last_window(s))
<1> DEFINE here == {w \in managed(s) : s.wm.ws \in Occupation[w]}
           T == {i \in 1 .. Len(FirstWindow) : FirstWindow[i] \in here \ s.wm.isicon}
           first == IF T # {} THEN Min(T) ELSE 0
<1>1. get_last_window(s) = IF s.wm.Focus \in here THEN s.wm.Focus
                           ELSE IF first = 0 THEN None ELSE FirstWindow[first]
  BY DEF get_last_window, SelectInSeq
<1>2. here \subseteq Alive(s.wm) /\ None \in Alive(s.wm)
  BY DEF managed, Alive
<1>3. ASSUME T = {} PROVE get_last_window(s) \in Alive(s.wm)
  <2>1. first = 0
    BY <1>3
  <2> HIDE DEF first, here
  <2>2. QED
    BY <1>1, <1>2, <2>1
<1>4. ASSUME T # {} PROVE get_last_window(s) \in Alive(s.wm)
  <2>1. Len(FirstWindow) \in Nat /\ T \in SUBSET (1 .. Len(FirstWindow))
    BY AttentionAssumption, LenProperties
  <2>2. first \in T
    <3> HIDE DEF T
    <3>1. QED
      BY <1>4, <2>1, FirstIndex
  <2> HIDE DEF first
  <2>3. FirstWindow[first] \in here
    BY <2>2
  <2> HIDE DEF here
  <2>4. QED
    BY <1>1, <1>2, <2>3
<1>5. get_last_window(s) \in Alive(s.wm)
  BY <1>3, <1>4
<1>6. QED
  BY <1>5, SetFocusIs, KeepsItself DEF set_last_window

\* Mapping and unmapping windows is the server's business.
LEMMA RemappedKeeps ==
  ASSUME NEW s, Sane(s), NEW t, Keeps(s, t)
  PROVE  Keeps(s, Remapped(s, t))
<1>1. s \in StateType /\ t \in StateType
  BY DEF Keeps, Sane
<1>2. XOnly(t, Remapped(s, t))
  BY <1>1, RemappedIs
<1>3. Keeps(t, Remapped(s, t))
  BY <1>2, XKeeps DEF Keeps
<1>4. QED
  BY <1>3, KeepsTwice

\* Warping to a window that is shown.
LEMMA WarpHereIs ==
  ASSUME NEW s, Sane(s), NEW w \in managed(s), NEW b
  PROVE  Keeps(s, SetFocus(XWarpPointer(s, WarpPoint[w]), w)) /\ Keeps(s, WarpHere(s, w, b))
<1>1. ASSUME NEW t, Keeps(s, t) PROVE Keeps(s, SetFocus(XWarpPointer(t, WarpPoint[w]), w))
  <2> DEFINE u == XWarpPointer(t, WarpPoint[w])
  <2>1. w \in Win /\ WarpPoint[w] \in Point /\ t \in StateType
    BY <1>1, KeepsItself, AttentionAssumption DEF Keeps, Sane
  <2>2. XOnly(t, u)
    BY <2>1, XMoves
  <2> HIDE DEF u
  <2>3. Keeps(t, u)
    BY <1>1, <2>2, XKeeps DEF Keeps
  <2>4. Keeps(s, u)
    BY <1>1, <2>3, KeepsTwice
  <2>5. Sane(u) /\ w \in Alive(u.wm)
    BY <2>4, KeepsAlive
  <2>6. Keeps(u, SetFocus(u, w))
    BY <2>5, SetFocusIs
  <2>7. QED
    BY <2>4, <2>6, KeepsTwice DEF u
<1>2. Keeps(s, s) /\ Keeps(s, Raised(s, w, b))
  BY KeepsItself, RaisedIs
<1>3. QED
  BY <1>1, <1>2 DEF WarpHere

\* The focus that is saved for a workspace is of a window that is there.
LEMMA GotoIs ==
  ASSUME NEW s, Sane(s), NEW ws \in WorkSpace
  PROVE  Keeps(s, GotoWorkSpace(s, ws))
<1> DEFINE saved == IF SaveWorkspaceFocus
                    THEN [s EXCEPT !.wm.save_focus[s.wm.ws] = s.wm.Focus] ELSE s
           t == [saved EXCEPT !.wm.ws = ws]
           shown == Remapped(s, t)
           back == shown.wm.save_focus[ws]
           unsaved == [shown EXCEPT !.wm.save_focus[ws] = None]
           warped == IF ~SaveWorkspaceFocus \/ back = None THEN shown
                     ELSE IF ws \in Occupation[back] THEN WarpHere(shown, back, FALSE)
                     ELSE unsaved
<1>1. s.wm.ws \in WorkSpace /\ s.wm.Focus \in Alive(s.wm) /\ Keeps(s, s)
  BY KeepsItself DEF Sane, SaneWm, WmType
<1>2. Keeps(s, saved)
  <2>1. SaveWorkspaceFocus => Keeps(s, [s EXCEPT !.wm.save_focus[s.wm.ws] = s.wm.Focus])
    BY <1>1, WmFields
  <2>2. QED
    BY <1>1, <2>1
<1>3. GotoWorkSpace(s, ws) = IF ws = s.wm.ws THEN s ELSE set_last_window(warped)
  BY DEF GotoWorkSpace
<1> HIDE DEF saved
<1>4. Keeps(s, t)
  <2>1. Keeps(saved, t)
    BY <1>2, KeepsAlive, WmFields
  <2>2. QED
    BY <1>2, <2>1, KeepsTwice
<1> HIDE DEF t
<1>5. Keeps(s, shown)
  BY <1>4, RemappedKeeps
<1> HIDE DEF shown
<1>6. Sane(shown) /\ back \in Alive(shown.wm) /\ None \in Alive(shown.wm)
  BY <1>5, KeepsAlive DEF Sane, SaneWm
<1>7. back # None => back \in managed(shown)
  BY <1>6, KeepsItself
<1> HIDE DEF back
<1>8. back # None => Keeps(shown, WarpHere(shown, back, FALSE))
  BY <1>6, <1>7, WarpHereIs
<1>9. Keeps(shown, unsaved)
  BY <1>6, WmFields
<1> HIDE DEF unsaved
<1>10. Keeps(shown, warped)
  BY <1>6, <1>8, <1>9, KeepsItself
<1> HIDE DEF warped
<1>11. Keeps(s, warped)
  BY <1>5, <1>10, KeepsTwice
<1>12. Keeps(warped, set_last_window(warped))
  BY <1>11, LastWindowIs DEF Keeps
<1>13. QED
  BY <1>1, <1>3, <1>11, <1>12, KeepsTwice

\* Warping to a window, in whatever workspace it is.
LEMMA WarpToWindowIs ==
  ASSUME NEW s, Sane(s), NEW w \in managed(s), NEW b
  PROVE  Keeps(s, WarpToWindow(s, w, b))
<1> DEFINE up == Raised(s, w, b)
           ws == CHOOSE v \in Occupation[w] : TRUE
           there == IF up.wm.ws \in Occupation[w] THEN up ELSE GotoWorkSpace(up, ws)
<1>1. Keeps(s, up)
  BY RaisedIs
<1>2. ws \in WorkSpace
  <2>1. w \in Win
    BY KeepsItself
  <2>2. Occupation[w] \in SUBSET WorkSpace /\ Occupation[w] # {}
    BY <2>1, AttentionAssumption
  <2>3. QED
    BY <2>2
<1>3. WarpToWindow(s, w, b) = SetFocus(XWarpPointer(there, WarpPoint[w]), w)
  BY DEF WarpToWindow
<1> HIDE DEF up, ws
<1>4. Keeps(up, GotoWorkSpace(up, ws))
  BY <1>1, <1>2, GotoIs DEF Keeps
<1>5. Keeps(s, there)
  BY <1>1, <1>4, KeepsTwice
<1> HIDE DEF there
<1>6. Sane(there) /\ w \in managed(there)
  BY <1>5, KeepsAlive
<1>7. Keeps(there, SetFocus(XWarpPointer(there, WarpPoint[w]), w))
  BY <1>6, WarpHereIs
<1>8. QED
  BY <1>3, <1>5, <1>7, KeepsTwice

\* An icon becomes a window again, on top.
LEMMA DeIconifyIs ==
  ASSUME NEW s, Sane(s), NEW w \in managed(s)
  PROVE  Keeps(s, DeIconify(s, w))
<1> DEFINE icons == s.wm.isicon \ {w}
           t == [s EXCEPT !.wm.isicon = icons]
           q == <<w>> \o RemoveFirst(s.x.stack, w)
           u == [t EXCEPT !.x.stack = q]
<1>1. s \in StateType /\ w \in Win
  BY KeepsItself
<1>2. icons \in SUBSET Win /\ s.x.stack \in WinSeq /\ t.x = s.x
  BY <1>1 DEF StateType, WmType, ServerType
<1>3. q \in WinSeq
  BY <1>1, <1>2, WinSeqMoves
<1>4. Keeps(s, t)
  BY <1>2, WmFields
<1>5. DeIconify(s, w) = Remapped(s, u)
  BY <1>2 DEF DeIconify
<1> HIDE DEF icons, t, q
<1>6. XOnly(t, u)
  BY <1>3, <1>4, XFields DEF Keeps, Sane
<1>7. Keeps(t, u)
  BY <1>4, <1>6, XKeeps DEF Keeps
<1>8. Keeps(s, u)
  BY <1>4, <1>7, KeepsTwice
<1>9. QED
  BY <1>5, <1>8, RemappedKeeps

(***************************************************************************)
(* The handlers of events.                                                  *)
(***************************************************************************)

\* The focus follows the pointer into the frame or the client of a window.
LEMMA EnterIs ==
  ASSUME NEW s, Sane(s), NEW w \in managed(s), NEW e
  PROVE  Keeps(s, EnterFrame(s, e, w)) /\ Keeps(s, EnterClient(s, e, w))
<1>1. w \in Win /\ Keeps(s, s)
  BY KeepsItself
<1>2. ASSUME NEW t, Keeps(s, t)
      PROVE  /\ Keeps(s, SetFocus(t, w)) /\ Keeps(s, SendTakeFocusMessage(t, w))
             /\ Keeps(s, Synthesise(t, "FocusIn", w))
  <2>1. Sane(t) /\ w \in Alive(t.wm)
    BY <1>2, KeepsAlive
  <2>2. /\ Keeps(t, SetFocus(t, w)) /\ Keeps(t, SendTakeFocusMessage(t, w))
        /\ Keeps(t, Synthesise(t, "FocusIn", w))
    BY <1>1, <2>1, SetFocusIs, TellClientIs
  <2>3. QED
    BY <1>2, <2>2, KeepsTwice
<1>3. Keeps(s, EnterFrame(s, e, w))
  <2> DEFINE t == IF w \in Input /\ TitleFocus THEN SetFocus(s, w) ELSE s
  <2>1. Keeps(s, t)
    BY <1>1, <1>2
  <2>2. EnterFrame(s, e, w) \in {SendTakeFocusMessage(t, w), Synthesise(t, "FocusIn", w), t}
    <3>1. TitleFocus \in BOOLEAN
      BY AttentionAssumption
    <3> HIDE DEF t
    <3>2. QED
      BY <3>1 DEF EnterFrame, t
  <2> HIDE DEF t
  <2>3. QED
    BY <1>2, <2>1, <2>2
<1>4. Keeps(s, EnterClient(s, e, w))
  <2> DEFINE told == IF e.focus THEN Synthesise(s, "FocusIn", w) ELSE s
             t == IF w \in Input THEN SetFocus(told, w) ELSE told
  <2>1. Keeps(s, told)
    BY <1>1, <1>2
  <2>2. EnterClient(s, e, w) \in {told, SendTakeFocusMessage(t, w)}
    BY DEF EnterClient
  <2> HIDE DEF told
  <2>3. Keeps(s, t)
    BY <1>2, <2>1
  <2> HIDE DEF t
  <2>4. QED
    BY <1>2, <2>1, <2>2, <2>3
<1>5. QED
  BY <1>3, <1>4

\* What the pointer has come to is to be raised, and leads the ring if it is on it.
LEMMA EnterForRaiseIs ==
  ASSUME NEW s, Sane(s), NEW w \in managed(s)
  PROVE  Keeps(s, EnterForRaise(s, w)) /\ Keeps(s, EnterForRing(s, w))
<1> DEFINE t == [s EXCEPT !.wm.enter_win = w]
<1>1. w \in Alive(s.wm) /\ Keeps(s, s)
  BY KeepsItself
<1>2. Keeps(s, t)
  BY <1>1, WmFields
<1>3. EnterForRaise(s, w) \in {t, AutoRaiseWindow(t, w), s}
  BY DEF EnterForRaise
<1> HIDE DEF t
<1>4. Keeps(s, AutoRaiseWindow(t, w))
  <2>1. Sane(t) /\ w \in managed(t)
    BY <1>2, KeepsAlive
  <2>2. Keeps(t, AutoRaiseWindow(t, w))
    BY <2>1, AutoRaiseIs
  <2>3. QED
    BY <1>2, <2>2, KeepsTwice
<1>5. Keeps(s, EnterForRing(s, w))
  <2>1. ASSUME w \in Range(s.wm.ring) PROVE Keeps(s, [s EXCEPT !.wm.RingLeader = w])
    <3>1. w \in Maybe /\ w \in Range(s.wm.ring) \cup {None}
      BY <1>1, <2>1, KeepsItself
    <3>2. QED
      BY <3>1, WmFields
  <2>2. QED
    BY <1>1, <2>1 DEF EnterForRing, WindowIsOnRing
<1>6. QED
  BY <1>1, <1>2, <1>3, <1>4, <1>5

\* EnterNotify, of the root, of a window and of one that is no more.
LEMMA HandleEnterIs ==
  ASSUME NEW s, Sane(s), NEW e, e.area \in Area
  PROVE  Keeps(s, HandleEnterNotify(s, e))
<1> DEFINE w == e.area.win
           go == s.wm.FocusRoot /\ ~MovesOn(s, e.area) /\ w \notin s.wm.isicon
           t == IF go
                THEN IF e.area.part = "frame" THEN EnterFrame(s, e, w) ELSE EnterClient(s, e, w)
                ELSE s
           u == EnterForRing(EnterForRaise(t, w), w)
           v == IF s.wm.FocusRoot /\ s.x.focus # None THEN SetFocus(s, None) ELSE s
<1>1. w \in Maybe /\ Keeps(s, s) /\ None \in Alive(s.wm)
  BY KeepsItself DEF Area, Maybe
<1>2. HandleEnterNotify(s, e) = CASE w = None -> v [] w \in s.wm.gone -> s [] OTHER -> u
  BY DEF HandleEnterNotify
<1>3. Keeps(s, v)
  BY <1>1, SetFocusIs
<1>4. ASSUME w # None, w \notin s.wm.gone PROVE Keeps(s, u)
  <2>1. w \in managed(s)
    BY <1>1, <1>4 DEF managed, Maybe
  <2>2. Keeps(s, t)
    BY <1>1, <2>1, EnterIs
  <2> HIDE DEF t, w
  <2>3. Sane(t) /\ w \in managed(t)
    BY <2>1, <2>2, KeepsAlive
  <2> DEFINE y == EnterForRaise(t, w)
  <2>4. Keeps(t, y)
    BY <2>3, EnterForRaiseIs
  <2> HIDE DEF y
  <2>5. Sane(y) /\ w \in managed(y)
    BY <2>3, <2>4, KeepsAlive
  <2>6. Keeps(y, EnterForRing(y, w))
    BY <2>5, EnterForRaiseIs
  <2>7. QED
    BY <2>2, <2>4, <2>6, KeepsTwice DEF y
<1>5. s.wm.gone \subseteq Win /\ None \notin Win
  BY AttentionAssumption DEF Sane, SaneWm, WmType
<1> HIDE DEF u, v, w
<1>6. QED
  BY <1>1, <1>2, <1>3, <1>4, <1>5

\* The pointer leaves a frame.
LEMMA LeaveIs ==
  ASSUME NEW s, Sane(s), NEW w \in managed(s) \cup {None}, NEW e, e.area.part = "frame" => w # None
  PROVE  Keeps(s, LeaveFrame(s, e, w)) /\ Keeps(s, LeaveForLower(s, w))
<1>1. /\ w \in Alive(s.wm) /\ w \in Maybe /\ Keeps(s, s) /\ None \in Alive(s.wm)
      /\ w # None => w \in Win /\ w \in managed(s)
  BY KeepsItself DEF Maybe
<1>2. Keeps(s, LeaveFrame(s, e, w))
  <2> DEFINE t == IF TitleFocus \/ w \in DoesWmTakeFocus THEN SetFocus(s, None) ELSE s
  <2>1. Keeps(s, t)
    BY <1>1, SetFocusIs
  <2>2. \/ LeaveFrame(s, e, w) \in {s, t}
        \/ e.area.part = "frame" /\ LeaveFrame(s, e, w) = Synthesise(t, "FocusOut", w)
    BY DEF LeaveFrame
  <2> HIDE DEF t
  <2>3. ASSUME w \in Win PROVE Keeps(s, Synthesise(t, "FocusOut", w))
    <3>1. Keeps(t, Synthesise(t, "FocusOut", w))
      BY <2>1, <2>3, TellClientIs DEF Keeps
    <3>2. QED
      BY <2>1, <3>1, KeepsTwice
  <2>4. QED
    BY <1>1, <2>1, <2>2, <2>3
<1>3. Keeps(s, LeaveForLower(s, w))
  <2> DEFINE t == [s EXCEPT !.wm.leave_win = w]
  <2>1. Keeps(s, t)
    BY <1>1, WmFields
  <2>2. \/ LeaveForLower(s, w) \in {t, s}
        \/ w \in AutoLower /\ LeaveForLower(s, w) = AutoLowerWindow(t, w)
    BY DEF LeaveForLower
  <2> HIDE DEF t
  <2>3. ASSUME w \in AutoLower PROVE Keeps(s, AutoLowerWindow(t, w))
    <3>1. w \in managed(s)
      BY <1>1, <2>3, AttentionAssumption
    <3>2. Sane(t) /\ w \in managed(t)
      BY <2>1, <3>1, KeepsAlive
    <3>3. Keeps(t, AutoLowerWindow(t, w))
      BY <3>2, AutoLowerIs
    <3>4. QED
      BY <2>1, <3>3, KeepsTwice
  <2>4. QED
    BY <1>1, <2>1, <2>2, <2>3
<1>4. QED
  BY <1>2, <1>3

\* LeaveNotify: the ring has no leader when the pointer is in no window.
LEMMA HandleLeaveIs ==
  ASSUME NEW s, Sane(s), NEW e, e.area \in Area
  PROVE  Keeps(s, HandleLeaveNotify(s, e))
<1> DEFINE w == e.area.win
           led == IF s.wm.RingLeader = w /\ e.detail # "Inferior" /\ e.area.part # "client"
                  THEN [s EXCEPT !.wm.RingLeader = None] ELSE s
           t == LeaveFrame(led, e, w)
<1>1. w \in Maybe /\ Keeps(s, s) /\ None \in Maybe /\ (e.area.part = "frame" => w # None)
  BY KeepsItself, AttentionAssumption DEF Area, Maybe
<1>2. Keeps(s, led)
  <2>1. Keeps(s, [s EXCEPT !.wm.RingLeader = None])
    BY <1>1, WmFields
  <2>2. QED
    BY <1>1, <2>1
<1>3. HandleLeaveNotify(s, e) = IF w \in s.wm.gone THEN s ELSE LeaveForLower(t, w)
  BY DEF HandleLeaveNotify
<1> HIDE DEF led, w
<1>4. CASE w \notin s.wm.gone
  <2>1. w \in managed(s) \cup {None}
    BY <1>1, <1>4 DEF managed, Maybe
  <2>2. Sane(led) /\ w \in managed(led) \cup {None}
    BY <1>2, <2>1, KeepsAlive
  <2>3. Keeps(led, t)
    BY <1>1, <2>2, LeaveIs
  <2> HIDE DEF t
  <2>4. Sane(t) /\ w \in managed(t) \cup {None}
    BY <2>2, <2>3, KeepsAlive
  <2>5. Keeps(t, LeaveForLower(t, w))
    BY <1>1, <2>4, LeaveIs
  <2>6. QED
    BY <1>2, <1>3, <1>4, <2>3, <2>5, KeepsTwice
<1>5. QED
  BY <1>1, <1>3, <1>4

\* The focus events of one window that are waiting are handled at once.
LEMMA HandleFocusChangeIs ==
  ASSUME NEW s, Sane(s), NEW e, e.area \in Area
  PROVE  Keeps(s, HandleFocusChange(s, e))
<1> DEFINE w == e.area.win
           mine(f) == f.type \in {"FocusIn", "FocusOut"} /\ f.area = e.area
           others == {f \in Range(s.x.queue) : ~mine(f)}
           q == Kept(s.x.queue, others)
           rest == [s EXCEPT !.x.queue = q]
<1>1. s \in StateType /\ Keeps(s, s) /\ w \in Maybe
  BY KeepsItself DEF Area, Maybe
<1>2. q \in Seq(EventType)
  <2> DEFINE E == EventType
             old == s.x.queue
             S == others
  <2>1. old \in Seq(E)
    BY <1>1 DEF StateType, ServerType
  <2> HIDE DEF E, old, S
  <2>2. Kept(old, S) \in Seq(E)
    BY <2>1, KeptRange
  <2>3. QED
    BY <2>2 DEF E, old, S
<1>3. HandleFocusChange(s, e) \in {s, HandleFocusIn(rest, w), HandleFocusOut(rest, w)}
      /\ (w \in s.wm.gone => HandleFocusChange(s, e) = s)
  BY DEF HandleFocusChange
<1> HIDE DEF q, w
<1>4. Keeps(s, rest)
  BY <1>1, <1>2, XFields, XKeeps
<1> HIDE DEF rest
<1>5. ASSUME w \notin s.wm.gone
      PROVE  Keeps(rest, HandleFocusIn(rest, w)) /\ Keeps(rest, HandleFocusOut(rest, w))
  <2>1. w \in Alive(s.wm)
    BY <1>1, <1>5 DEF Alive, Maybe
  <2>2. Sane(rest) /\ w \in Alive(rest.wm) /\ None \in Alive(rest.wm) /\ Keeps(rest, rest)
    BY <1>4, <2>1, KeepsAlive, KeepsItself
  <2>3. Keeps(rest, [rest EXCEPT !.wm.Focus = w]) /\ Keeps(rest, [rest EXCEPT !.wm.Focus = None])
    BY <2>2, WmFields
  <2>4. QED
    BY <2>2, <2>3 DEF HandleFocusIn, HandleFocusOut
<1>6. QED
  BY <1>1, <1>3, <1>4, <1>5, KeepsTwice

\* remove_window_from_ring is what makes a state sane from which a window is
\* missing, if nothing else refers to it.
LEMMA ForgottenIs ==
  ASSUME NEW s \in StateType, NEW w \in Win,
         s.wm.Focus \in Alive(s.wm),
         \A ws \in WorkSpace : /\ s.wm.save_focus[ws] \in Alive(s.wm)
                               /\ SaveWorkspaceFocus \/ s.wm.save_focus[ws] = None,
         {s.wm.enter_win, s.wm.raise_win, s.wm.leave_win, s.wm.lower_win}
           \subseteq Alive(s.wm) \cup {w},
         Range(s.wm.ring) \subseteq (Win \ s.wm.gone) \cup {w},
         s.wm.RingLeader \in Range(s.wm.ring) \cup {None}, w \in s.wm.gone
  PROVE  Keeps(s, remove_window_from_ring(s, w))
<1> DEFINE m == s.wm
           not(v) == IF v = w THEN None ELSE v
           b1 == m.enter_flag /\ m.enter_win # w
           b2 == m.leave_flag /\ m.leave_win # w
           ew == not(m.enter_win)
           rw == not(m.raise_win)
           lw == not(m.leave_win)
           ow == not(m.lower_win)
           n == [m EXCEPT !.enter_flag = b1, !.enter_win = ew, !.raise_win = rw,
                          !.leave_flag = b2, !.leave_win = lw, !.lower_win = ow]
           t == [s EXCEPT !.wm = n]
<1>1. s = [x |-> s.x, wm |-> m] /\ m \in WmType /\ s.x \in ServerType
  BY DEF StateType
<1>2. remove_window_from_ring(s, w) = UnlinkWindowFromRing(t, w)
  <2> DEFINE u == [s EXCEPT !.wm.enter_flag = b1, !.wm.enter_win = ew, !.wm.raise_win = rw,
                            !.wm.leave_flag = b2, !.wm.leave_win = lw, !.wm.lower_win = ow]
  <2>1. remove_window_from_ring(s, w) = UnlinkWindowFromRing(u, w)
    BY DEF remove_window_from_ring
  <2>2. u = t
    <3> HIDE DEF b1, b2, ew, rw, lw, ow
    <3> DEFINE m1 == [m EXCEPT !.enter_flag = b1]
               m2 == [m1 EXCEPT !.enter_win = ew]
               m3 == [m2 EXCEPT !.raise_win = rw]
               m4 == [m3 EXCEPT !.leave_flag = b2]
               m5 == [m4 EXCEPT !.leave_win = lw]
               m6 == [m5 EXCEPT !.lower_win = ow]
               s1 == [s EXCEPT !.wm.enter_flag = b1]
               s2 == [s1 EXCEPT !.wm.enter_win = ew]
               s3 == [s2 EXCEPT !.wm.raise_win = rw]
               s4 == [s3 EXCEPT !.wm.leave_flag = b2]
               s5 == [s4 EXCEPT !.wm.leave_win = lw]
               s6 == [s5 EXCEPT !.wm.lower_win = ow]
    <3>1. u = s6 /\ t = [s EXCEPT !.wm = m6]
      OBVIOUS
    <3>2. s1 = [s EXCEPT !.wm = m1]
      BY <1>1
    <3> HIDE DEF u, t, m1, s1
    <3>3. s2 = [s EXCEPT !.wm = m2]
      BY <1>1, <3>2
    <3> HIDE DEF m2, s2
    <3>4. s3 = [s EXCEPT !.wm = m3]
      BY <1>1, <3>3
    <3> HIDE DEF m3, s3
    <3>5. s4 = [s EXCEPT !.wm = m4]
      BY <1>1, <3>4
    <3> HIDE DEF m4, s4
    <3>6. s5 = [s EXCEPT !.wm = m5]
      BY <1>1, <3>5
    <3> HIDE DEF m5, s5
    <3>7. s6 = [s EXCEPT !.wm = m6]
      BY <1>1, <3>6
    <3> HIDE DEF m6, s6
    <3>8. QED
      BY <3>1, <3>7
  <2>3. QED
    BY <2>1, <2>2
<1>3. /\ b1 \in BOOLEAN /\ b2 \in BOOLEAN
      /\ {ew, rw, lw, ow} \subseteq Alive(m) /\ Alive(m) \subseteq Maybe
  BY <1>1 DEF Alive, Maybe, WmType
<1> HIDE DEF b1, b2, ew, rw, lw, ow
<1>4. n \in WmType
  BY <1>1, <1>3 DEF WmType
<1>5. /\ n.enter_win = ew /\ n.raise_win = rw /\ n.leave_win = lw /\ n.lower_win = ow
      /\ n.Focus = m.Focus /\ n.gone = m.gone /\ n.save_focus = m.save_focus
      /\ n.ring = m.ring /\ n.RingLeader = m.RingLeader
  BY <1>1 DEF WmType
<1> HIDE DEF n
<1>6. t \in StateType /\ t.wm = n /\ t.x = s.x
  BY <1>1, <1>4 DEF StateType
<1> HIDE DEF t
<1>7. PICK r \in WinSeq, l \in Maybe :
        /\ Range(r) = Range(t.wm.ring) \ {w} /\ l \in Range(r) \cup {None}
        /\ UnlinkWindowFromRing(t, w) = [t EXCEPT !.wm.ring = r, !.wm.RingLeader = l]
  BY <1>5, <1>6, UnlinkedRing
<1> DEFINE o == [n EXCEPT !.ring = r, !.RingLeader = l]
<1>8. o \in WmType
  BY <1>4, <1>7 DEF WmType
<1>9. /\ o.enter_win = ew /\ o.raise_win = rw /\ o.leave_win = lw /\ o.lower_win = ow
      /\ o.Focus = m.Focus /\ o.gone = m.gone /\ o.save_focus = m.save_focus
      /\ o.ring = r /\ o.RingLeader = l
  BY <1>4, <1>5 DEF WmType
<1>10. UnlinkWindowFromRing(t, w) = [t EXCEPT !.wm = o]
  BY <1>6, <1>7
<1> HIDE DEF o
<1>11. [t EXCEPT !.wm = o] \in StateType /\ [t EXCEPT !.wm = o].wm = o
  BY <1>6, <1>8 DEF StateType
<1>12. Range(r) \subseteq Win \ m.gone
  BY <1>5, <1>6, <1>7
<1>13. Alive(o) = Alive(m)
  BY <1>9 DEF Alive
<1>14. SaneWm(o)
  BY <1>3, <1>7, <1>8, <1>9, <1>12, <1>13 DEF SaneWm
<1>15. QED
  BY <1>2, <1>9, <1>10, <1>11, <1>14 DEF Keeps, Sane

\* A window is destroyed: whatever refers to it is changed before the end, the
\* focus and the saved focus before the window is forgotten.
LEMMA DestroyIs ==
  ASSUME NEW s, Sane(s), NEW w \in managed(s)
  PROVE  Sane(HandleDestroyNotify(s, w))
<1> DEFINE s1 == [s EXCEPT !.wm.Focus = None]
           free == IF s.wm.Focus = w THEN FocusOnRoot(s1) ELSE s
           sf == [ws \in WorkSpace |-> IF free.wm.save_focus[ws] = w THEN None
                                       ELSE free.wm.save_focus[ws]]
           unsaved == IF SaveWorkspaceFocus THEN [free EXCEPT !.wm.save_focus = sf] ELSE free
           G == unsaved.wm.gone \cup {w}
           t == [unsaved EXCEPT !.wm.gone = G]
           gone == Remapped(unsaved, t)
           end == remove_window_from_ring(gone, w)
<1>1. Keeps(s, s) /\ None \in Alive(s.wm) /\ w \in Win /\ w # None /\ s \in StateType
  BY KeepsItself, AttentionAssumption
<1>2. Keeps(s, s1) /\ s1.wm.Focus = None
  BY <1>1, WmFields
<1>3. HandleDestroyNotify(s, w) = set_last_window(end)
  BY DEF HandleDestroyNotify
<1> HIDE DEF s1
<1>4. Keeps(s, free) /\ free.wm.Focus # w
  <2>1. Keeps(s1, FocusOnRoot(s1)) /\ FocusOnRoot(s1).wm.Focus = None
    BY <1>2, FocusOnRootIs DEF Keeps
  <2>2. QED
    BY <1>1, <1>2, <2>1, KeepsTwice
<1> HIDE DEF free
<1>5. Sane(free) /\ w \in managed(free) /\ Alive(free.wm) = Alive(s.wm)
  BY <1>4, KeepsAlive
<1> DEFINE m == free.wm
           A == Alive(m)
           F == [WorkSpace -> Maybe]
<1>6. free = [x |-> free.x, wm |-> m] /\ m \in WmType /\ SaneWm(m) /\ free \in StateType
      /\ A \subseteq Maybe /\ None \in A /\ m.save_focus \in F
  BY <1>5, KeepsItself DEF Sane, StateType, WmType
<1>7. sf \in F /\ \A ws \in WorkSpace : sf[ws] \in A \ {w}
  <2>1. \A ws \in WorkSpace : m.save_focus[ws] \in A
    BY <1>6 DEF SaneWm
  <2> HIDE DEF A, m
  <2>2. QED
    BY <1>1, <1>6, <2>1
<1> HIDE DEF sf, F
<1> DEFINE f == IF SaveWorkspaceFocus THEN sf ELSE m.save_focus
           n == [m EXCEPT !.save_focus = f]
<1>8. \A ws \in WorkSpace : /\ f[ws] \in A \ {w}
                            /\ SaveWorkspaceFocus \/ f[ws] = None
  BY <1>1, <1>6, <1>7 DEF SaneWm
<1>9. n \in WmType /\ n.save_focus = f /\ n.gone = m.gone
  BY <1>6, <1>7 DEF WmType, F
<1>10. /\ n.Focus = m.Focus /\ n.ring = m.ring /\ n.RingLeader = m.RingLeader
       /\ n.enter_win = m.enter_win /\ n.raise_win = m.raise_win
       /\ n.leave_win = m.leave_win /\ n.lower_win = m.lower_win
  BY <1>6 DEF WmType
<1>11. unsaved = [free EXCEPT !.wm = n]
  <2>1. CASE SaveWorkspaceFocus
    BY <2>1
  <2>2. CASE ~SaveWorkspaceFocus
    BY <1>6, <2>2 DEF WmType
  <2>3. QED
    BY <2>1, <2>2
<1> HIDE DEF n
<1>12. unsaved \in StateType /\ unsaved.wm = n
  BY <1>6, <1>9, <1>11 DEF StateType
<1> HIDE DEF unsaved
<1> DEFINE o == [n EXCEPT !.gone = G]
<1>13. G \in SUBSET Win /\ G = m.gone \cup {w}
  BY <1>1, <1>6, <1>9, <1>12 DEF WmType
<1> HIDE DEF G
<1>14. o \in WmType /\ o.gone = G
  BY <1>9, <1>13 DEF WmType
<1>15. /\ o.Focus = m.Focus /\ o.ring = m.ring /\ o.RingLeader = m.RingLeader
       /\ o.enter_win = m.enter_win /\ o.raise_win = m.raise_win
       /\ o.leave_win = m.leave_win /\ o.lower_win = m.lower_win /\ o.save_focus = f
  BY <1>9, <1>10 DEF WmType
<1>16. t \in StateType /\ t.wm = o
  <2>1. t = [unsaved EXCEPT !.wm = o]
    BY <1>12
  <2> HIDE DEF t, o
  <2>2. QED
    BY <1>12, <1>14, <2>1 DEF StateType
<1> HIDE DEF t, o
<1>17. gone \in StateType /\ gone.wm = o
  BY <1>12, <1>16, RemappedIs DEF XOnly
<1> HIDE DEF gone, f
<1>18. Alive(o) = A \ {w} /\ w \in A
  BY <1>1, <1>5, <1>13, <1>14 DEF Alive, managed
<1>19. /\ gone.wm.Focus \in Alive(gone.wm) /\ w \in gone.wm.gone
       /\ \A ws \in WorkSpace : /\ gone.wm.save_focus[ws] \in Alive(gone.wm)
                                /\ SaveWorkspaceFocus \/ gone.wm.save_focus[ws] = None
  <2>1. m.Focus \in A
    BY <1>6 DEF SaneWm
  <2>2. QED
    BY <1>4, <1>8, <1>13, <1>14, <1>15, <1>17, <1>18, <2>1
<1>20. /\ {gone.wm.enter_win, gone.wm.raise_win, gone.wm.leave_win, gone.wm.lower_win}
            \subseteq Alive(gone.wm) \cup {w}
       /\ Range(gone.wm.ring) \subseteq (Win \ gone.wm.gone) \cup {w}
       /\ gone.wm.RingLeader \in Range(gone.wm.ring) \cup {None}
  <2>1. /\ {m.enter_win, m.raise_win, m.leave_win, m.lower_win} \subseteq A
        /\ Range(m.ring) \subseteq Win \ m.gone /\ m.RingLeader \in Range(m.ring) \cup {None}
    BY <1>6 DEF SaneWm
  <2>2. QED
    BY <1>13, <1>14, <1>15, <1>17, <1>18, <2>1
<1>21. Keeps(gone, end)
  BY <1>1, <1>17, <1>19, <1>20, ForgottenIs
<1>22. QED
  BY <1>3, <1>21, LastWindowIs DEF Keeps

(***************************************************************************)
(* The functions.                                                           *)
(***************************************************************************)

\* The next window of the ring is on the ring.
LEMMA NextOnRingIs ==
  ASSUME NEW s, Sane(s), NEW head \in Range(s.wm.ring), NEW step \in {1, -1}
  PROVE  NextOnRing(s, head, step) \in Range(s.wm.ring)
<1> DEFINE r == s.wm.ring
           n == Len(r)
           at == CHOOSE i \in 1 .. n : r[i] = head
           nth(k) == r[((at - 1 + k * step) % n) + 1]
           fits(v) == v \notin s.wm.isicon
                      /\ (WarpRingAnyWhere \/ s.wm.ws \in Occupation[v])
           good == {k \in 1 .. n - 1 : fits(nth(k))}
           best == CHOOSE k \in good : \A l \in good : k <= l
<1>1. r \in Seq(Win)
  BY WinSeqIs DEF Sane, SaneWm, WmType
<1>2. NextOnRing(s, head, step) = IF good = {} THEN head ELSE nth(best)
  BY DEF NextOnRing
<1>3. n \in Nat /\ Range(r) = {r[i] : i \in 1 .. n}
  BY <1>1, RangeIs, LenProperties
<1>4. n # 0 /\ at \in 1 .. n
  <2>1. \E i \in 1 .. n : r[i] = head
    BY <1>3
  <2> HIDE DEF r, n
  <2>2. QED
    BY <1>3, <2>1
<1>5. \A k \in Int : ((at - 1 + k * step) % n) + 1 \in 1 .. n
  <2> HIDE DEF at, n
  <2>1. \A a \in Int : a % n \in 0 .. n - 1
    BY <1>3, <1>4
  <2>2. QED
    BY <1>3, <1>4, <2>1
<1>6. \A k \in Int : nth(k) \in Range(r)
  BY <1>3, <1>5
<1>7. good # {} => best \in Int
  <2>1. good \subseteq Nat /\ \A k \in good : k \in Int
    BY <1>3
  <2> HIDE DEF good, n
  <2>2. ASSUME good # {} PROVE \E k \in good : \A l \in good : k <= l
    <3>1. QED
      BY <2>1, <2>2, MinIsLeast
  <2>3. ASSUME good # {} PROVE best \in good
    <3> DEFINE P(k) == \A l \in good : k <= l
    <3>1. \E k \in good : P(k)
      BY <2>2, <2>3
    <3>2. best = CHOOSE k \in good : P(k)
      OBVIOUS
    <3> HIDE DEF P
    <3>3. QED
      BY <3>1, <3>2
  <2> HIDE DEF best
  <2>4. QED
    BY <2>1, <2>3
<1>8. QED
  BY <1>2, <1>6, <1>7

\* f.warpring goes on from the leader, or from the head of the ring.
LEMMA WarpAlongRingIs ==
  ASSUME NEW s, Sane(s), NEW step \in {1, -1}
  PROVE  Keeps(s, WarpAlongRing(s, step))
<1> DEFINE q == s.wm.ring
           head == IF s.wm.RingLeader # None THEN s.wm.RingLeader
                   ELSE IF q = <<>> THEN None ELSE Head(q)
           r == NextOnRing(s, head, step)
           t == [s EXCEPT !.wm.RingLeader = r]
<1>1. /\ q \in WinSeq /\ s.wm.RingLeader \in Range(q) \cup {None} /\ Keeps(s, s)
      /\ Range(q) \subseteq managed(s) /\ managed(s) \subseteq Win
  BY KeepsItself DEF Sane, SaneWm, WmType, managed
<1>2. head \in Range(q) \cup {None}
  <2>1. ASSUME q # <<>> PROVE Head(q) \in Range(q)
    <3>1. q \in Seq(Win)
      BY <1>1, WinSeqIs
    <3> HIDE DEF q
    <3>2. Len(q) \in Nat /\ Len(q) # 0 /\ Head(q) = q[1]
      BY <2>1, <3>1, EmptySeq, HeadTailProperties
    <3>3. QED
      BY <3>1, <3>2, RangeIs
  <2>2. QED
    BY <1>1, <2>1
<1>3. WarpAlongRing(s, step) \in {s, WarpToWindow(t, r, TRUE)}
      /\ (head = None => WarpAlongRing(s, step) = s)
  BY DEF WarpAlongRing
<1> HIDE DEF head
<1>4. CASE head # None
  <2>1. r \in Range(q)
    BY <1>2, <1>4, NextOnRingIs
  <2> HIDE DEF r
  <2>2. r \in managed(s) /\ r \in Maybe
    BY <1>1, <2>1 DEF Maybe
  <2>3. Keeps(s, t)
    BY <2>1, <2>2, WmFields
  <2> HIDE DEF t
  <2>4. Sane(t) /\ r \in managed(t)
    BY <2>2, <2>3, KeepsAlive
  <2>5. Keeps(t, WarpToWindow(t, r, TRUE))
    BY <2>4, WarpToWindowIs
  <2>6. QED
    BY <1>1, <1>3, <2>3, <2>5, KeepsTwice
<1>5. CASE head = None
  BY <1>1, <1>3, <1>5
<1>6. QED
  BY <1>4, <1>5

\* f.ring, f.focus, f.iconify, _NET_ACTIVE_WINDOW and a button in a window.
LEMMA FunctionsOfWindow ==
  ASSUME NEW s, Sane(s), NEW w \in managed(s)
  PROVE  /\ Keeps(s, ring(s, w)) /\ Keeps(s, focus(s, w)) /\ Keeps(s, iconify(s, w))
         /\ Keeps(s, Activate(s, w)) /\ Keeps(s, ButtonPress(s, w))
<1>1. /\ w \in Win /\ w \in Alive(s.wm) /\ None \in Alive(s.wm) /\ Keeps(s, s)
      /\ s.wm \in WmType
  BY KeepsItself DEF Sane, SaneWm
<1>2. Keeps(s, ring(s, w))
  BY <1>1, UnlinkIs, AddToRingIs DEF ring
<1>3. Keeps(s, SetFocus(s, w)) /\ Keeps(s, ButtonPress(s, w))
  BY <1>1, SetFocusIs DEF ButtonPress
<1>4. Keeps(s, focus(s, w))
  <2> DEFINE t == SetFocus(s, w)
             u == [t EXCEPT !.wm.FocusRoot = FALSE]
  <2>1. focus(s, w) \in {s, FocusOnRoot(s), u}
    BY DEF focus
  <2> HIDE DEF t
  <2>2. Keeps(t, u)
    BY <1>3, WmFields DEF Keeps, t
  <2>3. Keeps(s, u) /\ Keeps(s, FocusOnRoot(s))
    BY <1>3, <2>2, FocusOnRootIs, KeepsTwice DEF t
  <2>4. QED
    BY <1>1, <2>1, <2>3
<1>5. Keeps(s, iconify(s, w))
  <2> DEFINE i == s.wm.isicon \cup {w}
             t == [s EXCEPT !.wm.isicon = i]
             hidden == Remapped(s, t)
             u == SetFocus(hidden, None)
             b == u.wm.FocusRoot \/ ~ClickToFocus
             v == [u EXCEPT !.wm.FocusRoot = b]
  <2>1. iconify(s, w) \in {DeIconify(s, w), hidden, v}
    BY DEF iconify, Iconify
  <2>2. i \in SUBSET Win
    BY <1>1 DEF WmType
  <2>3. Keeps(s, t)
    BY <2>2, WmFields
  <2> HIDE DEF t, i
  <2>4. Keeps(s, hidden)
    BY <2>3, RemappedKeeps
  <2> HIDE DEF hidden
  <2>5. Keeps(hidden, u)
    BY <2>4, KeepsAlive, SetFocusIs
  <2>6. Keeps(s, u)
    BY <2>4, <2>5, KeepsTwice
  <2> HIDE DEF u
  <2>7. Sane(u) /\ b \in BOOLEAN
    BY <2>6, KeepsAlive
  <2> HIDE DEF b
  <2>8. Keeps(u, v)
    BY <2>7, WmFields
  <2>9. Keeps(s, v) /\ Keeps(s, DeIconify(s, w))
    BY <2>6, <2>8, KeepsTwice, DeIconifyIs
  <2>10. QED
    BY <2>1, <2>4, <2>9
<1>6. Keeps(s, Activate(s, w))
  <2> DEFINE up == IF w \in s.wm.isicon THEN DeIconify(s, w) ELSE s
             t == IF RaiseOnWarp THEN AutoRaiseWindow(up, w) ELSE up
  <2>1. Activate(s, w) = SetFocus(t, w)
    BY DEF Activate
  <2>2. Keeps(s, up)
    BY <1>1, DeIconifyIs
  <2> HIDE DEF up
  <2>3. Keeps(up, t)
    <3>1. Sane(up) /\ w \in managed(up)
      BY <2>2, KeepsAlive
    <3>2. QED
      BY <3>1, AutoRaiseIs, KeepsItself
  <2> HIDE DEF t
  <2>4. Keeps(s, t)
    BY <2>2, <2>3, KeepsTwice
  <2>5. Sane(t) /\ w \in Alive(t.wm)
    BY <1>1, <2>4, KeepsAlive
  <2>6. QED
    BY <2>1, <2>4, <2>5, SetFocusIs, KeepsTwice
<1>7. QED
  BY <1>2, <1>3, <1>4, <1>5, <1>6

\* Whatever is invoked, on a window or not.
LEMMA FunctionIs ==
  ASSUME NEW s, Sane(s), NEW e \in EventType, e.type \in Use, NEW t \in Function(s, e)
  PROVE  Sane(t)
<1>1. Keeps(s, s) /\ s.wm.gone \subseteq Win /\ None \notin Win
  BY KeepsItself, AttentionAssumption DEF Sane, SaneWm, WmType
<1>2. \/ e.type \in UseOfWindow /\ e.win \in Win
      \/ e.type \in {"warpring", "unfocus", "workspace"} /\ e.win = None
  BY DEF EventType, Use, UseOfWindow
<1>3. CASE e.type = "warpring"
  BY <1>3, WarpAlongRingIs DEF Function, Keeps
<1>4. CASE e.type = "unfocus"
  BY <1>4, FocusOnRootIs DEF Function, Keeps
<1>5. CASE e.type = "workspace"
  BY <1>5, GotoIs DEF Function, Keeps
<1>6. CASE e.type \in UseOfWindow /\ e.win \in s.wm.gone
  <2>1. Function(s, e) = {s}
    BY <1>6 DEF Function, UseOfWindow
  <2>2. QED
    BY <1>1, <2>1 DEF Keeps
<1>7. CASE e.type \in UseOfWindow /\ e.win \in Win /\ e.win \notin s.wm.gone
  <2> DEFINE w == e.win
  <2>1. w \in managed(s)
    BY <1>7 DEF managed
  <2>2. /\ Sane(ring(s, w)) /\ Sane(focus(s, w)) /\ Sane(iconify(s, w))
        /\ Sane(Activate(s, w)) /\ Sane(ButtonPress(s, w)) /\ Sane(HandleDestroyNotify(s, w))
    BY <2>1, FunctionsOfWindow, DestroyIs DEF Keeps
  <2>3. t \in {ring(s, w), focus(s, w), iconify(s, w), Activate(s, w), ButtonPress(s, w),
               HandleDestroyNotify(s, w)}
    BY <1>7 DEF Function, UseOfWindow
  <2>4. QED
    BY <2>2, <2>3
<1>8. QED
  BY <1>2, <1>3, <1>4, <1>5, <1>6, <1>7

(***************************************************************************)
(* The steps.                                                               *)
(***************************************************************************)

Inv == Sane(Now) /\ user \in [uses : Sessions, acts : 0 .. MaxActs]

\* At first nothing refers to a window but the ring.
LEMMA InvHoldsFirst == Init => Inv
<1> SUFFICES ASSUME Init PROVE Inv
  OBVIOUS
<1> DEFINE p == CHOOSE p \in Point : \A w \in Win : PartAt[p][w] = "none"
           r == Kept(FirstWindow, WindowRing)
           sf == [v \in WorkSpace |-> None]
<1>1. p \in Point
  BY AttentionAssumption
<1>2. FirstWindow \in WinSeq
  BY AttentionAssumption, WinSeqIs
<1>3. r \in WinSeq /\ Range(r) \subseteq Win
  <2>1. FirstWindow \in Seq(Win) /\ IsInjective(FirstWindow)
    BY AttentionAssumption
  <2>2. /\ r \in Seq(Win) /\ IsInjective(r) /\ Range(r) = Range(FirstWindow) \cap WindowRing
    BY <2>1, KeptRange
  <2>3. Range(FirstWindow) = Win
    BY AttentionAssumption
  <2> HIDE DEF r
  <2>4. QED
    BY <2>2, <2>3, WinSeqIs
<1>4. <<>> \in Seq(EventType) /\ None \in Maybe /\ sf \in [WorkSpace -> Maybe]
      /\ \A v \in WorkSpace : sf[v] = None
  BY EventSeqs DEF Maybe
<1>5. x = [stack |-> FirstWindow, point |-> p, focus |-> None, asked |-> None, dead |-> {},
           queue |-> <<>>]
  BY DEF Init
<1>6. PICK ws \in WorkSpace :
        wm = [Focus |-> None, FocusRoot |-> ~ClickToFocus, isicon |-> {}, gone |-> {},
              ws |-> ws, save_focus |-> sf, enter_flag |-> FALSE, leave_flag |-> FALSE,
              enter_win |-> None, raise_win |-> None, leave_win |-> None, lower_win |-> None,
              ring |-> r, RingLeader |-> None]
  BY DEF Init
<1> HIDE DEF p, r, sf
<1>7. x \in ServerType
  BY <1>1, <1>2, <1>4, <1>5 DEF ServerType
<1>8. wm \in WmType
  BY <1>3, <1>4, <1>6 DEF WmType
<1>9. SaneWm(wm)
  BY <1>3, <1>4, <1>6, <1>8 DEF SaneWm, Alive
<1>10. user \in [uses : Sessions, acts : 0 .. MaxActs]
  BY AttentionAssumption DEF Init
<1>11. QED
  BY <1>7, <1>8, <1>9, <1>10 DEF Inv, Sane, Now, StateType

\* What a handler leaves behind is the next state.
LEMMA BecomesSane ==
  ASSUME NEW s, Sane(s), Becomes(s)
  PROVE  Sane(Now)'
<1>1. s = [x |-> s.x, wm |-> s.wm]
  BY DEF Sane, StateType
<1>2. Now' = s
  BY <1>1 DEF Now, Becomes
<1>3. QED
  BY <1>2 DEF Sane

\* The head of the queue is an event, and the rest is a queue.
LEMMA HeadOfQueue ==
  ASSUME Sane(Now), x.queue # <<>>
  PROVE  /\ Head(x.queue) \in EventType /\ Sane([Now EXCEPT !.x.queue = Tail(@)])
         /\ Head(x.queue).type \in {"Enter", "Leave", "FocusIn", "FocusOut"}
              => Head(x.queue).area \in Area
<1> DEFINE E == EventType
           q == x.queue
<1>1. Now \in StateType /\ Now.x = x /\ q \in Seq(E)
  BY DEF Sane, StateType, Now, ServerType
<1> HIDE DEF q, E
<1>2. Head(q) \in E /\ Tail(q) \in Seq(E)
  BY <1>1, HeadTailProperties DEF q
<1>3. [Now EXCEPT !.x.queue = Tail(@)] = [Now EXCEPT !.x.queue = Tail(q)]
  BY <1>1 DEF q
<1>4. XOnly(Now, [Now EXCEPT !.x.queue = Tail(q)])
  BY <1>1, <1>2, XFields DEF E
<1>5. Sane([Now EXCEPT !.x.queue = Tail(q)])
  BY <1>4, XKeeps DEF Keeps
<1>6. Head(q) \in EventType
  BY <1>2 DEF E
<1>7. Head(q).type \in {"Enter", "Leave", "FocusIn", "FocusOut"} => Head(q).area \in Area
  BY <1>6 DEF EventType, UseOfWindow
<1>8. QED
  BY <1>3, <1>5, <1>6, <1>7 DEF q

\* Every event that is waiting is handled.
LEMMA DispatchKeepsInv == Inv /\ Dispatch => Inv'
<1> SUFFICES ASSUME Inv, Dispatch PROVE Inv'
  OBVIOUS
<1> DEFINE s == [Now EXCEPT !.x.queue = Tail(@)]
           e == Head(x.queue)
<1>1. x.queue # <<>> /\ UNCHANGED user
  BY DEF Dispatch, Handle
<1>2. /\ e \in EventType /\ Sane(s)
      /\ e.type \in {"Enter", "Leave", "FocusIn", "FocusOut"} => e.area \in Area
  BY <1>1, HeadOfQueue DEF Inv
<1>3. \/ e.type = "Enter" /\ Becomes(HandleEnterNotify(s, e))
      \/ e.type = "Leave" /\ Becomes(HandleLeaveNotify(s, e))
      \/ e.type \in {"FocusIn", "FocusOut"} /\ Becomes(HandleFocusChange(s, e))
      \/ e.type \in Use /\ \E t \in Function(s, e) : Becomes(t)
  BY DEF Dispatch, Handle
<1> HIDE DEF s, e
<1>4. \E t : Sane(t) /\ Becomes(t)
  BY <1>2, <1>3, HandleEnterIs, HandleLeaveIs, HandleFocusChangeIs, FunctionIs DEF Keeps
<1>5. QED
  BY <1>1, <1>4, BecomesSane DEF Inv

\* No event is waiting: windows are raised and lowered.
LEMMA HandleEventsKeepsInv == Inv /\ HandleEvents => Inv'
<1> SUFFICES ASSUME Inv, HandleEvents PROVE Inv'
  OBVIOUS
<1> DEFINE s == Now
           flagged == [s EXCEPT !.wm.enter_flag = FALSE]
           raised == IF ~wm.enter_flag THEN s
                     ELSE IF wm.enter_win \notin {None, wm.raise_win}
                          THEN AutoRaiseWindow(s, wm.enter_win) ELSE flagged
           lowered == AutoLowerWindow(raised, raised.wm.leave_win)
           still == [raised EXCEPT !.wm.leave_flag = FALSE]
           t == IF ~raised.wm.leave_flag \/ raised.x.queue # <<>> THEN raised
                ELSE IF raised.wm.leave_win \notin {None, raised.wm.lower_win} THEN lowered
                     ELSE still
<1>1. Pending = t
  BY DEF Pending
<1>2. Sane(s) /\ Keeps(s, s) /\ s.wm = wm
  BY KeepsItself DEF Inv, Now
<1>3. wm.enter_win # None => wm.enter_win \in managed(s)
  BY <1>2, KeepsItself DEF Sane, SaneWm
<1> HIDE DEF s
<1>4. Keeps(s, raised)
  <2>1. wm.enter_win # None => Keeps(s, AutoRaiseWindow(s, wm.enter_win))
    BY <1>2, <1>3, AutoRaiseIs
  <2>2. Keeps(s, flagged)
    BY <1>2, WmFields
  <2>3. QED
    BY <1>2, <2>1, <2>2
<1> HIDE DEF raised
<1>5. Sane(raised) /\ Keeps(raised, raised)
  BY <1>4, KeepsItself DEF Keeps
<1>6. raised.wm.leave_win # None => raised.wm.leave_win \in managed(raised)
  BY <1>5, KeepsItself DEF Sane, SaneWm
<1>7. raised.wm.leave_win # None => Keeps(raised, lowered)
  BY <1>5, <1>6, AutoLowerIs
<1>8. Keeps(raised, still)
  BY <1>5, WmFields
<1> HIDE DEF lowered, still
<1>9. Sane(t)
  BY <1>5, <1>7, <1>8 DEF Keeps
<1> HIDE DEF t
<1>10. Becomes(t) /\ UNCHANGED user
  BY <1>1 DEF HandleEvents
<1>11. QED
  BY <1>9, <1>10, BecomesSane DEF Inv

\* One of the user's acts, of which only so many are taken.
LEMMA ActIs ==
  ASSUME NEW use, Act(use), Inv
  PROVE  user' \in [uses : Sessions, acts : 0 .. MaxActs]
<1>1. MaxActs \in Nat /\ user.acts \in 0 .. MaxActs /\ user.acts < MaxActs
  BY AttentionAssumption DEF Act, Inv
<1>2. user.acts + 1 \in 0 .. MaxActs
  BY <1>1
<1>3. user' = [user EXCEPT !.acts = user.acts + 1]
  BY DEF Act, Inv
<1>4. QED
  BY <1>2, <1>3 DEF Inv

\* The user, pagers and clients, who only add to the queue and ask the server.
LEMMA UserKeepsInv == Inv /\ User => Inv'
<1> SUFFICES ASSUME Inv, User PROVE Inv'
  OBVIOUS
<1>1. Sane(Now) /\ Now \in StateType /\ Now.x = x /\ Keeps(Now, Now) /\ managed(Now) \subseteq Win
  BY KeepsItself DEF Inv, Now
<1>2. CASE Move
  <2>1. PICK p \in Point : Act("move") /\ Becomes(XWarpPointer(Now, p))
    BY <1>2 DEF Move
  <2>2. Sane(XWarpPointer(Now, p))
    BY <1>1, XMoves, XKeeps DEF Keeps
  <2>3. QED
    BY <2>1, <2>2, ActIs, BecomesSane DEF Inv
<1>3. ASSUME NEW e \in EventType, NEW t, Sane(t) PROVE Sane(Queue(t, <<e>>))
  <2> DEFINE q == <<e>>
  <2>1. q \in Seq(EventType) /\ t \in StateType
    BY <1>3, EventSeqs, KeepsItself
  <2> HIDE DEF q
  <2>2. XOnly(t, Queue(t, q))
    BY <2>1, QueueIs
  <2>3. QED
    BY <1>3, <2>2, XKeeps DEF Keeps, q
<1>4. ASSUME NEW use, NEW w, Invoke(use, w), [type |-> use, win |-> w] \in EventType PROVE Inv'
  <2>1. Act(use) /\ Becomes(Queue(Now, <<[type |-> use, win |-> w]>>))
    BY <1>4 DEF Invoke
  <2>2. Sane(Queue(Now, <<[type |-> use, win |-> w]>>))
    BY <1>1, <1>3, <1>4
  <2>3. QED
    BY <2>1, <2>2, ActIs, BecomesSane DEF Inv
<1>5. CASE \E use \in {"warpring", "unfocus", "workspace"} : Invoke(use, None)
  BY <1>4, <1>5 DEF EventType
<1>6. CASE \E use \in {"ring", "focus", "iconify", "active", "press"}, w \in managed(Now) :
             Invoke(use, w)
  BY <1>1, <1>4, <1>6 DEF EventType, UseOfWindow
<1>7. ASSUME NEW w \in Win, ClientDestroy(w) PROVE Inv'
  <2> DEFINE d == x.dead \cup {w}
             t == [Now EXCEPT !.x.dead = d]
             u == Remapped(Now, t)
             e == [type |-> "destroy", win |-> w]
  <2>1. Act("destroy") /\ Becomes(Queue(u, <<e>>))
    BY <1>1, <1>7 DEF ClientDestroy
  <2>2. d \in SUBSET Win
    BY <1>1 DEF StateType, ServerType
  <2> HIDE DEF d
  <2>3. Keeps(Now, t)
    BY <1>1, <2>2, XFields, XKeeps
  <2> HIDE DEF t
  <2>4. Sane(u)
    BY <1>1, <2>3, RemappedKeeps DEF Keeps
  <2> HIDE DEF u
  <2>5. e \in EventType
    BY DEF EventType, UseOfWindow
  <2> HIDE DEF e
  <2>6. Sane(Queue(u, <<e>>))
    BY <1>3, <2>4, <2>5
  <2>7. QED
    BY <2>1, <2>6, ActIs, BecomesSane DEF Inv
<1>8. CASE ClientAnswer
  <2>1. x.asked \in Maybe
    BY <1>1 DEF StateType, ServerType
  <2>2. Sane(XSetInputFocus(Now, x.asked))
    BY <1>1, <2>1, XSetInputFocusIs, XKeeps DEF Keeps
  <2>3. QED
    BY <1>8, <2>2, BecomesSane DEF ClientAnswer, Inv
<1>9. QED
  BY <1>2, <1>5, <1>6, <1>7, <1>8 DEF User

\* Every step.
LEMMA NextKeepsInv == Inv /\ [Next]_vars => Inv'
<1>1. Inv /\ UNCHANGED vars => Inv'
  <2> SUFFICES ASSUME Inv, UNCHANGED vars PROVE Inv'
    OBVIOUS
  <2>1. Becomes(Now) /\ UNCHANGED user
    BY DEF vars, Becomes, Now
  <2>2. QED
    BY <2>1, BecomesSane DEF Inv
<1>2. QED
  BY <1>1, DispatchKeepsInv, HandleEventsKeepsInv, UserKeepsInv DEF Next

\* The invariant says what the run checks.
LEMMA InvSays == Inv => TypeOK /\ NothingDangles
<1> SUFFICES ASSUME Inv PROVE TypeOK /\ NothingDangles
  OBVIOUS
<1>1. TypeOK /\ SaneWm(wm) /\ Now.wm = wm
  BY DEF Inv, Sane, Now, StateType, TypeOK, SaneWm
<1> DEFINE A == managed(Now) \cup {None}
<1>2. Alive(wm) = A /\ A = (Win \ wm.gone) \cup {None}
  BY <1>1 DEF Alive, managed
<1> HIDE DEF A
<1>3. Range(wm.save_focus) \subseteq A
  <2>1. wm.save_focus \in [WorkSpace -> Maybe]
    BY <1>1 DEF SaneWm, WmType
  <2>2. QED
    BY <1>1, <1>2, <2>1 DEF SaneWm, Range
<1>4. {wm.Focus, wm.RingLeader, wm.enter_win, wm.raise_win, wm.leave_win, wm.lower_win}
        \cup Range(wm.ring) \subseteq A
  BY <1>1, <1>2 DEF SaneWm
<1>5. wm.RingLeader # None => WindowIsOnRing(Now, wm.RingLeader)
  BY <1>1 DEF SaneWm, WindowIsOnRing
<1>6. QED
  BY <1>1, <1>3, <1>4, <1>5 DEF NothingDangles, A

\* So it holds forever.
LEMMA InvHolds == Spec => []Inv
BY InvHoldsFirst, NextKeepsInv, PTL DEF Spec

\* The state keeps its types: no handler leaves a focus, a ring or a queue behind
\* that is not one, whatever the windows, the workspaces and the variables of
\* .ctwmrc are.
THEOREM TypeCorrect == Spec => []TypeOK
BY InvHolds, InvSays, PTL

\* Nothing that ctwm has is of a window it has forgotten: the focus, also the
\* one saved for a workspace, the windows that are being raised or lowered, the
\* ring and its leader, wherever between two events a client is destroyed
\* (HandleDestroyNotify, remove_window_from_ring).
THEOREM NothingIsLeftDangling == Spec => []NothingDangles
BY InvHolds, InvSays, PTL

=============================================================================
