---------------------------- MODULE LayoutProofs ----------------------------
(***************************************************************************)
(* Proofs about Layout: whatever monitors a server reports, and whichever   *)
(* order qsort leaves equal areas in, the cutting and joining of areas      *)
(* loses no part of a monitor and ends in stripes that reach from side to   *)
(* side; and a window comes back from any zooms to where it was.            *)
(*                                                                          *)
(* First what the questions to a list return, then what a cut does to the   *)
(* points that are covered, and last the invariant.                         *)
(***************************************************************************)
EXTENDS Layout, SequenceFacts

(***************************************************************************)
(* Numbers and areas.                                                       *)
(***************************************************************************)

\* Areas that have a size.
Solid == {a \in Area : a.width > 0 /\ a.height > 0}

\* An area is four numbers.
LEMMA AreaIs ==
  ASSUME NEW a
  PROVE  a \in Area <=> a \in [x : Int, y : Int, width : Int, height : Int]
BY DEF Area

\* Of finitely many numbers one is least.
LEMMA LeastOfMany ==
  ASSUME NEW n \in Nat \ {0}, NEW f \in [1 .. n -> Int]
  PROVE  \E i \in 1 .. n : \A j \in 1 .. n : f[i] <= f[j]
<1> DEFINE Good(m) == \E i \in 1 .. m : \A j \in 1 .. m : f[i] <= f[j]
           T == {m \in 1 .. n : ~ Good(m)}
<1>1. SUFFICES ASSUME T # {} PROVE FALSE
  <2>1. n \in 1 .. n
    OBVIOUS
  <2>2. Good(n)
    BY <1>1, <2>1
  <2>3. QED
    BY <2>2
<1>2. PICK m \in T : \A k \in T : m <= k
  <2>1. T \in SUBSET Nat
    OBVIOUS
  <2>2. QED
    BY <1>1, <2>1, LeastNat
<1>3. m # 1
  <2>1. Good(1)
    OBVIOUS
  <2>2. QED
    BY <1>2, <2>1
<1>4. m - 1 \in 1 .. n /\ m - 1 \notin T /\ m \in 1 .. n
  <2> HIDE DEF Good
  <2>1. m \in 1 .. n /\ m - 1 \in 1 .. n
    BY <1>3
  <2>2. m - 1 \in T => m <= m - 1
    BY <1>2
  <2>3. QED
    BY <2>1, <2>2
<1>5. PICK i \in 1 .. m - 1 : \A j \in 1 .. m - 1 : f[i] <= f[j]
  BY <1>4
<1>6. i \in 1 .. n /\ f[i] \in Int /\ f[m] \in Int /\ \A j \in 1 .. m : f[j] \in Int
  BY <1>4
<1>7. CASE f[i] <= f[m]
  <2>1. \A j \in 1 .. m : j = m \/ j \in 1 .. m - 1
    BY <1>4
  <2>2. Good(m)
    BY <1>4, <1>5, <1>7, <2>1
  <2>3. QED
    BY <1>2, <2>2
<1>8. CASE ~ (f[i] <= f[m])
  <2>1. \A j \in 1 .. m : j = m \/ j \in 1 .. m - 1
    BY <1>4
  <2>2. \A j \in 1 .. m : f[m] <= f[j]
    BY <1>4, <1>5, <1>6, <1>8, <2>1
  <2>3. Good(m)
    BY <1>4, <2>2
  <2>4. QED
    BY <1>2, <2>3
<1>9. QED
  BY <1>7, <1>8

\* Min and Max choose from a finite set.
LEMMA ExtremesAreThere ==
  ASSUME NEW S \in SUBSET Int, IsFiniteSet(S), S # {}
  PROVE  /\ Min(S) \in S /\ \A v \in S : Min(S) <= v
         /\ Max(S) \in S /\ \A v \in S : Max(S) >= v
<1> DEFINE n == Cardinality(S)
<1>1. n \in Nat /\ n # 0 /\ ExistsBijection(1 .. n, S)
  BY FS_CardinalityType, FS_EmptySet
<1>2. PICK f \in Bijection(1 .. n, S) : TRUE
  BY <1>1 DEF ExistsBijection
<1> HIDE DEF n
<1>3. f \in [1 .. n -> S] /\ \A v \in S : \E i \in 1 .. n : f[i] = v
  BY <1>2 DEF Bijection, Surjection
<1>4. f \in [1 .. n -> Int]
  BY <1>3
<1>5. PICK i \in 1 .. n : \A j \in 1 .. n : f[i] <= f[j]
  BY <1>1, <1>4, LeastOfMany
<1>6. f[i] \in S /\ \A v \in S : f[i] <= v
  BY <1>3, <1>5
<1> DEFINE g == [j \in 1 .. n |-> 0 - f[j]]
<1>7. g \in [1 .. n -> Int]
  BY <1>4
<1>8. PICK k \in 1 .. n : \A j \in 1 .. n : g[k] <= g[j]
  <2> HIDE DEF g
  <2>1. QED
    BY <1>1, <1>7, LeastOfMany
<1>9. \A j \in 1 .. n : f[k] >= f[j]
  BY <1>4, <1>8
<1>10. f[k] \in S /\ \A v \in S : f[k] >= v
  BY <1>3, <1>9
<1>11. Min(S) \in S /\ \A v \in S : Min(S) <= v
  BY <1>6 DEF Min
<1>12. Max(S) \in S /\ \A v \in S : Max(S) >= v
  BY <1>10 DEF Max
<1>13. QED
  BY <1>11, <1>12

\* The same of two.
LEMMA OfTwo ==
  ASSUME NEW p \in Int, NEW q \in Int
  PROVE  /\ Min({p, q}) = IF p <= q THEN p ELSE q
         /\ Max({p, q}) = IF p >= q THEN p ELSE q
<1>1. {p, q} \in SUBSET Int /\ {p, q} # {} /\ IsFiniteSet({p, q})
  <2>1. IsFiniteSet({p}) /\ {p, q} = {p} \cup {q}
    BY FS_Singleton
  <2>2. QED
    BY <2>1, FS_AddElement
<1> DEFINE lo == Min({p, q})
           hi == Max({p, q})
<1>2. lo \in {p, q} /\ hi \in {p, q} /\ lo <= p /\ lo <= q /\ hi >= p /\ hi >= q
  BY <1>1, ExtremesAreThere
<1> HIDE DEF lo, hi
<1>3. lo = (IF p <= q THEN p ELSE q) /\ hi = IF p >= q THEN p ELSE q
  BY <1>2
<1>4. QED
  BY <1>3 DEF lo, hi

LEMMA ExtremesOfTwo ==
  ASSUME NEW p \in Int, NEW q \in Int, NEW S, S = {p, q}
  PROVE  /\ Min(S) \in {p, q} /\ Min(S) <= p /\ Min(S) <= q
         /\ Max(S) \in {p, q} /\ Max(S) >= p /\ Max(S) >= q
BY OfTwo

\* A list has finitely many areas.
LEMMA RangeIsFinite ==
  ASSUME NEW E, NEW list \in Seq(E)
  PROVE  IsFiniteSet(Range(list))
<1>1. Len(list) \in Nat /\ DOMAIN list = 1 .. Len(list) /\ list \in [1 .. Len(list) -> E]
  BY LenProperties
<1>2. list \in [1 .. Len(list) -> Range(list)]
  BY <1>1, RangeIs
<1>3. \A e \in Range(list) : \E i \in 1 .. Len(list) : list[i] = e
  BY RangeIs
<1>4. list \in Surjection(1 .. Len(list), Range(list))
  BY <1>2, <1>3 DEF Surjection
<1>5. IsFiniteSet(1 .. Len(list))
  BY <1>1, FS_Interval
<1>6. QED
  BY <1>4, <1>5, FS_Surjection

\* Points, as pairs of numbers.
LEMMA PointsIs ==
  ASSUME NEW a \in Area, NEW z
  PROVE  z \in Points(a) <=>
           /\ z \in Int \X Int
           /\ a.x <= z[1] /\ z[1] < a.x + a.width
           /\ a.y <= z[2] /\ z[2] < a.y + a.height
<1>1. a.x \in Int /\ a.y \in Int /\ a.width \in Int /\ a.height \in Int
  BY AreaIs
<1>2. QED
  BY <1>1 DEF Points, RAreaX2, RAreaY2

\* What a list covers is what its areas cover.
PointsOf(S) == UNION {Points(a) : a \in S}

LEMMA CoveredIs ==
  ASSUME NEW E, NEW list \in Seq(E)
  PROVE  Covered(list) = PointsOf(Range(list))
<1>1. DOMAIN list = 1 .. Len(list)
  BY LenProperties
<1>2. QED
  BY <1>1, RangeIs DEF Covered, PointsOf

LEMMA CoveredConcat ==
  ASSUME NEW E, NEW p \in Seq(E), NEW q \in Seq(E)
  PROVE  p \o q \in Seq(E) /\ Covered(p \o q) = Covered(p) \cup Covered(q)
<1>1. p \o q \in Seq(E) /\ Range(p \o q) = Range(p) \cup Range(q)
  BY ConcatRange
<1>2. Covered(p \o q) = PointsOf(Range(p) \cup Range(q))
  BY <1>1, CoveredIs
<1>3. Covered(p) = PointsOf(Range(p)) /\ Covered(q) = PointsOf(Range(q))
  BY CoveredIs
<1>4. QED
  BY <1>1, <1>2, <1>3 DEF PointsOf

\* A list without areas covers nothing, a list of one what that covers.
LEMMA CoveredFew ==
  /\ Covered(<<>>) = {}
  /\ \A a : Covered(<<a>>) = Points(a)
BY DEF Covered

\* A piece that is added only if it has a height covers what it would.
LEMMA HighIs ==
  ASSUME NEW a \in Area, a.height > 0 => a.width > 0
  PROVE  High(a) \in Seq(Solid) /\ Covered(High(a)) = Points(a)
<1>1. a.height \in Int /\ a.y \in Int
  BY AreaIs
<1>2. CASE a.height > 0
  <2>1. High(a) = <<a>> /\ a \in Solid
    BY <1>2 DEF High, Solid
  <2>2. QED
    BY <2>1, CoveredFew
<1>3. CASE ~ (a.height > 0)
  <2>1. High(a) = <<>>
    BY <1>3 DEF High
  <2>2. Points(a) = {}
    <3>1. ASSUME NEW z \in Points(a) PROVE FALSE
      <4>1. z \in Int \X Int /\ a.y <= z[2] /\ z[2] < a.y + a.height
        BY <3>1, PointsIs
      <4>2. QED
        BY <1>1, <1>3, <4>1
    <3>2. QED
      BY <3>1
  <2>3. QED
    BY <2>1, <2>2, CoveredFew
<1>4. QED
  BY <1>2, <1>3

\* Two areas that share rows and have no gap between them: what they become. top
\* is the one that begins higher, or one of two that begin alike.
OneAbove(top, bot) ==
  /\ top \in Solid /\ bot \in Solid
  /\ top.y <= bot.y /\ bot.y <= RAreaY2(top)
  /\ bot.x <= RAreaX2(top) + 1 /\ top.x <= RAreaX2(bot) + 1

Extent(top, bot, minx, maxx, low, rest) ==
  /\ minx \in {top.x, bot.x} /\ minx <= top.x /\ minx <= bot.x
  /\ maxx \in {RAreaX2(top), RAreaX2(bot)} /\ maxx >= RAreaX2(top) /\ maxx >= RAreaX2(bot)
  /\ low \in {RAreaY2(top), RAreaY2(bot)} /\ low <= RAreaY2(top) /\ low <= RAreaY2(bot)
  /\ rest \in {top, bot} /\ RAreaY2(rest) >= RAreaY2(top) /\ RAreaY2(rest) >= RAreaY2(bot)
  /\ \/ rest = top /\ RAreaY2(bot) < RAreaY2(top)
     \/ rest = bot /\ RAreaY2(top) <= RAreaY2(bot)

Spanned(top, bot, minx, maxx, low, rest) ==
  High(RAreaNew(top.x, top.y, top.width, bot.y - top.y))
    \o High(RAreaNew(minx, bot.y, maxx - minx + 1, low - bot.y + 1))
    \o High(RAreaNew(rest.x, low + 1, rest.width, RAreaY2(rest) - low))

LEMMA SpanCovers ==
  ASSUME NEW top, NEW bot, OneAbove(top, bot),
         NEW minx, NEW maxx, NEW low, NEW rest, Extent(top, bot, minx, maxx, low, rest),
         NEW u, u = Spanned(top, bot, minx, maxx, low, rest)
  PROVE  u \in Seq(Solid) /\ Covered(u) = Points(top) \cup Points(bot) /\ u # <<>>
<1> USE DEF OneAbove, Extent
<1> DEFINE above == RAreaNew(top.x, top.y, top.width, bot.y - top.y)
           both == RAreaNew(minx, bot.y, maxx - minx + 1, low - bot.y + 1)
           below == RAreaNew(rest.x, low + 1, rest.width, RAreaY2(rest) - low)
<1>1. /\ top \in Area /\ top.x \in Int /\ top.y \in Int /\ top.width \in Int /\ top.height \in Int
      /\ bot \in Area /\ bot.x \in Int /\ bot.y \in Int /\ bot.width \in Int /\ bot.height \in Int
      /\ top.width > 0 /\ top.height > 0 /\ bot.width > 0 /\ bot.height > 0
  BY AreaIs DEF Solid
<1>2. /\ RAreaX2(top) = top.x + top.width - 1 /\ RAreaY2(top) = top.y + top.height - 1
      /\ RAreaX2(bot) = bot.x + bot.width - 1 /\ RAreaY2(bot) = bot.y + bot.height - 1
  BY DEF RAreaX2, RAreaY2
<1>3. minx \in Int /\ maxx \in Int /\ low \in Int /\ RAreaY2(rest) \in Int /\ maxx >= minx
  BY <1>1, <1>2
<1>4. rest \in Area /\ rest.x \in Int /\ rest.width \in Int /\ rest.width > 0
  BY <1>1
<1>5. above \in Area /\ above.width > 0
  BY <1>1, AreaIs DEF RAreaNew
<1>6. both \in Area /\ both.width > 0 /\ both.height > 0
  <2>1. low >= bot.y
    BY <1>1, <1>2
  <2>2. /\ maxx - minx + 1 \in Int /\ low - bot.y + 1 \in Int
        /\ maxx - minx + 1 > 0 /\ low - bot.y + 1 > 0
    BY <1>1, <1>3, <2>1
  <2>3. QED
    BY <1>1, <1>3, <2>2, AreaIs DEF RAreaNew
<1>7. below \in Area /\ below.width > 0
  BY <1>3, <1>4, AreaIs DEF RAreaNew
<1>8. /\ High(above) \in Seq(Solid) /\ Covered(High(above)) = Points(above)
      /\ High(both) \in Seq(Solid) /\ Covered(High(both)) = Points(both)
      /\ High(below) \in Seq(Solid) /\ Covered(High(below)) = Points(below)
  BY <1>5, <1>6, <1>7, HighIs
<1> DEFINE two == High(above) \o High(both)
<1> HIDE DEF above, both, below
<1>9. two \in Seq(Solid) /\ Covered(two) = Points(above) \cup Points(both)
  BY <1>8, CoveredConcat
<1>10. u \in Seq(Solid) /\ Covered(u) = Points(above) \cup Points(both) \cup Points(below)
  <2>1. u = two \o High(below)
    BY DEF Spanned, above, both, below
  <2> HIDE DEF two
  <2>2. QED
    BY <1>8, <1>9, <2>1, CoveredConcat
<1>11. ASSUME NEW z, z \in Points(top) \cup Points(bot)
       PROVE  z \in Points(above) \cup Points(both) \cup Points(below)
  <2>1. z \in Int \X Int
    BY <1>1, <1>11, PointsIs
  <2> DEFINE p == z[1]
             q == z[2]
  <2>2. p \in Int /\ q \in Int
    BY <2>1
  <2>3. \/ top.x <= p /\ p < top.x + top.width /\ top.y <= q /\ q < top.y + top.height
        \/ bot.x <= p /\ p < bot.x + bot.width /\ bot.y <= q /\ q < bot.y + bot.height
    BY <1>1, <1>11, PointsIs
  <2> HIDE DEF p, q
  <2>4. CASE q < bot.y
    <3>1. above.x <= p /\ p < above.x + above.width /\ above.y <= q /\ q < above.y + above.height
      BY <1>1, <2>2, <2>3, <2>4 DEF RAreaNew, above
    <3>2. QED
      BY <1>5, <2>1, <3>1, PointsIs DEF p, q
  <2>5. CASE q >= bot.y /\ q <= low
    <3>1. minx <= p /\ p <= maxx
      BY <1>1, <1>2, <1>3, <2>2, <2>3, <2>5
    <3>2. both.x <= p /\ p < both.x + both.width /\ both.y <= q /\ q < both.y + both.height
      BY <1>1, <1>3, <2>2, <2>5, <3>1 DEF RAreaNew, both
    <3>3. QED
      BY <1>6, <2>1, <3>2, PointsIs DEF p, q
  <2>6. CASE q > low
    <3>1. rest.x <= p /\ p < rest.x + rest.width /\ q <= RAreaY2(rest)
      BY <1>1, <1>2, <1>3, <1>4, <2>2, <2>3, <2>6
    <3>2. below.x <= p /\ p < below.x + below.width /\ below.y <= q /\ q < below.y + below.height
      BY <1>3, <1>4, <2>2, <2>6, <3>1 DEF RAreaNew, below
    <3>3. QED
      BY <1>7, <2>1, <3>2, PointsIs DEF p, q
  <2>7. QED
    BY <1>1, <1>3, <2>2, <2>4, <2>5, <2>6
<1>12. ASSUME NEW z, z \in Points(above) \cup Points(both) \cup Points(below)
       PROVE  z \in Points(top) \cup Points(bot)
  <2>1. z \in Int \X Int
    BY <1>5, <1>6, <1>7, <1>12, PointsIs
  <2> DEFINE p == z[1]
             q == z[2]
  <2>2. p \in Int /\ q \in Int
    BY <2>1
  <2>3. CASE z \in Points(above)
    <3>1. above.x <= p /\ p < above.x + above.width /\ above.y <= q /\ q < above.y + above.height
      BY <1>5, <2>3, PointsIs
    <3> HIDE DEF p, q
    <3>2. top.x <= p /\ p < top.x + top.width /\ top.y <= q /\ q < top.y + top.height
      BY <1>1, <1>2, <2>2, <3>1 DEF RAreaNew, above
    <3>3. QED
      BY <1>1, <2>1, <3>2, PointsIs DEF p, q
  <2>4. CASE z \in Points(both)
    <3>1. both.x <= p /\ p < both.x + both.width /\ both.y <= q /\ q < both.y + both.height
      BY <1>6, <2>4, PointsIs
    <3> HIDE DEF p, q
    <3>2. minx <= p /\ p <= maxx /\ bot.y <= q /\ q <= low
      BY <1>1, <1>3, <2>2, <3>1 DEF RAreaNew, both
    <3>3. \/ top.x <= p /\ p < top.x + top.width /\ top.y <= q /\ q < top.y + top.height
          \/ bot.x <= p /\ p < bot.x + bot.width /\ bot.y <= q /\ q < bot.y + bot.height
      BY <1>1, <1>2, <1>3, <2>2, <3>2
    <3>4. QED
      BY <1>1, <2>1, <3>3, PointsIs DEF p, q
  <2>5. CASE z \in Points(below)
    <3>1. below.x <= p /\ p < below.x + below.width /\ below.y <= q /\ q < below.y + below.height
      BY <1>7, <2>5, PointsIs
    <3> HIDE DEF p, q
    <3>2. rest.x <= p /\ p < rest.x + rest.width /\ low < q /\ q <= RAreaY2(rest)
      BY <1>3, <1>4, <2>2, <3>1 DEF RAreaNew, below
    <3>3. CASE rest = top /\ RAreaY2(bot) < RAreaY2(top)
      <4>1. low = RAreaY2(bot) /\ top.y <= q
        BY <1>1, <1>2, <2>2, <3>2, <3>3
      <4>2. top.x <= p /\ p < top.x + top.width /\ top.y <= q /\ q < top.y + top.height
        BY <1>1, <1>2, <2>2, <3>2, <3>3, <4>1
      <4>3. QED
        BY <1>1, <2>1, <4>2, PointsIs DEF p, q
    <3>4. CASE rest = bot /\ RAreaY2(top) <= RAreaY2(bot)
      <4>1. low = RAreaY2(top) /\ bot.y <= q
        BY <1>1, <1>2, <2>2, <3>2, <3>4
      <4>2. bot.x <= p /\ p < bot.x + bot.width /\ bot.y <= q /\ q < bot.y + bot.height
        BY <1>1, <1>2, <2>2, <3>2, <3>4, <4>1
      <4>3. QED
        BY <1>1, <2>1, <4>2, PointsIs DEF p, q
    <3>5. QED
      BY <3>3, <3>4
  <2>6. QED
    BY <1>12, <2>3, <2>4, <2>5
<1>13. Covered(u) = Points(top) \cup Points(bot)
  BY <1>10, <1>11, <1>12
<1>14. u # <<>>
  <2>1. <<minx, bot.y>> \in Points(both)
    <3> DEFINE z == <<minx, bot.y>>
    <3>1. z \in Int \X Int /\ z[1] = minx /\ z[2] = bot.y
      BY <1>1, <1>3
    <3>2. both.x = minx /\ both.y = bot.y /\ both.width \in Int /\ both.height \in Int
      BY <1>6, AreaIs DEF RAreaNew, both
    <3> HIDE DEF z
    <3>3. /\ both.x <= z[1] /\ z[1] < both.x + both.width
          /\ both.y <= z[2] /\ z[2] < both.y + both.height
      BY <1>1, <1>3, <1>6, <3>1, <3>2
    <3>4. z \in Points(both)
      BY <1>6, <3>1, <3>3, PointsIs
    <3>5. QED
      BY <3>4 DEF z
  <2>2. Covered(u) # {}
    BY <1>10, <2>1
  <2>3. QED
    BY <2>2, CoveredFew
<1>15. QED
  BY <1>10, <1>13, <1>14


\* Rows that two areas share, and columns without a gap.
SharesRows(a, b) == RAreaY2(b) >= a.y /\ b.y <= RAreaY2(a)
NoGap(a, b) == RAreaX2(b) >= a.x - 1 /\ b.x <= RAreaX2(a) + 1

\* Two areas one over the other, of the same width, become one.
LEMMA StackedCovers ==
  ASSUME NEW a \in Solid, NEW b \in Solid
  PROVE  /\ Stacked(a, b) \in Seq(Solid)
         /\ Stacked(a, b) # <<>> => Covered(Stacked(a, b)) = Points(a) \cup Points(b)
<1>1. /\ a \in Area /\ a.x \in Int /\ a.y \in Int /\ a.width \in Int /\ a.height \in Int
      /\ b \in Area /\ b.x \in Int /\ b.y \in Int /\ b.width \in Int /\ b.height \in Int
      /\ a.width > 0 /\ a.height > 0 /\ b.width > 0 /\ b.height > 0
  BY AreaIs DEF Solid
<1>2. RAreaY2(a) = a.y + a.height - 1 /\ RAreaY2(b) = b.y + b.height - 1
  BY DEF RAreaY2
<1> DEFINE One(s, t) == RAreaNew(s.x, t.y, s.width, s.height + t.height)
<1>3. ASSUME NEW s \in {a, b}, NEW t \in {a, b}, s # t, s.x = t.x, s.width = t.width,
             RAreaY2(t) + 1 = s.y,
             NEW r, r = RAreaNew(s.x, t.y, s.width, s.height + t.height)
      PROVE  <<r>> \in Seq(Solid) /\ Covered(<<r>>) = Points(a) \cup Points(b)
  <2>1. /\ s \in Area /\ s.x \in Int /\ s.y \in Int /\ s.width \in Int /\ s.height \in Int
        /\ t \in Area /\ t.x \in Int /\ t.y \in Int /\ t.width \in Int /\ t.height \in Int
        /\ s.width > 0 /\ s.height > 0 /\ t.height > 0 /\ s.y = t.y + t.height
    BY <1>1, <1>2, <1>3
  <2>2. /\ r \in Area /\ r.width > 0 /\ r.height > 0
        /\ r.x = s.x /\ r.y = t.y /\ r.width = s.width /\ r.height = s.height + t.height
    BY <1>3, <2>1, AreaIs DEF RAreaNew
  <2>3. ASSUME NEW z PROVE z \in Points(r) <=> z \in Points(s) \/ z \in Points(t)
    <3>1. CASE z \in Int \X Int
      <4> DEFINE p == z[1]
                 q == z[2]
      <4>1. p \in Int /\ q \in Int
        BY <3>1
      <4> HIDE DEF p, q
      <4>2. r.x <= p /\ p < r.x + r.width /\ r.y <= q /\ q < r.y + r.height <=>
              \/ s.x <= p /\ p < s.x + s.width /\ s.y <= q /\ q < s.y + s.height
              \/ t.x <= p /\ p < t.x + t.width /\ t.y <= q /\ q < t.y + t.height
        BY <1>3, <2>1, <2>2, <4>1
      <4>3. QED
        BY <2>1, <2>2, <3>1, <4>2, PointsIs DEF p, q
    <3>2. CASE z \notin Int \X Int
      BY <2>1, <2>2, <3>2, PointsIs
    <3>3. QED
      BY <3>1, <3>2
  <2>4. Points(r) = Points(a) \cup Points(b)
    BY <1>3, <2>3
  <2>5. QED
    BY <2>2, <2>4, CoveredFew DEF Solid
<1>4. CASE a.width # b.width \/ a.x # b.x
  BY <1>4 DEF Stacked
<1>5. CASE ~ (a.width # b.width \/ a.x # b.x) /\ RAreaY2(b) + 1 = a.y
  <2>1. Stacked(a, b) = <<RAreaNew(a.x, b.y, a.width, a.height + b.height)>>
    <3>1. RAreaY2(a) + 1 # b.y
      BY <1>1, <1>2, <1>5
    <3>2. QED
      BY <1>5, <3>1 DEF Stacked
  <2>2. a # b
    BY <1>1, <1>2, <1>5
  <2>3. QED
    BY <1>3, <1>5, <2>1, <2>2
<1>6. CASE ~ (a.width # b.width \/ a.x # b.x) /\ RAreaY2(b) + 1 # a.y /\ RAreaY2(a) + 1 = b.y
  <2>1. Stacked(a, b) = <<RAreaNew(a.x, a.y, a.width, a.height + b.height)>>
    BY <1>6 DEF Stacked
  <2>2. a # b
    BY <1>1, <1>2, <1>6
  <2>3. RAreaNew(a.x, a.y, a.width, a.height + b.height) =
          RAreaNew(b.x, a.y, b.width, b.height + a.height)
    BY <1>1, <1>6 DEF RAreaNew
  <2>4. QED
    BY <1>3, <1>6, <2>1, <2>2, <2>3
<1>7. CASE ~ (a.width # b.width \/ a.x # b.x) /\ RAreaY2(b) + 1 # a.y /\ RAreaY2(a) + 1 # b.y
  BY <1>7 DEF Stacked
<1>8. QED
  BY <1>4, <1>5, <1>6, <1>7

\* What two areas become covers what they covered; and two that share rows, with
\* no gap between them, do not stay as they are.
LEMMA UnionCovers ==
  ASSUME NEW a \in Solid, NEW b \in Solid, NEW u, u = RAreaHorizontalUnion(a, b)
  PROVE  /\ u \in Seq(Solid)
         /\ u # <<>> => Covered(u) = Points(a) \cup Points(b)
         /\ SharesRows(a, b) /\ NoGap(a, b) => u # <<>>
<1>1. /\ a \in Area /\ a.x \in Int /\ a.y \in Int /\ a.width \in Int /\ a.height \in Int
      /\ b \in Area /\ b.x \in Int /\ b.y \in Int /\ b.width \in Int /\ b.height \in Int
      /\ a.width > 0 /\ a.height > 0 /\ b.width > 0 /\ b.height > 0
  BY AreaIs DEF Solid
<1>2. /\ RAreaX2(a) = a.x + a.width - 1 /\ RAreaY2(a) = a.y + a.height - 1
      /\ RAreaX2(b) = b.x + b.width - 1 /\ RAreaY2(b) = b.y + b.height - 1
  BY DEF RAreaX2, RAreaY2
<1>3. CASE RAreaX2(b) < a.x - 1 \/ b.x > RAreaX2(a) + 1
  <2>1. ~ NoGap(a, b)
    BY <1>1, <1>2, <1>3 DEF NoGap
  <2>2. u = <<>>
    BY <1>3 DEF RAreaHorizontalUnion
  <2>3. QED
    BY <2>1, <2>2
<1>4. CASE ~ (RAreaX2(b) < a.x - 1 \/ b.x > RAreaX2(a) + 1)
           /\ (RAreaY2(b) < a.y \/ b.y > RAreaY2(a))
  <2>1. ~ SharesRows(a, b)
    BY <1>1, <1>2, <1>4 DEF SharesRows
  <2>2. u = Stacked(a, b)
    BY <1>4 DEF RAreaHorizontalUnion
  <2>3. QED
    BY <2>1, <2>2, StackedCovers
<1>5. CASE ~ (RAreaX2(b) < a.x - 1 \/ b.x > RAreaX2(a) + 1)
           /\ ~ (RAreaY2(b) < a.y \/ b.y > RAreaY2(a))
  <2> DEFINE top == IF a.y < b.y THEN a ELSE b
             bot == IF a.y < b.y THEN b ELSE a
             minx == Min({a.x, b.x})
             maxx == Max({RAreaX2(a), RAreaX2(b)})
             low == Min({RAreaY2(top), RAreaY2(bot)})
             rest == IF RAreaY2(bot) < RAreaY2(top) THEN top ELSE bot
             above == RAreaNew(top.x, top.y, top.width, bot.y - top.y)
             both == RAreaNew(minx, bot.y, maxx - minx + 1, low - Max({top.y, bot.y}) + 1)
             below == RAreaNew(rest.x, low + 1, rest.width, RAreaY2(rest) - low)
  <2>1. u = High(above) \o High(both) \o High(below)
    BY <1>5, Zenon DEF RAreaHorizontalUnion
  <2>2. /\ top \in Solid /\ bot \in Solid /\ {top, bot} = {a, b}
        /\ top.y <= bot.y /\ bot.y <= RAreaY2(top)
        /\ bot.x <= RAreaX2(top) + 1 /\ top.x <= RAreaX2(bot) + 1
    <3>1. CASE a.y < b.y
      BY <1>1, <1>2, <1>5, <3>1
    <3>2. CASE ~ (a.y < b.y)
      BY <1>1, <1>2, <1>5, <3>2
    <3>3. QED
      BY <3>1, <3>2
  <2>3. /\ RAreaY2(top) \in Int /\ RAreaY2(bot) \in Int /\ top.y \in Int /\ bot.y \in Int
        /\ RAreaX2(top) \in Int /\ RAreaX2(bot) \in Int /\ top.x \in Int /\ bot.x \in Int
        /\ {RAreaX2(a), RAreaX2(b)} = {RAreaX2(top), RAreaX2(bot)} /\ {a.x, b.x} = {top.x, bot.x}
    BY <1>1, <1>2
  <2> HIDE DEF top, bot
  <2>4. Max({top.y, bot.y}) = bot.y
    <3> DEFINE ys == {top.y, bot.y}
    <3>1. Max(ys) \in {top.y, bot.y} /\ Max(ys) >= bot.y
      <4> HIDE DEF ys
      <4>1. ys = {top.y, bot.y}
        BY DEF ys
      <4>2. QED
        BY <2>3, <4>1, ExtremesOfTwo
    <3>2. QED
      BY <2>2, <2>3, <3>1
  <2>5. minx \in {top.x, bot.x} /\ minx <= top.x /\ minx <= bot.x
    BY <2>3, ExtremesOfTwo
  <2>6. maxx \in {RAreaX2(top), RAreaX2(bot)} /\ maxx >= RAreaX2(top) /\ maxx >= RAreaX2(bot)
    BY <2>3, ExtremesOfTwo
  <2>7. low \in {RAreaY2(top), RAreaY2(bot)} /\ low <= RAreaY2(top) /\ low <= RAreaY2(bot)
    BY <2>3, ExtremesOfTwo
  <2>8. /\ rest \in {top, bot} /\ RAreaY2(rest) >= RAreaY2(top) /\ RAreaY2(rest) >= RAreaY2(bot)
        /\ \/ rest = top /\ RAreaY2(bot) < RAreaY2(top)
           \/ rest = bot /\ RAreaY2(top) <= RAreaY2(bot)
    BY <2>3
  <2>9. OneAbove(top, bot) /\ Extent(top, bot, minx, maxx, low, rest)
    BY <2>2, <2>5, <2>6, <2>7, <2>8 DEF OneAbove, Extent
  <2>10. u = Spanned(top, bot, minx, maxx, low, rest)
    BY <2>1, <2>4, Zenon DEF Spanned
  <2>11. Points(top) \cup Points(bot) = Points(a) \cup Points(b)
    BY <2>2
  <2> HIDE DEF minx, maxx, low, rest
  <2>12. u \in Seq(Solid) /\ Covered(u) = Points(top) \cup Points(bot) /\ u # <<>>
    BY <2>9, <2>10, SpanCovers
  <2>13. QED
    BY <2>11, <2>12
<1>6. QED
  BY <1>3, <1>4, <1>5


(***************************************************************************)
(* Sorting, and what is kept of a list.                                     *)
(***************************************************************************)

\* A list cut in two at place k.
LEMMA CutRange ==
  ASSUME NEW E, NEW q \in Seq(E), NEW k \in 1 .. Len(q) + 1
  PROVE  /\ SubSeq(q, 1, k - 1) \in Seq(E) /\ SubSeq(q, k, Len(q)) \in Seq(E)
         /\ Range(SubSeq(q, 1, k - 1)) \cup Range(SubSeq(q, k, Len(q))) = Range(q)
<1> DEFINE n == Len(q)
           a == SubSeq(q, 1, k - 1)
           b == SubSeq(q, k, n)
<1>1. n \in Nat /\ k \in Nat /\ k >= 1 /\ k <= n + 1 /\ \A j \in 1 .. n : q[j] \in E
  BY RangeIs
<1>2. /\ a \in Seq(E) /\ Len(a) = k - 1
      /\ \A j \in 1 .. k - 1 : a[j] = q[j]
  <2>1. \A j \in 1 .. k - 1 : q[j] \in E
    BY <1>1
  <2> HIDE DEF n
  <2>2. /\ a \in Seq(E) /\ Len(a) = (IF 1 <= k - 1 THEN k - 1 - 1 + 1 ELSE 0)
        /\ \A j \in 1 .. k - 1 - 1 + 1 : a[j] = q[1 + j - 1]
    BY <1>1, <2>1, SubSeqProperties
  <2> HIDE DEF a
  <2>3. QED
    BY <1>1, <2>2
<1>3. /\ b \in Seq(E) /\ Len(b) = n - k + 1
      /\ \A j \in 1 .. n - k + 1 : b[j] = q[k + j - 1]
  <2>1. (\A j \in k .. n : q[j] \in E) /\ k \in Int /\ n \in Int
    BY <1>1
  <2> HIDE DEF n
  <2>2. /\ b \in Seq(E) /\ Len(b) = (IF k <= n THEN n - k + 1 ELSE 0)
        /\ \A j \in 1 .. n - k + 1 : b[j] = q[k + j - 1]
    BY <2>1, SubSeqProperties
  <2> HIDE DEF b
  <2>3. QED
    BY <1>1, <2>2
<1> HIDE DEF a, b, n
<1>4. ASSUME NEW e \in Range(a) PROVE e \in Range(q)
  <2>1. PICK j \in 1 .. Len(a) : e = a[j]
    BY <1>2, RangeIs
  <2>2. j \in 1 .. n /\ e = q[j]
    BY <1>1, <1>2, <2>1
  <2>3. QED
    BY <2>2, RangeIs DEF n
<1>5. ASSUME NEW e \in Range(b) PROVE e \in Range(q)
  <2>1. PICK j \in 1 .. Len(b) : e = b[j]
    BY <1>3, RangeIs
  <2>2. k + j - 1 \in 1 .. n /\ e = q[k + j - 1]
    BY <1>1, <1>3, <2>1
  <2>3. QED
    BY <2>2, RangeIs DEF n
<1>6. ASSUME NEW e \in Range(q) PROVE e \in Range(a) \cup Range(b)
  <2>1. PICK j \in 1 .. n : e = q[j]
    BY RangeIs DEF n
  <2>2. CASE j < k
    <3>1. j \in 1 .. Len(a) /\ e = a[j]
      BY <1>1, <1>2, <2>1, <2>2
    <3>2. QED
      BY <3>1, <1>2, RangeIs
  <2>3. CASE j >= k
    <3>1. j - k + 1 \in 1 .. Len(b) /\ k + (j - k + 1) - 1 = j
      BY <1>1, <1>3, <2>1, <2>3
    <3>2. b[j - k + 1] = e
      BY <1>3, <2>1, <3>1
    <3>3. QED
      BY <3>1, <3>2, <1>3, RangeIs
  <2>4. QED
    BY <1>1, <2>1, <2>2, <2>3
<1>7. QED
  BY <1>2, <1>3, <1>4, <1>5, <1>6 DEF a, b, n

\* A list into which an area has been put has it, and what it had.
LEMMA InsertedHas ==
  ASSUME NEW E, NEW s \in Seq(E), NEW a \in E, NEW q \in Sorted(s, a)
  PROVE  q \in Seq(E) /\ Range(q) = Range(s) \cup {a}
<1>1. PICK k \in 1 .. Len(s) + 1 : q = InsertAt(s, k, a)
  BY DEF Sorted
<1> DEFINE p == SubSeq(s, 1, k - 1)
           r == SubSeq(s, k, Len(s))
           one == <<a>>
           m == p \o one
<1>2. p \in Seq(E) /\ r \in Seq(E) /\ Range(p) \cup Range(r) = Range(s)
  BY CutRange
<1>3. one \in Seq(E) /\ Range(one) = {a}
  BY DEF Range
<1>4. q = m \o r
  BY <1>1 DEF InsertAt
<1> HIDE DEF p, r, one
<1>5. m \in Seq(E) /\ Range(m) = Range(p) \cup {a}
  BY <1>2, <1>3, ConcatRange
<1> HIDE DEF m
<1>6. q \in Seq(E) /\ Range(q) = Range(m) \cup Range(r)
  BY <1>2, <1>4, <1>5, ConcatRange
<1>7. QED
  BY <1>2, <1>5, <1>6

\* f holds the orders of the first areas of a list, for each number of them.
Sorts(f, list) ==
  f = [i \in 0 .. Len(list) |->
         IF i = 0 THEN {<<>>} ELSE UNION {Sorted(s, list[i]) : s \in f[i - 1]}]

Orders(list) == CHOOSE f : Sorts(f, list)

LEMMA OrdersAre ==
  ASSUME NEW E, NEW list \in Seq(E)
  PROVE  LET f == Orders(list)
         IN  /\ f[0] = {<<>>}
             /\ \A i \in 1 .. Len(list) : f[i] = UNION {Sorted(s, list[i]) : s \in f[i - 1]}
<1> DEFINE n == Len(list)
           A == SUBSET Seq(E)
           Next1(S, i) == UNION {Sorted(s, list[i]) : s \in S}
           h == [p \in A \X (1 .. n) |-> Next1(p[1], p[2])]
<1>1. n \in Nat /\ \A i \in 1 .. n : list[i] \in E
  BY LenProperties, ElementOfSeq
<1>2. {<<>>} \in A
  BY EmptySeq
<1> HIDE DEF n
<1>3. \A S \in A : \A i \in 1 .. n : Next1(S, i) \in A
  <2>1. ASSUME NEW S \in A, NEW i \in 1 .. n, NEW q \in Next1(S, i) PROVE q \in Seq(E)
    <3>1. PICK s \in S : q \in Sorted(s, list[i])
      BY <2>1
    <3>2. s \in Seq(E)
      BY <3>1
    <3>3. QED
      BY <1>1, <3>1, <3>2, InsertedHas
  <2> HIDE DEF Next1
  <2>2. QED
    BY <2>1
<1> HIDE DEF Next1
<1>4. h \in [A \X (1 .. n) -> A]
  <2> HIDE DEF A
  <2>1. QED
    BY <1>3
<1>5. PICK f : f \in [0 .. n -> A] /\ f[0] = {<<>>} /\ \A i \in 1 .. n : f[i] = h[<<f[i - 1], i>>]
  <2> HIDE DEF A, h
  <2>1. PICK f : Recursion(f, n, A, {<<>>}, h)
    BY <1>1, <1>2, <1>4, RecursionExists
  <2>2. QED
    BY <2>1 DEF Recursion
<1> HIDE DEF A
<1>6. \A i \in 1 .. n : f[i] = Next1(f[i - 1], i)
  <2>1. TAKE i \in 1 .. n
  <2>2. i - 1 \in 0 .. n
    BY <1>1
  <2>3. f[i - 1] \in A
    BY <1>5, <2>2
  <2>4. <<f[i - 1], i>> \in A \X (1 .. n)
    BY <2>3
  <2>5. QED
    BY <1>5, <2>4
<1>7. Sorts(f, list)
  <2> DEFINE V(i) == IF i = 0 THEN {<<>>} ELSE Next1(f[i - 1], i)
  <2>1. \A i \in 0 .. n : f[i] = V(i)
    <3>1. \A i \in 0 .. n : i = 0 \/ i \in 1 .. n
      BY <1>1
    <3>2. QED
      BY <1>5, <1>6, <3>1
  <2> HIDE DEF V
  <2>2. f = [i \in 0 .. n |-> V(i)]
    BY <1>5, <2>1
  <2>3. QED
    BY <2>2 DEF V, Sorts, n, Next1
<1> DEFINE g == Orders(list)
<1>8. Sorts(g, list)
  BY <1>7 DEF Orders
<1> HIDE DEF g
<1>9. g[0] = {<<>>} /\ \A i \in 1 .. n : g[i] = Next1(g[i - 1], i)
  <2> DEFINE V(i) == IF i = 0 THEN {<<>>} ELSE Next1(g[i - 1], i)
  <2>1. g = [i \in 0 .. n |-> V(i)]
    BY <1>8 DEF Sorts, n, Next1
  <2>2. V(0) = {<<>>}
    OBVIOUS
  <2>3. \A i \in 1 .. n : V(i) = Next1(g[i - 1], i)
    <3>1. \A i \in 1 .. n : i # 0
      BY <1>1
    <3>2. QED
      BY <3>1, Zenon
  <2>4. 0 \in 0 .. n /\ \A i \in 1 .. n : i \in 0 .. n
    BY <1>1
  <2> HIDE DEF V
  <2>5. \A i \in 0 .. n : g[i] = V(i)
    BY <2>1
  <2>6. QED
    BY <2>2, <2>3, <2>4, <2>5
<1>10. QED
  BY <1>9 DEF g, n, Next1

\* An order that qsort may leave has the areas of the list and no other.
LEMMA SortIs ==
  ASSUME NEW E, NEW list \in Seq(E), NEW q \in RAreaListSortX(list)
  PROVE  q \in Seq(E) /\ Range(q) = Range(list)
<1> DEFINE n == Len(list)
           f == Orders(list)
           Good(i) == \A s \in f[i] : s \in Seq(E) /\ Range(s) = {list[j] : j \in 1 .. i}
           T == {i \in 0 .. n : ~ Good(i)}
<1>1. n \in Nat /\ \A i \in 1 .. n : list[i] \in E
  BY LenProperties, ElementOfSeq
<1>2. f[0] = {<<>>} /\ \A i \in 1 .. n : f[i] = UNION {Sorted(s, list[i]) : s \in f[i - 1]}
  BY OrdersAre
<1>3. q \in f[n]
  BY Zenon DEF RAreaListSortX, Orders, Sorts
<1> HIDE DEF f, n
<1>4. T = {}
  <2>1. SUFFICES ASSUME T # {} PROVE FALSE
    OBVIOUS
  <2>2. PICK i \in T : \A k \in T : i <= k
    <3>1. T \in SUBSET Nat
      OBVIOUS
    <3>2. QED
      BY <2>1, <3>1, LeastNat
  <2>3. i # 0
    <3>1. Range(<<>>) = {} /\ {list[j] : j \in 1 .. 0} = {} /\ <<>> \in Seq(E)
      BY DEF Range
    <3>2. Good(0)
      BY <1>2, <3>1
    <3>3. QED
      BY <2>2, <3>2
  <2>4. i \in 1 .. n /\ i - 1 \in 0 .. n /\ Good(i - 1)
    <3>1. i \in 1 .. n /\ i - 1 \in 0 .. n /\ ~ (i <= i - 1)
      BY <1>1, <2>2, <2>3
    <3> HIDE DEF Good
    <3>2. QED
      BY <2>2, <3>1
  <2>5. ASSUME NEW p \in f[i]
        PROVE  p \in Seq(E) /\ Range(p) = {list[j] : j \in 1 .. i}
    <3>1. PICK s \in f[i - 1] : p \in Sorted(s, list[i])
      BY <1>2, <2>4
    <3>2. s \in Seq(E) /\ Range(s) = {list[j] : j \in 1 .. i - 1} /\ list[i] \in E
      BY <1>1, <2>4, <3>1
    <3>3. p \in Seq(E) /\ Range(p) = Range(s) \cup {list[i]}
      BY <3>1, <3>2, InsertedHas
    <3>4. \A j : j \in 1 .. i <=> j \in 1 .. i - 1 \/ j = i
      BY <2>4
    <3>5. QED
      BY <3>2, <3>3, <3>4
  <2>6. QED
    BY <2>2, <2>5
<1>5. n \in 0 .. n /\ n \notin T
  BY <1>1, <1>4
<1>6. q \in Seq(E) /\ Range(q) = {list[j] : j \in 1 .. n}
  BY <1>3, <1>5
<1>7. Range(list) = {list[j] : j \in 1 .. n}
  BY RangeIs DEF n
<1>8. QED
  BY <1>6, <1>7


\* f holds what is kept of the first areas of a list, for each number of them.
Keeps(f, list, good) ==
  f = [i \in 0 .. Len(list) |->
         IF i = 0 THEN <<>>
         ELSE IF list[i] \in good THEN Append(f[i - 1], list[i]) ELSE f[i - 1]]

\* What is kept of a list is a list of what may be kept.
LEMMA KeptIs ==
  ASSUME NEW E, NEW list \in Seq(E), NEW good, NEW G, \A e \in E : e \in good => e \in G
  PROVE  Kept(list, good) \in Seq(G)
<1> DEFINE n == Len(list)
           A == Seq(G)
           Step(q, i) == IF list[i] \in good THEN Append(q, list[i]) ELSE q
           h == [p \in A \X (1 .. n) |-> Step(p[1], p[2])]
<1>1. n \in Nat /\ \A i \in 1 .. n : list[i] \in E
  BY LenProperties, ElementOfSeq
<1>2. <<>> \in A
  BY EmptySeq
<1> HIDE DEF n
<1>3. \A q \in A : \A i \in 1 .. n : Step(q, i) \in A
  <2>1. ASSUME NEW q \in A, NEW i \in 1 .. n PROVE Step(q, i) \in A
    <3>1. CASE list[i] \in good
      <4>1. list[i] \in G
        BY <1>1, <3>1
      <4>2. Append(q, list[i]) \in Seq(G)
        BY <4>1, AppendProperties
      <4>3. QED
        BY <3>1, <4>2
    <3>2. CASE list[i] \notin good
      BY <3>2
    <3>3. QED
      BY <3>1, <3>2
  <2> HIDE DEF Step, A
  <2>2. QED
    BY <2>1
<1> HIDE DEF Step
<1>4. h \in [A \X (1 .. n) -> A]
  <2> HIDE DEF A
  <2>1. QED
    BY <1>3
<1>5. PICK f : f \in [0 .. n -> A] /\ f[0] = <<>> /\ \A i \in 1 .. n : f[i] = h[<<f[i - 1], i>>]
  <2> HIDE DEF A, h
  <2>1. PICK f : Recursion(f, n, A, <<>>, h)
    BY <1>1, <1>2, <1>4, RecursionExists
  <2>2. QED
    BY <2>1 DEF Recursion
<1> HIDE DEF A
<1>6. \A i \in 1 .. n : f[i] = Step(f[i - 1], i)
  <2>1. TAKE i \in 1 .. n
  <2>2. i - 1 \in 0 .. n
    BY <1>1
  <2>3. f[i - 1] \in A
    BY <1>5, <2>2
  <2>4. <<f[i - 1], i>> \in A \X (1 .. n)
    BY <2>3
  <2>5. QED
    BY <1>5, <2>4
<1>7. Keeps(f, list, good)
  <2> DEFINE V(i) == IF i = 0 THEN <<>> ELSE Step(f[i - 1], i)
  <2>1. \A i \in 0 .. n : f[i] = V(i)
    <3>1. \A i \in 0 .. n : i = 0 \/ i \in 1 .. n
      BY <1>1
    <3>2. QED
      BY <1>5, <1>6, <3>1
  <2> HIDE DEF V
  <2>2. f = [i \in 0 .. n |-> V(i)]
    BY <1>5, <2>1
  <2>3. QED
    BY <2>2, Zenon DEF V, Keeps, n, Step
<1> DEFINE g == CHOOSE p : Keeps(p, list, good)
<1>8. Keeps(g, list, good)
  BY <1>7
<1> HIDE DEF g
<1>9. g[0] = <<>> /\ \A i \in 1 .. n : g[i] = Step(g[i - 1], i)
  <2> DEFINE V(i) == IF i = 0 THEN <<>> ELSE Step(g[i - 1], i)
  <2>1. g = [i \in 0 .. n |-> V(i)]
    BY <1>8, Zenon DEF Keeps, n, Step
  <2>2. V(0) = <<>>
    OBVIOUS
  <2>3. \A i \in 1 .. n : V(i) = Step(g[i - 1], i)
    <3>1. \A i \in 1 .. n : i # 0
      BY <1>1
    <3>2. QED
      BY <3>1, Zenon
  <2>4. 0 \in 0 .. n /\ \A i \in 1 .. n : i \in 0 .. n
    BY <1>1
  <2> HIDE DEF V
  <2>5. \A i \in 0 .. n : g[i] = V(i)
    BY <2>1
  <2>6. QED
    BY <2>2, <2>3, <2>4, <2>5
<1> DEFINE T == {i \in 0 .. n : g[i] \notin A}
<1>10. T = {}
  <2>1. SUFFICES ASSUME T # {} PROVE FALSE
    OBVIOUS
  <2>2. PICK i \in T : \A k \in T : i <= k
    <3>1. T \in SUBSET Nat
      OBVIOUS
    <3>2. QED
      BY <2>1, <3>1, LeastNat
  <2>3. i # 0
    BY <1>2, <1>9, <2>2 DEF A
  <2>4. i \in 1 .. n /\ i - 1 \in 0 .. n /\ ~ (i <= i - 1)
    BY <1>1, <2>2, <2>3
  <2>5. g[i - 1] \in A
    BY <2>2, <2>4
  <2>6. g[i] \in A
    BY <1>3, <1>9, <2>4, <2>5
  <2>7. QED
    BY <2>2, <2>6
<1>11. g[n] \in A
  BY <1>1, <1>10
<1>12. Kept(list, good) = g[n]
  BY Zenon DEF Kept, Keeps, g, n
<1>13. QED
  BY <1>11, <1>12 DEF A

(***************************************************************************)
(* A cut.                                                                   *)
(***************************************************************************)

\* A place before the one that is deleted keeps its area.
LEMMA RemoveAtBefore ==
  ASSUME NEW E, NEW q \in Seq(E), NEW i \in 1 .. Len(q), NEW j \in 1 .. Len(q), j < i
  PROVE  /\ RemoveAt(q, i)[j] = q[j]
         /\ j \in 1 .. Len(RemoveAt(q, i))
<1> DEFINE n == Len(q)
           a == SubSeq(q, 1, i - 1)
           b == SubSeq(q, i + 1, n)
<1>1. n \in Nat /\ i \in Nat /\ i >= 1 /\ i <= n /\ \A k \in 1 .. n : q[k] \in E
  BY RangeIs
<1>2. /\ a \in Seq(E) /\ Len(a) = i - 1
      /\ \A k \in 1 .. i - 1 : a[k] = q[k]
  <2>1. \A k \in 1 .. i - 1 : q[k] \in E
    BY <1>1
  <2> HIDE DEF n
  <2>2. /\ a \in Seq(E) /\ Len(a) = (IF 1 <= i - 1 THEN i - 1 - 1 + 1 ELSE 0)
        /\ \A k \in 1 .. i - 1 - 1 + 1 : a[k] = q[1 + k - 1]
    BY <1>1, <2>1, SubSeqProperties
  <2> HIDE DEF a
  <2>3. QED
    BY <1>1, <2>2
<1>3. b \in Seq(E)
  <2>1. (\A k \in i + 1 .. n : q[k] \in E) /\ i + 1 \in Int /\ n \in Int
    BY <1>1
  <2> HIDE DEF n
  <2>2. QED
    BY <2>1, SubSeqProperties
<1>4. RemoveAt(q, i) = a \o b
  BY DEF RemoveAt
<1> HIDE DEF a, b, n
<1>5. Len(b) \in Nat
  BY <1>3, LenProperties
<1>6. j \in 1 .. Len(a) /\ j \in 1 .. Len(a) + Len(b)
  BY <1>1, <1>2, <1>5
<1>7. (a \o b)[j] = a[j] /\ Len(a \o b) = Len(a) + Len(b)
  <2>1. /\ Len(a \o b) = Len(a) + Len(b)
        /\ \A k \in 1 .. Len(a) + Len(b) :
             (a \o b)[k] = IF k <= Len(a) THEN a[k] ELSE b[k - Len(a)]
    BY <1>2, <1>3, ConcatProperties
  <2>2. j <= Len(a)
    BY <1>1, <1>2, <1>6
  <2>3. QED
    BY <1>6, <2>1, <2>2
<1>8. QED
  BY <1>1, <1>2, <1>4, <1>6, <1>7

\* The first pair that touches, as the two loops find it.
First(list, p) ==
  p \in Touching(list) /\ \A q \in Touching(list) : p[1] < q[1] \/ (p[1] = q[1] /\ p[2] <= q[2])

LEMMA FirstExists ==
  ASSUME NEW E, NEW list \in Seq(E), Touching(list) # {}
  PROVE  \E p : First(list, p)
<1> DEFINE S == Touching(list)
           L == {p[1] : p \in S}
<1>1. \A p \in S : /\ p = <<p[1], p[2]>> /\ p[1] \in 1 .. Len(list) /\ p[2] \in 1 .. Len(list)
                   /\ p[1] < p[2]
  BY LenProperties DEF Touching
<1>2. Len(list) \in Nat
  BY LenProperties
<1> HIDE DEF S
<1>3. L \in SUBSET Nat /\ L # {}
  BY <1>1, <1>2 DEF S
<1>4. PICK i \in L : \A j \in L : i <= j
  <2> HIDE DEF L
  <2>1. QED
    BY <1>3, LeastNat
<1> DEFINE R == {p[2] : p \in {q \in S : q[1] = i}}
<1>5. R \in SUBSET Nat /\ R # {}
  BY <1>1, <1>2, <1>4
<1>6. PICK k \in R : \A j \in R : k <= j
  <2> HIDE DEF R
  <2>1. QED
    BY <1>5, LeastNat
<1>7. PICK p \in S : p[1] = i /\ p[2] = k
  BY <1>6
<1>8. ASSUME NEW q \in S PROVE p[1] < q[1] \/ (p[1] = q[1] /\ p[2] <= q[2])
  <2>1. i <= q[1] /\ i \in Nat /\ q[1] \in Nat
    BY <1>1, <1>2, <1>3, <1>4
  <2>2. CASE q[1] = i
    <3>1. q[2] \in R
      BY <2>2
    <3>2. QED
      BY <1>6, <1>7, <2>2, <3>1
  <2>3. QED
    BY <1>7, <2>1, <2>2
<1>9. QED
  BY <1>7, <1>8 DEF First, S

\* Cutting and joining a pair loses no point and adds none.
LEMMA RefinedCovers ==
  ASSUME NEW list \in Seq(Solid), Touching(list) # {}
  PROVE  Refined(list) \in Seq(Solid) /\ Covered(Refined(list)) = Covered(list)
<1> DEFINE p == CHOOSE q : First(list, q)
<1>1. First(list, p)
  BY FirstExists
<1> DEFINE i == p[1]
           j == p[2]
<1>2. /\ i \in 1 .. Len(list) /\ j \in 1 .. Len(list) /\ i < j
      /\ RAreaHorizontalUnion(list[i], list[j]) # <<>>
  <2> HIDE DEF p
  <2>1. p \in Touching(list)
    BY <1>1 DEF First
  <2>2. QED
    BY <2>1, LenProperties DEF Touching
<1> DEFINE u == RAreaHorizontalUnion(list[i], list[j])
           a == RemoveAt(list, j)
           b == RemoveAt(a, i)
<1>3. Refined(list) = b \o u
  <2>1. p = CHOOSE q \in Touching(list) : \A r \in Touching(list) :
              q[1] < r[1] \/ (q[1] = r[1] /\ q[2] <= r[2])
    BY Zenon DEF First
  <2> HIDE DEF p
  <2>2. QED
    BY <2>1, Zenon DEF Refined
<1> HIDE DEF p, i, j
<1>4. list[i] \in Solid /\ list[j] \in Solid /\ list[i] \in Range(list) /\ list[j] \in Range(list)
  BY <1>2, RangeIs
<1>5. u \in Seq(Solid) /\ Covered(u) = Points(list[i]) \cup Points(list[j])
  BY <1>2, <1>4, UnionCovers
<1> HIDE DEF u
<1>6. /\ a \in Seq(Solid) /\ Range(a) \subseteq Range(list)
      /\ \A e \in Range(list) : e # list[j] => e \in Range(a)
      /\ a[i] = list[i] /\ i \in 1 .. Len(a)
  BY <1>2, RemoveAtRange, RemoveAtBefore
<1> HIDE DEF a
<1>7. /\ b \in Seq(Solid) /\ Range(b) \subseteq Range(a)
      /\ \A e \in Range(a) : e # a[i] => e \in Range(b)
  BY <1>6, RemoveAtRange
<1> HIDE DEF b
<1>8. b \o u \in Seq(Solid) /\ Covered(b \o u) = Covered(b) \cup Covered(u)
  BY <1>5, <1>7, CoveredConcat
<1>9. Covered(list) = PointsOf(Range(list)) /\ Covered(b) = PointsOf(Range(b))
  BY <1>7, CoveredIs
<1>10. Covered(b) \cup Points(list[i]) \cup Points(list[j]) = Covered(list)
  BY <1>4, <1>6, <1>7, <1>9 DEF PointsOf
<1>11. QED
  BY <1>3, <1>5, <1>8, <1>10


(***************************************************************************)
(* Stripes.                                                                 *)
(***************************************************************************)

\* In a list in which no two areas touch, two that share rows have a gap between
\* them.
LEMMA Apart ==
  ASSUME NEW list \in Seq(Solid), Touching(list) = {},
         NEW i \in 1 .. Len(list), NEW j \in 1 .. Len(list), i # j
  PROVE  ~ (SharesRows(list[i], list[j]) /\ NoGap(list[i], list[j]))
<1>1. Len(list) \in Nat /\ DOMAIN list = 1 .. Len(list)
  BY LenProperties
<1>2. ASSUME NEW k \in 1 .. Len(list), NEW m \in 1 .. Len(list), k < m
      PROVE  ~ (SharesRows(list[k], list[m]) /\ NoGap(list[k], list[m]))
  <2> DEFINE p == <<k, m>>
             u == RAreaHorizontalUnion(list[p[1]], list[p[2]])
  <2>1. p \in (DOMAIN list) \X (DOMAIN list) /\ p[1] < p[2] /\ p[1] = k /\ p[2] = m
    BY <1>1, <1>2
  <2> HIDE DEF p
  <2>2. u = <<>>
    BY <2>1 DEF Touching
  <2>3. list[k] \in Solid /\ list[m] \in Solid /\ u = RAreaHorizontalUnion(list[k], list[m])
    BY <2>1, RangeIs
  <2> HIDE DEF u
  <2>4. QED
    BY <2>2, <2>3, UnionCovers
<1>3. list[i] \in Solid /\ list[j] \in Solid
  BY RangeIs
<1>4. CASE i < j
  BY <1>2, <1>4
<1>5. CASE j < i
  <2>1. ~ (SharesRows(list[j], list[i]) /\ NoGap(list[j], list[i]))
    BY <1>2, <1>5
  <2> DEFINE a == list[i]
             b == list[j]
  <2>2. a.x \in Int /\ a.y \in Int /\ a.width \in Int /\ a.height \in Int
    BY <1>3, AreaIs DEF Solid
  <2>3. b.x \in Int /\ b.y \in Int /\ b.width \in Int /\ b.height \in Int
    BY <1>3, AreaIs DEF Solid
  <2> HIDE DEF a, b
  <2>4. SharesRows(a, b) => SharesRows(b, a)
    BY <2>2, <2>3 DEF SharesRows, RAreaY2
  <2>5. NoGap(a, b) => NoGap(b, a)
    BY <2>2, <2>3 DEF NoGap, RAreaX2
  <2>6. QED
    BY <2>1, <2>4, <2>5 DEF a, b
<1>6. QED
  BY <1>1, <1>4, <1>5

\* The last column and row of an area.
LEMMA LastColumn ==
  ASSUME NEW a \in Area
  PROVE  RAreaX2(a) + 1 = a.x + a.width /\ RAreaY2(a) = a.y + a.height - 1
<1>1. a.x \in Int /\ a.y \in Int /\ a.width \in Int /\ a.height \in Int
  BY AreaIs
<1>2. QED
  BY <1>1 DEF RAreaX2, RAreaY2

\* An area that has the point beside a row of another one touches it.
LEMMA Beside ==
  ASSUME NEW a \in Solid, NEW b \in Solid, NEW x0 \in Int, NEW y0 \in Int,
         x0 = a.x - 1 \/ x0 = a.x + a.width, a.y <= y0, y0 < a.y + a.height,
         b.x <= x0, x0 < b.x + b.width, b.y <= y0, y0 < b.y + b.height
  PROVE  SharesRows(a, b) /\ NoGap(a, b) /\ a # b
<1>1. /\ a.x \in Int /\ a.y \in Int /\ a.width \in Int /\ a.height \in Int
      /\ b.x \in Int /\ b.y \in Int /\ b.width \in Int /\ b.height \in Int
      /\ a.width > 0 /\ a.height > 0
  BY AreaIs DEF Solid
<1>2. SharesRows(a, b)
  BY <1>1 DEF SharesRows, RAreaY2
<1>3. NoGap(a, b)
  BY <1>1 DEF NoGap, RAreaX2
<1>4. a # b
  BY <1>1
<1>5. QED
  BY <1>2, <1>3, <1>4

\* Such a list: every area reaches from side to side wherever it is, and no two
\* overlap.
AreStripes(list) ==
  /\ \A i \in DOMAIN list : Run(Covered(list), list[i])
  /\ \A i, j \in DOMAIN list : i # j => ~ RAreaIsIntersect(list[i], list[j])

LEMMA StripesReach ==
  ASSUME NEW list \in Seq(Solid), Touching(list) = {}
  PROVE  AreStripes(list)
<1>1. Len(list) \in Nat /\ DOMAIN list = 1 .. Len(list)
  BY LenProperties
<1>2. ASSUME NEW i \in 1 .. Len(list), NEW j \in 1 .. Len(list), i # j
      PROVE  ~ RAreaIsIntersect(list[i], list[j])
  <2> DEFINE a == list[i]
             b == list[j]
  <2>1. a \in Area /\ b \in Area /\ ~ (SharesRows(a, b) /\ NoGap(a, b))
    BY <1>2, Apart, RangeIs DEF Solid
  <2> HIDE DEF a, b
  <2>2. /\ a.x \in Int /\ a.y \in Int /\ a.width \in Int /\ a.height \in Int
        /\ b.x \in Int /\ b.y \in Int /\ b.width \in Int /\ b.height \in Int
    BY <2>1, AreaIs
  <2>3. /\ RAreaX2(a) = a.x + a.width - 1 /\ RAreaX2(b) = b.x + b.width - 1
        /\ RAreaY2(a) = a.y + a.height - 1 /\ RAreaY2(b) = b.y + b.height - 1
    BY DEF RAreaX2, RAreaY2
  <2>4. RAreaIsIntersect(a, b) => SharesRows(a, b) /\ NoGap(a, b)
    BY <2>2, <2>3 DEF RAreaIsIntersect, SharesRows, NoGap
  <2>5. QED
    BY <2>1, <2>4 DEF a, b
<1>3. ASSUME NEW i \in 1 .. Len(list) PROVE Run(Covered(list), list[i])
  <2> DEFINE a == list[i]
  <2>1. a \in Solid /\ a \in Area /\ a \in Range(list)
    BY RangeIs DEF Solid
  <2>2. Points(a) \subseteq Covered(list)
    <3>1. Covered(list) = PointsOf(Range(list))
      BY CoveredIs
    <3> HIDE DEF a
    <3>2. QED
      BY <2>1, <3>1 DEF PointsOf
  <2>3. ASSUME NEW y0 \in a.y .. RAreaY2(a), NEW x0 \in {a.x - 1, RAreaX2(a) + 1},
               <<x0, y0>> \in Covered(list)
        PROVE  FALSE
    <3>1. PICK b \in Range(list) : <<x0, y0>> \in Points(b)
      BY <2>3, CoveredIs DEF PointsOf
    <3>2. PICK j \in 1 .. Len(list) : b = list[j]
      BY RangeIs
    <3>3. b \in Solid /\ b \in Area
      BY RangeIs DEF Solid
    <3> DEFINE z == <<x0, y0>>
    <3>4. z \in Points(b) /\ z[1] = x0 /\ z[2] = y0
      BY <3>1
    <3> HIDE DEF z, a
    <3>5. /\ x0 \in Int /\ y0 \in Int
          /\ b.x <= x0 /\ x0 < b.x + b.width /\ b.y <= y0 /\ y0 < b.y + b.height
      <4>1. /\ z \in Int \X Int /\ b.x <= z[1] /\ z[1] < b.x + b.width
            /\ b.y <= z[2] /\ z[2] < b.y + b.height
        BY <3>3, <3>4, PointsIs
      <4>2. QED
        BY <3>4, <4>1
    <3>6. /\ a.x \in Int /\ a.y \in Int /\ a.width \in Int /\ a.height \in Int
          /\ b.x \in Int /\ b.y \in Int /\ b.width \in Int /\ b.height \in Int
          /\ a.width > 0 /\ a.height > 0
      BY <2>1, <3>3, AreaIs DEF Solid
    <3>7. SharesRows(a, b) /\ NoGap(a, b) /\ a # b
      <4>1. RAreaX2(a) + 1 = a.x + a.width /\ RAreaY2(a) = a.y + a.height - 1
        BY <2>1, LastColumn
      <4>2. x0 = a.x - 1 \/ x0 = a.x + a.width
        <5>1. x0 = a.x - 1 \/ x0 = RAreaX2(a) + 1
          BY <2>3, Zenon
        <5>2. QED
          BY <4>1, <5>1, Zenon
      <4>3. y0 \in a.y .. (a.y + a.height - 1)
        BY <2>3, <4>1
      <4>4. a.y <= y0 /\ y0 < a.y + a.height
        BY <3>5, <3>6, <4>3
      <4>5. QED
        BY <2>1, <3>3, <3>5, <4>2, <4>4, Beside
    <3>9. i # j
      BY <3>2, <3>7 DEF a
    <3>10. ~ (SharesRows(list[i], list[j]) /\ NoGap(list[i], list[j]))
      BY <3>9, Apart
    <3>11. QED
      BY <3>2, <3>7, <3>10 DEF a
  <2>4. QED
    BY <2>2, <2>3 DEF Run
<1>4. QED
  BY <1>1, <1>2, <1>3 DEF AreStripes


(***************************************************************************)
(* The questions to a layout have areas and numbers for answers.            *)
(***************************************************************************)

ViewType == [monitors : Seq(Area), horiz : Seq(Area), big : Area]
LayoutType == [across : ViewType, along : ViewType]

\* An area of four numbers is one.
LEMMA NewIs ==
  ASSUME NEW x0 \in Int, NEW y0 \in Int, NEW w \in Int, NEW h \in Int
  PROVE  RAreaNew(x0, y0, w, h) \in Area
BY AreaIs DEF RAreaNew

LEMMA InvalidIs == RAreaInvalid \in Area
<1>1. -1 \in Int
  OBVIOUS
<1>2. QED
  BY <1>1, NewIs DEF RAreaInvalid

\* Numbers of an area.
LEMMA NumbersAre ==
  ASSUME NEW a \in Area
  PROVE  /\ a.x \in Int /\ a.y \in Int /\ a.width \in Int /\ a.height \in Int
         /\ RAreaX2(a) \in Int /\ RAreaY2(a) \in Int /\ RAreaArea(a) \in Int
<1>1. a.x \in Int /\ a.y \in Int /\ a.width \in Int /\ a.height \in Int
  BY AreaIs
<1>2. QED
  BY <1>1 DEF RAreaX2, RAreaY2, RAreaArea

\* An area flipped is one.
LEMMA FlipIs ==
  ASSUME NEW a \in Area
  PROVE  Flip(a) \in Area /\ (a \in Solid => Flip(a) \in Solid)
<1>1. a.x \in Int /\ a.y \in Int /\ a.width \in Int /\ a.height \in Int
  BY AreaIs
<1>2. Flip(a) \in Area /\ Flip(a).width = a.height /\ Flip(a).height = a.width
  BY <1>1, AreaIs DEF Flip, RAreaNew
<1>3. QED
  BY <1>2 DEF Solid

LEMMA FlippedIs ==
  ASSUME NEW list \in Seq(Solid)
  PROVE  Flipped(list) \in Seq(Solid)
<1>1. /\ Len(list) \in Nat /\ DOMAIN list = 1 .. Len(list)
      /\ \A i \in 1 .. Len(list) : list[i] \in Solid
  BY RangeIs, LenProperties
<1> DEFINE n == Len(list)
           V(i) == Flip(list[i])
<1>2. \A i \in 1 .. n : V(i) \in Solid
  BY <1>1, FlipIs DEF Solid
<1>3. Flipped(list) = [i \in 1 .. n |-> V(i)]
  BY <1>1 DEF Flipped
<1> HIDE DEF n, V
<1>4. [i \in 1 .. n |-> V(i)] \in [1 .. n -> Solid]
  BY <1>2
<1>5. n \in Nat
  BY <1>1 DEF n
<1>6. QED
  BY <1>3, <1>4, <1>5, SeqDef

\* An image of finitely many areas under a function is finite.
LEMMA ImageIsFinite ==
  ASSUME NEW S, IsFiniteSet(S), NEW f, DOMAIN f = S
  PROVE  IsFiniteSet({f[s] : s \in S})
<1> DEFINE T == {f[s] : s \in S}
           g == [s \in S |-> f[s]]
<1>1. g \in [S -> T] /\ \A t \in T : \E s \in S : g[s] = t
  OBVIOUS
<1>2. g \in Surjection(S, T)
  BY <1>1 DEF Surjection
<1> HIDE DEF T, g
<1>3. IsFiniteSet(T)
  BY <1>2, FS_Surjection
<1>4. QED
  BY <1>3 DEF T

\* The sides of finitely many areas: a least and a greatest of each.
LEMMA SidesAre ==
  ASSUME NEW S \in SUBSET Area, IsFiniteSet(S), S # {}
  PROVE  /\ Min({a.x : a \in S}) \in Int /\ Max({a.x : a \in S}) \in Int
         /\ Min({a.y : a \in S}) \in Int /\ Max({a.y : a \in S}) \in Int
         /\ Min({RAreaX2(a) : a \in S}) \in Int /\ Max({RAreaX2(a) : a \in S}) \in Int
         /\ Min({RAreaY2(a) : a \in S}) \in Int /\ Max({RAreaY2(a) : a \in S}) \in Int
<1>1. ASSUME NEW f \in [S -> Int], NEW T, T = {f[a] : a \in S}
      PROVE  Min(T) \in Int /\ Max(T) \in Int
  <2>1. IsFiniteSet(T)
    BY <1>1, ImageIsFinite
  <2>2. T \in SUBSET Int /\ T # {}
    BY <1>1
  <2>3. QED
    BY <2>1, <2>2, ExtremesAreThere
<1> DEFINE X == {a.x : a \in S}
           fx == [a \in S |-> a.x]
           Y == {a.y : a \in S}
           fy == [a \in S |-> a.y]
           X2 == {RAreaX2(a) : a \in S}
           fx2 == [a \in S |-> RAreaX2(a)]
           Y2 == {RAreaY2(a) : a \in S}
           fy2 == [a \in S |-> RAreaY2(a)]
<1>2. fx \in [S -> Int] /\ fy \in [S -> Int] /\ fx2 \in [S -> Int] /\ fy2 \in [S -> Int]
  BY NumbersAre
<1>3. /\ X = {fx[a] : a \in S} /\ Y = {fy[a] : a \in S}
      /\ X2 = {fx2[a] : a \in S} /\ Y2 = {fy2[a] : a \in S}
  OBVIOUS
<1> HIDE DEF X, fx, Y, fy, X2, fx2, Y2, fy2
<1>4. Min(X) \in Int /\ Max(X) \in Int
  BY <1>1, <1>2, <1>3
<1>5. Min(Y) \in Int /\ Max(Y) \in Int
  BY <1>1, <1>2, <1>3
<1>6. Min(X2) \in Int /\ Max(X2) \in Int
  BY <1>1, <1>2, <1>3
<1>7. Min(Y2) \in Int /\ Max(Y2) \in Int
  BY <1>1, <1>2, <1>3
<1>8. QED
  BY <1>4, <1>5, <1>6, <1>7 DEF X, Y, X2, Y2

\* Finitely many areas, some or none.
LEMMA FurthestAre ==
  ASSUME NEW mit \in SUBSET Area, IsFiniteSet(mit)
  PROVE  RAreaListMaxX(mit) \in Int /\ RAreaListMinX2(mit) \in Int
<1>1. CASE mit = {}
  BY <1>1 DEF RAreaListMaxX, RAreaListMinX2
<1>2. CASE mit # {}
  BY <1>2, SidesAre DEF RAreaListMaxX, RAreaListMinX2
<1>3. QED
  BY <1>1, <1>2

LEMMA BigAreaIs ==
  ASSUME NEW list \in Seq(Area)
  PROVE  RAreaListBigArea(list) \in Area
<1> DEFINE S == Range(list)
           x1 == Min({a.x : a \in S})
           y1 == Min({a.y : a \in S})
           x2 == Max({RAreaX2(a) : a \in S})
           y2 == Max({RAreaY2(a) : a \in S})
<1>1. S \in SUBSET Area /\ IsFiniteSet(S)
  BY RangeIs, RangeIsFinite
<1>2. CASE list = <<>>
  BY <1>2, InvalidIs DEF RAreaListBigArea
<1>3. CASE list # <<>>
  <2>1. S # {}
    <3>1. 1 \in 1 .. Len(list)
      BY <1>3, LenProperties, EmptySeq
    <3>2. QED
      BY <3>1, RangeIs
  <2>2. RAreaListBigArea(list) = RAreaNew(x1, y1, x2 - x1 + 1, y2 - y1 + 1)
    BY <1>3 DEF RAreaListBigArea
  <2> HIDE DEF S
  <2>3. x1 \in Int /\ y1 \in Int /\ x2 \in Int /\ y2 \in Int
    BY <1>1, <2>1, SidesAre
  <2> HIDE DEF x1, y1, x2, y2
  <2>4. x2 - x1 + 1 \in Int /\ y2 - y1 + 1 \in Int
    BY <2>3
  <2>5. QED
    BY <2>2, <2>3, <2>4, NewIs
<1>4. QED
  BY <1>2, <1>3

LEMMA ViewIs ==
  ASSUME NEW list \in Seq(Area), NEW stripes \in Seq(Area)
  PROVE  View(list, stripes) \in ViewType
BY BigAreaIs DEF View, ViewType

\* Those that an area meets.
LEMMA MetAre ==
  ASSUME NEW list \in Seq(Area), NEW a
  PROVE  /\ RAreaListIntersect(list, a) \in SUBSET Area
         /\ IsFiniteSet(RAreaListIntersect(list, a))
<1>1. Range(list) \in SUBSET Area /\ IsFiniteSet(Range(list))
  BY RangeIs, RangeIsFinite
<1>2. RAreaListIntersect(list, a) \in SUBSET Range(list)
  BY DEF RAreaListIntersect
<1>3. QED
  BY <1>1, <1>2, FS_Subset

\* What two areas have in common is one.
LEMMA IntersectIs ==
  ASSUME NEW a \in Area, NEW b \in Area
  PROVE  /\ RAreaIntersect(a, b) \in Area
         /\ RAreaIsIntersect(a, b) /\ a \in Solid /\ b \in Solid => RAreaIntersect(a, b) \in Solid
         /\ ~ RAreaIsIntersect(a, b) => RAreaIntersect(a, b) = RAreaInvalid
<1> DEFINE x1 == Max({a.x, b.x})
           y1 == Max({a.y, b.y})
           x2 == Min({RAreaX2(a), RAreaX2(b)})
           y2 == Min({RAreaY2(a), RAreaY2(b)})
<1>1. /\ a.x \in Int /\ b.x \in Int /\ a.y \in Int /\ b.y \in Int
      /\ RAreaX2(a) \in Int /\ RAreaX2(b) \in Int /\ RAreaY2(a) \in Int /\ RAreaY2(b) \in Int
  BY NumbersAre
<1>2. x1 \in {a.x, b.x} /\ y1 \in {a.y, b.y} /\ x2 \in {RAreaX2(a), RAreaX2(b)}
      /\ y2 \in {RAreaY2(a), RAreaY2(b)}
  <2>1. x1 \in {a.x, b.x}
    BY <1>1, OfTwo
  <2>2. y1 \in {a.y, b.y}
    BY <1>1, OfTwo
  <2>3. x2 \in {RAreaX2(a), RAreaX2(b)}
    BY <1>1, OfTwo
  <2>4. y2 \in {RAreaY2(a), RAreaY2(b)}
    BY <1>1, OfTwo
  <2>5. QED
    BY <2>1, <2>2, <2>3, <2>4
<1>3. ~ RAreaIsIntersect(a, b) => RAreaIntersect(a, b) = RAreaInvalid
  BY DEF RAreaIntersect
<1>4. RAreaIsIntersect(a, b) => RAreaIntersect(a, b) = RAreaNew(x1, y1, x2 - x1 + 1, y2 - y1 + 1)
  BY DEF RAreaIntersect
<1> HIDE DEF x1, y1, x2, y2
<1>5. x1 \in Int /\ y1 \in Int /\ x2 \in Int /\ y2 \in Int
  BY <1>1, <1>2
<1>6. x2 - x1 + 1 \in Int /\ y2 - y1 + 1 \in Int
  BY <1>5
<1>7. RAreaIntersect(a, b) \in Area
  BY <1>3, <1>4, <1>5, <1>6, NewIs, InvalidIs
<1>8. ASSUME RAreaIsIntersect(a, b), a \in Solid, b \in Solid
      PROVE  x2 - x1 + 1 > 0 /\ y2 - y1 + 1 > 0
  <2>1. RAreaX2(b) >= a.x /\ b.x <= RAreaX2(a) /\ RAreaY2(b) >= a.y /\ b.y <= RAreaY2(a)
    BY <1>8 DEF RAreaIsIntersect
  <2>2. /\ RAreaX2(a) >= a.x /\ RAreaX2(b) >= b.x /\ RAreaY2(a) >= a.y /\ RAreaY2(b) >= b.y
    BY <1>8, AreaIs DEF Solid, RAreaX2, RAreaY2
  <2>3. QED
    BY <1>1, <1>2, <2>1, <2>2
<1>9. QED
  BY <1>3, <1>4, <1>5, <1>6, <1>7, <1>8 DEF Solid, RAreaNew

\* Of a list, the target is an area.
LEMMA TargetIs ==
  ASSUME NEW list \in Seq(Area), NEW mit, NEW a \in Area
  PROVE  RAreaListBestTarget(list, mit, a) \in Area
<1> DEFINE it(i) == RAreaIntersect(a, list[i])
           good == {i \in DOMAIN list : list[i] \in mit /\ RAreaIsValid(it(i))}
           best == {i \in good : \A j \in good : RAreaArea(it(j)) <= RAreaArea(it(i))}
<1>1. /\ Len(list) \in Nat /\ DOMAIN list = 1 .. Len(list)
      /\ \A i \in 1 .. Len(list) : list[i] \in Area
  BY RangeIs, LenProperties
<1>2. CASE good = {}
  BY <1>2, InvalidIs DEF RAreaListBestTarget
<1>3. CASE good # {}
  <2>1. RAreaListBestTarget(list, mit, a) = list[Min(best)]
    BY <1>3 DEF RAreaListBestTarget
  <2>2. \A i \in 1 .. Len(list) : RAreaArea(it(i)) \in Int
    <3>1. TAKE i \in 1 .. Len(list)
    <3>2. it(i) \in Area
      <4> DEFINE b == list[i]
      <4>1. b \in Area
        BY <1>1
      <4> HIDE DEF b
      <4>2. RAreaIntersect(a, b) \in Area
        BY <4>1, IntersectIs
      <4>3. QED
        BY <4>2 DEF b
    <3> HIDE DEF it
    <3>3. QED
      BY <3>2, NumbersAre
  <2> HIDE DEF it
  <2>3. good \in SUBSET (1 .. Len(list)) /\ IsFiniteSet(good)
    <3>1. good \in SUBSET (1 .. Len(list))
      BY <1>1
    <3>2. IsFiniteSet(1 .. Len(list))
      BY <1>1, FS_Interval
    <3> HIDE DEF good
    <3>3. QED
      BY <3>1, <3>2, FS_Subset
  <2> DEFINE f == [i \in good |-> RAreaArea(it(i))]
             S == {f[i] : i \in good}
  <2>4. f \in [good -> Int] /\ S \in SUBSET Int /\ S # {}
    BY <1>3, <2>2, <2>3
  <2>5. IsFiniteSet(S)
    <3> HIDE DEF good
    <3>1. DOMAIN f = good
      OBVIOUS
    <3> HIDE DEF f
    <3>2. QED
      BY <2>3, <3>1, ImageIsFinite
  <2>6. \E i \in good : \A j \in good : f[j] <= f[i]
    <3>1. Max(S) \in S /\ \A v \in S : Max(S) >= v
      <4> HIDE DEF S
      <4>1. QED
        BY <2>4, <2>5, ExtremesAreThere
    <3>2. PICK i \in good : f[i] = Max(S)
      BY <3>1
    <3>3. \A j \in good : f[j] \in S /\ f[j] \in Int /\ f[i] \in Int
      BY <2>4
    <3>4. QED
      BY <3>1, <3>2, <3>3
  <2>7. best # {} /\ best \in SUBSET Nat /\ best \in SUBSET (1 .. Len(list))
    BY <1>1, <2>3, <2>6
  <2> HIDE DEF best
  <2>8. Min(best) \in 1 .. Len(list)
    BY <2>7, MinIsLeast
  <2>9. QED
    BY <1>1, <2>1, <2>8
<1>4. QED
  BY <1>2, <1>3


\* The least and the greatest of two numbers are numbers.
LEMMA OneOfTwo ==
  ASSUME NEW p \in Int, NEW q \in Int
  PROVE  Min({p, q}) \in Int /\ Max({p, q}) \in Int
BY OfTwo

(***************************************************************************)
(* What zooming and moving ask of one view of the layout.                   *)
(***************************************************************************)

LEMMA RecenterIs ==
  ASSUME NEW l \in ViewType, NEW far
  PROVE  /\ RecenterHorizontally(l, far) \in SUBSET Area
         /\ IsFiniteSet(RecenterHorizontally(l, far))
<1>1. l.horiz \in Seq(Area)
  BY DEF ViewType
<1>2. QED
  BY <1>1, MetAre DEF RecenterHorizontally

LEMMA EdgesAre ==
  ASSUME NEW l \in ViewType, NEW a
  PROVE  Edges(l, a)[1] \in Int /\ Edges(l, a)[2] \in Int
<1> DEFINE mit == HorizontalIntersect(l, a)
<1>1. l.horiz \in Seq(Area)
  BY DEF ViewType
<1>2. mit \in SUBSET Area /\ IsFiniteSet(mit)
  BY <1>1, MetAre, RecenterIs DEF HorizontalIntersect
<1> HIDE DEF mit
<1>3. RAreaListMaxX(mit) \in Int /\ RAreaListMinX2(mit) \in Int
  BY <1>2, FurthestAre
<1>4. QED
  BY <1>3 DEF Edges, Sides, mit

LEMMA MonitorEdgesAre ==
  ASSUME NEW l \in ViewType, NEW a
  PROVE  RLayoutFindMonitorLeftEdge(l, a) \in Int /\ RLayoutFindMonitorRightEdge(l, a) \in Int
<1> DEFINE met == RAreaListIntersect(l.monitors, a)
           lft == {m \in met : m.x < a.x}
           rgt == {m \in met : RAreaX2(m) > RAreaX2(a)}
<1>1. l.monitors \in Seq(Area)
  BY DEF ViewType
<1>2. met \in SUBSET Area /\ IsFiniteSet(met)
  BY <1>1, MetAre
<1>3. /\ lft \in SUBSET Area /\ rgt \in SUBSET Area
      /\ lft \in SUBSET met /\ rgt \in SUBSET met
  BY <1>2
<1>4. /\ RLayoutFindMonitorLeftEdge(l, a) = IF lft = {} THEN Edges(l, a)[1] ELSE RAreaListMaxX(lft)
      /\ RLayoutFindMonitorRightEdge(l, a)
           = IF rgt = {} THEN Edges(l, a)[2] ELSE RAreaListMinX2(rgt)
  BY DEF RLayoutFindMonitorLeftEdge, RLayoutFindMonitorRightEdge
<1> HIDE DEF met, lft, rgt
<1>5. IsFiniteSet(lft) /\ IsFiniteSet(rgt)
  BY <1>2, <1>3, FS_Subset
<1>6. RAreaListMaxX(lft) \in Int /\ RAreaListMinX2(rgt) \in Int
  BY <1>3, <1>5, FurthestAre
<1>7. QED
  BY <1>4, <1>6, EdgesAre

LEMMA FullHorizIs ==
  ASSUME NEW l \in ViewType, NEW a \in Area
  PROVE  RLayoutFullHoriz(l, a) \in Area
<1> DEFINE p == Edges(l, a)[1]
           q == Edges(l, a)[2]
<1>1. RLayoutFullHoriz(l, a) = RAreaNew(p, a.y, q - p + 1, a.height)
  BY DEF RLayoutFullHoriz, Between
<1>2. p \in Int /\ q \in Int
  BY EdgesAre
<1> HIDE DEF p, q
<1>3. q - p + 1 \in Int /\ a.y \in Int /\ a.height \in Int
  BY <1>2, NumbersAre
<1>4. QED
  BY <1>1, <1>2, <1>3, NewIs

\* The areas that a whole layout gives.
LEMMA FullAre ==
  ASSUME NEW l \in LayoutType, NEW a \in Area
  PROVE  /\ RLayoutFullVert(l, a) \in Area
         /\ RLayoutFull(l, a) \in Area
         /\ RLayoutFull1(l, a) \in Area
<1>1. l.across \in ViewType /\ l.along \in ViewType
  BY DEF LayoutType
<1>2. ASSUME NEW b \in Area PROVE RLayoutFullVert(l, b) \in Area
  <2>1. Flip(b) \in Area
    BY FlipIs
  <2>2. RLayoutFullHoriz(l.along, Flip(b)) \in Area
    BY <1>1, <2>1, FullHorizIs
  <2>3. QED
    BY <2>2, FlipIs DEF RLayoutFullVert
<1>3. ASSUME NEW b \in Area PROVE RLayoutFullHoriz(l.across, b) \in Area
  BY <1>1, FullHorizIs
<1> DEFINE p == RLayoutFullVert(l, RLayoutFullHoriz(l.across, a))
           q == RLayoutFullHoriz(l.across, RLayoutFullVert(l, a))
<1>4. p \in Area /\ q \in Area
  BY <1>2, <1>3
<1>5. RLayoutFull(l, a) = Larger(p, q)
  BY DEF RLayoutFull
<1> HIDE DEF p, q
<1>6. RLayoutFull(l, a) \in Area
  BY <1>4, <1>5 DEF Larger
<1>7. RLayoutFull1(l, a) \in Area
  <2>1. l.across.horiz \in Seq(Area) /\ l.across.monitors \in Seq(Area)
    BY <1>1 DEF ViewType
  <2>2. QED
    BY <2>1, TargetIs DEF RLayoutFull1
<1>8. QED
  BY <1>2, <1>6, <1>7

LEMMA FullHoriz1Is ==
  ASSUME NEW target \in Area, NEW a \in Area
  PROVE  RLayoutFullHoriz1(target, a) \in Area
<1> DEFINE y1 == Max({a.y, target.y})
           low == y1 + target.height - 1
           y2 == Min({RAreaY2(a), low})
<1>1. /\ a.y \in Int /\ target.y \in Int /\ target.height \in Int /\ RAreaY2(a) \in Int
      /\ target.x \in Int /\ target.width \in Int
  BY NumbersAre
<1>2. RLayoutFullHoriz1(target, a) = RAreaNew(target.x, y1, target.width, y2 - y1 + 1)
  BY DEF RLayoutFullHoriz1
<1>3. y1 \in Int
  BY <1>1, OneOfTwo
<1> HIDE DEF y1
<1>4. low \in Int
  BY <1>1, <1>3
<1> HIDE DEF low
<1>5. y2 \in Int
  BY <1>1, <1>4, OneOfTwo
<1> HIDE DEF y2
<1>6. y2 - y1 + 1 \in Int
  BY <1>3, <1>5
<1>7. QED
  BY <1>1, <1>2, <1>3, <1>6, NewIs

\* An area with another left side, another width, or both.
LEMMA ChangedIs ==
  ASSUME NEW a \in Area, NEW v \in Int, NEW w \in Int
  PROVE  /\ [a EXCEPT !.x = v] \in Area
         /\ [a EXCEPT !.y = v] \in Area
         /\ [a EXCEPT !.width = w] \in Area
         /\ [a EXCEPT !.x = v, !.width = w] \in Area
         /\ [a EXCEPT !.x = v, !.y = w] \in Area
BY DEF Area

HorizontalFunctions ==
  {"xhorizoom", "horizoom", "xleftzoom", "leftzoom", "xrightzoom", "rightzoom"}

LEMMA HorizontalZoomIs ==
  ASSUME NEW l \in ViewType, NEW target \in Area, NEW func \in HorizontalFunctions, NEW a \in Area
  PROVE  HorizontalZoom(l, target, func, a) \in Area
<1> DEFINE part == RLayoutFullHoriz1(target, a)
           wide == ValidOr(RLayoutFullHoriz(l, a), part)
           left == IF func = "xleftzoom" THEN Edges(l, a)[1] ELSE RLayoutFindMonitorLeftEdge(l, a)
           right == IF func = "xrightzoom" THEN Edges(l, a)[2]
                    ELSE RLayoutFindMonitorRightEdge(l, a)
<1>1. part \in Area
  BY FullHoriz1Is
<1>2. wide \in Area
  BY <1>1, FullHorizIs DEF ValidOr
<1>3. left \in Int /\ right \in Int
  BY EdgesAre, MonitorEdgesAre
<1>4. a.x \in Int /\ a.width \in Int /\ frame_bw \in Int
  BY NumbersAre, LayoutAssumption
<1>5. CASE func = "xhorizoom"
  <2> DEFINE v == wide.x
             w == wide.width - 2 * frame_bw
  <2>1. HorizontalZoom(l, target, func, a)
          = [a EXCEPT !.x = v, !.width = w]
    BY <1>5 DEF HorizontalZoom
  <2>2. v \in Int /\ w \in Int
    BY <1>2, <1>4, NumbersAre
  <2> HIDE DEF v, w
  <2>3. [a EXCEPT !.x = v, !.width = w] \in Area
    BY <2>2 DEF Area
  <2>4. QED
    BY <2>1, <2>3
<1>6. CASE func = "horizoom"
  <2> DEFINE v == part.x
             w == part.width - 2 * frame_bw
  <2>1. HorizontalZoom(l, target, func, a)
          = [a EXCEPT !.x = v, !.width = w]
    BY <1>6 DEF HorizontalZoom
  <2>2. v \in Int /\ w \in Int
    BY <1>1, <1>4, NumbersAre
  <2> HIDE DEF v, w
  <2>3. [a EXCEPT !.x = v, !.width = w] \in Area
    BY <2>2 DEF Area
  <2>4. QED
    BY <2>1, <2>3
<1>7. CASE func \in {"xleftzoom", "leftzoom"}
  <2> DEFINE w == a.width + a.x - left
  <2>1. HorizontalZoom(l, target, func, a) = [a EXCEPT !.x = left, !.width = w]
    BY <1>7 DEF HorizontalZoom
  <2> HIDE DEF left
  <2>2. w \in Int
    BY <1>3, <1>4
  <2> HIDE DEF w
  <2>3. [a EXCEPT !.x = left, !.width = w] \in Area
    BY <1>3, <2>2 DEF Area
  <2>4. QED
    BY <2>1, <2>3
<1>8. CASE func \in {"xrightzoom", "rightzoom"}
  <2>1. HorizontalZoom(l, target, func, a)
          = [a EXCEPT !.width = right - a.x + 1 - 2 * frame_bw]
    BY <1>8 DEF HorizontalZoom
  <2> HIDE DEF right
  <2>2. right - a.x + 1 - 2 * frame_bw \in Int
    BY <1>3, <1>4
  <2>3. QED
    BY <2>1, <2>2, ChangedIs
<1>9. QED
  BY <1>5, <1>6, <1>7, <1>8 DEF HorizontalFunctions

LEMMA FullZoomIs ==
  ASSUME NEW l \in LayoutType, NEW target \in Area, NEW func, NEW a \in Area
  PROVE  FullZoom(l, target, func, a) \in Area
<1> DEFINE whole == IF func = "xfullzoom" THEN ValidOr(RLayoutFull(l, a), target) ELSE target
<1>1. whole \in Area
  BY FullAre DEF ValidOr
<1>2. FullZoom(l, target, func, a) = Inner(whole)
  BY DEF FullZoom
<1> HIDE DEF whole
<1>3. /\ whole.x \in Int /\ whole.y \in Int
      /\ whole.width - 2 * frame_bw \in Int /\ whole.height - 2 * frame_bw \in Int
  BY <1>1, NumbersAre, LayoutAssumption
<1>4. QED
  BY <1>2, <1>3, NewIs DEF Inner

\* A window has a size, and one that has it keeps it.
LEMMA SizeIs ==
  ASSUME NEW a \in Area
  PROVE  ConstrainSize(a) \in Solid /\ (a \in Solid => ConstrainSize(a) = a)
<1> DEFINE w == Max({1, a.width})
           h == Max({1, a.height})
<1>1. a.width \in Int /\ a.height \in Int
  BY NumbersAre
<1>2. w = IF 1 >= a.width THEN 1 ELSE a.width
  BY <1>1, OfTwo
<1>3. h = IF 1 >= a.height THEN 1 ELSE a.height
  BY <1>1, OfTwo
<1>4. ConstrainSize(a) = [a EXCEPT !.width = w, !.height = h]
  BY DEF ConstrainSize
<1> HIDE DEF w, h
<1>5. w \in Int /\ h \in Int /\ w > 0 /\ h > 0
  BY <1>1, <1>2, <1>3
<1>6. a \in Solid => w = a.width /\ h = a.height
  BY <1>1, <1>2, <1>3 DEF Solid
<1>7. QED
  BY <1>4, <1>5, <1>6 DEF Solid, Area


LEMMA ZoomedIs ==
  ASSUME NEW l \in LayoutType, NEW func \in ZoomFunction, NEW a \in Area
  PROVE  ZoomedArea(l, func, a) \in Solid
<1> DEFINE target == RLayoutFull1(l, a)
           turned == Vertical[func]
           to == CASE func \in {"xfullzoom", "fullzoom"} -> FullZoom(l, target, func, a)
                   [] func \in DOMAIN Vertical ->
                        Flip(HorizontalZoom(l.along, Flip(target), turned, Flip(a)))
                   [] OTHER -> HorizontalZoom(l.across, target, func, a)
<1>1. target \in Area
  BY FullAre
<1>2. l.across \in ViewType /\ l.along \in ViewType
  BY DEF LayoutType
<1>3. ZoomedArea(l, func, a) = ConstrainSize(to)
  BY DEF ZoomedArea
<1>4. to \in Area
  <2> HIDE DEF target
  <2>1. CASE func \in {"xfullzoom", "fullzoom"}
    <3>1. func \notin DOMAIN Vertical
      BY <2>1 DEF Vertical
    <3>2. to = FullZoom(l, target, func, a)
      BY <2>1, <3>1, Zenon
    <3>3. QED
      BY <1>1, <3>2, FullZoomIs
  <2>2. CASE func \in DOMAIN Vertical
    <3>1. func \notin {"xfullzoom", "fullzoom"} /\ turned \in HorizontalFunctions
      BY <2>2 DEF Vertical, HorizontalFunctions
    <3> DEFINE fa == Flip(a)
               ft == Flip(target)
               z == HorizontalZoom(l.along, ft, turned, fa)
    <3>2. to = Flip(z)
      BY <2>2, <3>1
    <3>3. fa \in Area /\ ft \in Area
      BY <1>1, FlipIs
    <3> HIDE DEF turned, fa, ft
    <3>4. z \in Area
      BY <1>2, <3>1, <3>3, HorizontalZoomIs
    <3> HIDE DEF z, to
    <3>5. QED
      BY <3>2, <3>4, FlipIs
  <2>3. CASE func \notin {"xfullzoom", "fullzoom"} /\ func \notin DOMAIN Vertical
    <3>1. func \in HorizontalFunctions
      BY <2>3 DEF Vertical, HorizontalFunctions, ZoomFunction
    <3>2. to = HorizontalZoom(l.across, target, func, a)
      BY <2>3
    <3>3. QED
      BY <1>1, <1>2, <3>1, <3>2, HorizontalZoomIs
  <2>4. QED
    BY <2>1, <2>2, <2>3
<1> HIDE DEF to
<1>5. QED
  BY <1>3, <1>4, SizeIs

LEMMA ClippedAre ==
  ASSUME NEW l \in ViewType, NEW a \in Area
  PROVE  ClipRight(l, a) \in Area /\ ClipLeft(l, a) \in Area
<1> DEFINE p == Edges(l, a)[2] - a.width + 1
           q == Edges(l, a)[1]
           x1 == Min({a.x, p})
           x2 == Max({a.x, q})
<1>1. a.x \in Int /\ a.width \in Int /\ Edges(l, a)[2] \in Int /\ Edges(l, a)[1] \in Int
  BY NumbersAre, EdgesAre
<1>2. p \in Int /\ q \in Int
  BY <1>1
<1>3. ClipRight(l, a) = [a EXCEPT !.x = x1]
  BY DEF ClipRight
<1>4. ClipLeft(l, a) = [a EXCEPT !.x = x2]
  BY DEF ClipLeft
<1> HIDE DEF p, q
<1>5. x1 \in Int
  BY <1>1, <1>2, OneOfTwo
<1>6. x2 \in Int
  BY <1>1, <1>2, OneOfTwo
<1> HIDE DEF x1, x2
<1>7. [a EXCEPT !.x = x1] \in Area
  BY <1>5, ChangedIs
<1>8. [a EXCEPT !.x = x2] \in Area
  BY <1>6, ChangedIs
<1>9. QED
  BY <1>3, <1>4, <1>7, <1>8

LEMMA ConstrainedIs ==
  ASSUME NEW l \in LayoutType, NEW a \in Area
  PROVE  ConstrainByLayout(l, a) \in Area
<1>1. l.across \in ViewType /\ l.along \in ViewType
  BY DEF LayoutType
<1> DEFINE b == ClipBottom(l, a)
           c == ClipRight(l.across, b)
           d == ClipLeft(l.across, c)
           e == ClipTop(l, d)
<1>2. b \in Area
  BY <1>1, FlipIs, ClippedAre DEF ClipBottom
<1> HIDE DEF b
<1>3. c \in Area
  BY <1>1, <1>2, ClippedAre
<1> HIDE DEF c
<1>4. d \in Area
  BY <1>1, <1>3, ClippedAre
<1> HIDE DEF d
<1>5. e \in Area
  BY <1>1, <1>4, FlipIs, ClippedAre DEF ClipTop
<1>6. QED
  BY <1>5 DEF ConstrainByLayout, b, c, d

\* What struts leave of monitors that have a size has one.
LEMMA CroppedIs ==
  ASSUME NEW list \in Seq(Solid), NEW m \in [left : Nat, right : Nat, top : Nat, bottom : Nat]
  PROVE  RAreaListCopyCropped(list, m) \in Seq(Solid)
<1> DEFINE big == RAreaListBigArea(list)
           w == big.width - m.left - m.right
           h == big.height - m.top - m.bottom
           inner == RAreaNew(big.x + m.left, big.y + m.top, w, h)
           V(i) == RAreaIntersect(list[i], inner)
           cropped == [i \in DOMAIN list |-> V(i)]
           valid == {a \in Range(cropped) : RAreaIsValid(a)}
<1>1. /\ Len(list) \in Nat /\ DOMAIN list = 1 .. Len(list)
      /\ \A i \in 1 .. Len(list) : list[i] \in Solid
  BY RangeIs, LenProperties
<1>2. big \in Area
  <2>1. Solid \subseteq Area
    BY DEF Solid
  <2>2. list \in Seq(Area)
    BY <1>1, <2>1, SeqDef
  <2>3. QED
    BY <2>2, BigAreaIs
<1>3. inner \in Area /\ (w > 0 /\ h > 0 => inner \in Solid)
  <2> HIDE DEF big
  <2>1. big.x + m.left \in Int /\ big.y + m.top \in Int /\ w \in Int /\ h \in Int
    <3>1. big.x \in Int /\ big.y \in Int /\ big.width \in Int /\ big.height \in Int
      BY <1>2, NumbersAre
    <3>2. m.left \in Nat /\ m.right \in Nat /\ m.top \in Nat /\ m.bottom \in Nat
      OBVIOUS
    <3>3. QED
      BY <3>1, <3>2
  <2> DEFINE u == big.x + m.left
             v == big.y + m.top
  <2> HIDE DEF w, h, u, v
  <2>2. inner \in Area
    BY <2>1, NewIs DEF u, v
  <2>3. inner.width = w /\ inner.height = h
    BY DEF RAreaNew
  <2> HIDE DEF inner
  <2>4. QED
    BY <2>2, <2>3 DEF Solid
<1>4. inner.width = w /\ inner.height = h
  BY DEF RAreaNew
<1>5. RAreaListCopyCropped(list, m)
        = IF \A side \in DOMAIN m : m[side] = 0 THEN list
          ELSE IF inner.width <= 0 \/ inner.height <= 0 THEN <<>> ELSE Kept(cropped, valid)
  BY Zenon DEF RAreaListCopyCropped
<1>6. w \in Int /\ h \in Int
  <2> HIDE DEF big
  <2>1. QED
    BY <1>2, NumbersAre
<1> HIDE DEF w, h, inner
<1>7. CASE ~ (inner.width <= 0 \/ inner.height <= 0)
  <2>1. inner \in Solid
    BY <1>3, <1>4, <1>6, <1>7
  <2>2. \A i \in 1 .. Len(list) : V(i) \in Area /\ (RAreaIsValid(V(i)) => V(i) \in Solid)
    <3>1. TAKE i \in 1 .. Len(list)
    <3> DEFINE b == list[i]
    <3>2. b \in Solid /\ b \in Area /\ inner \in Area
      BY <1>1, <2>1 DEF Solid
    <3> HIDE DEF b
    <3>3. RAreaIntersect(b, inner) \in Area
      BY <3>2, IntersectIs
    <3>4. CASE RAreaIsIntersect(b, inner)
      <4>1. RAreaIntersect(b, inner) \in Solid
        BY <2>1, <3>2, <3>4, IntersectIs
      <4>2. QED
        BY <3>3, <4>1 DEF b
    <3>5. CASE ~ RAreaIsIntersect(b, inner)
      <4>1. RAreaIntersect(b, inner) = RAreaInvalid
        BY <3>2, <3>5, IntersectIs
      <4>2. ~ RAreaIsValid(RAreaInvalid)
        BY DEF RAreaIsValid, RAreaInvalid, RAreaNew
      <4>3. QED
        BY <3>3, <4>1, <4>2 DEF b
    <3>6. QED
      BY <3>4, <3>5
  <2> HIDE DEF V
  <2>3. cropped \in Seq(Area) /\ \A a \in valid : a \in Solid
    <3>1. cropped \in [1 .. Len(list) -> Area]
      BY <1>1, <2>2
    <3>2. cropped \in Seq(Area)
      BY <1>1, <3>1, SeqDef
    <3>3. \A a \in Range(cropped) : \E i \in 1 .. Len(list) : a = V(i)
      BY <1>1 DEF Range
    <3>4. QED
      BY <2>2, <3>2, <3>3
  <2> HIDE DEF cropped, valid
  <2>4. Kept(cropped, valid) \in Seq(Solid)
    <3>1. \A a \in Area : a \in valid => a \in Solid
      BY <2>3
    <3>2. QED
      BY <2>3, <3>1, KeptIs
  <2>5. QED
    BY <1>5, <1>7, <2>4
<1>8. CASE inner.width <= 0 \/ inner.height <= 0
  <2>1. <<>> \in Seq(Solid)
    OBVIOUS
  <2>2. QED
    BY <1>5, <1>8, <2>1
<1>9. QED
  BY <1>7, <1>8


(***************************************************************************)
(* The invariant.  Covered(making.work) is what the monitors cover at every *)
(* stage, what was joined along a row stays so while columns are joined,    *)
(* and a zoomed window remembers its home, which has a size.                *)
(***************************************************************************)

Wins ==
  [area : Area, zoomed : ZoomFunction \cup {"none"}, save : Area, home : Area, dragged : BOOLEAN]
Makings ==
  [stage : {"horiz", "vert", "ready"}, monitors : Seq(Solid), horiz : Seq(Solid),
   work : Seq(Solid)]

\* What is made of the monitors is all of them.
MakingKeepsAll(m) ==
  /\ m \in Makings
  /\ m.stage = "horiz" => Covered(m.work) = Covered(m.monitors)
  /\ m.stage = "vert" =>
       /\ Covered(m.work) = Covered(Flipped(m.monitors))
       /\ Covered(m.horiz) = Covered(m.monitors)
       /\ Touching(m.horiz) = {}

\* A window has a size or is not there, and has not left home or can come back.
HomeIsKept(w) ==
  /\ w \in Wins
  /\ w.area = RAreaInvalid \/ w.area \in Solid
  /\ w.zoomed = "none" => w.area = w.home
  /\ w.zoomed # "none" => w.save = w.home /\ w.home \in Solid

LayoutInv ==
  /\ layout \in Monitors
  /\ bordered \in LayoutType
  /\ MakingKeepsAll(making)
  /\ HomeIsKept(win)


LEMMA SolidListIs ==
  ASSUME NEW list \in Seq(Solid)
  PROVE  list \in Seq(Area)
<1>1. Solid \subseteq Area
  BY DEF Solid
<1>2. Len(list) \in Nat /\ list \in [1 .. Len(list) -> Solid]
  BY LenProperties
<1>3. QED
  BY <1>1, <1>2, SeqDef

\* A list covers in any order what it covers.
LEMMA SortCovers ==
  ASSUME NEW list \in Seq(Solid), NEW q \in RAreaListSortX(list)
  PROVE  q \in Seq(Solid) /\ Covered(q) = Covered(list)
<1>1. q \in Seq(Solid) /\ Range(q) = Range(list)
  BY SortIs
<1>2. QED
  BY <1>1, CoveredIs

LEMMA NewKeepsAll ==
  ASSUME NEW list \in Seq(Solid), NEW m \in RLayoutNew(list)
  PROVE  MakingKeepsAll(m) /\ m.stage = "horiz"
<1>1. /\ m.stage = "horiz" /\ m.monitors = list /\ m.horiz = <<>> /\ m.work \in RAreaListSortX(list)
      /\ m = [stage |-> m.stage, monitors |-> m.monitors, horiz |-> m.horiz, work |-> m.work]
  BY DEF RLayoutNew
<1> DEFINE work == m.work
<1>2. work \in Seq(Solid) /\ Covered(work) = Covered(list)
  BY <1>1, SortCovers
<1>3. <<>> \in Seq(Solid)
  OBVIOUS
<1> HIDE DEF work
<1>4. m \in Makings
  BY <1>1, <1>2, <1>3 DEF Makings, work
<1>5. QED
  BY <1>1, <1>2, <1>4 DEF MakingKeepsAll, work

\* Monitors have a size.
LEMMA MonitorsAre ==
  ASSUME NEW list \in Monitors
  PROVE  list \in Seq(Solid)
<1>1. list \in Seq(Area) /\ \A i \in DOMAIN list : list[i].width > 0 /\ list[i].height > 0
  BY LayoutAssumption
<1>2. /\ Len(list) \in Nat /\ DOMAIN list = 1 .. Len(list)
      /\ \A i \in 1 .. Len(list) : list[i] \in Area
  BY <1>1, RangeIs, LenProperties
<1>3. list \in [1 .. Len(list) -> Solid]
  <2>1. \A i \in 1 .. Len(list) : list[i] \in Solid
    BY <1>1, <1>2 DEF Solid
  <2>2. list \in [1 .. Len(list) -> Area]
    BY <1>1, LenProperties
  <2>3. QED
    BY <2>1, <2>2
<1>4. QED
  BY <1>2, <1>3, SeqDef

LEMMA LayoutStarts ==
  ASSUME LayoutInit
  PROVE  LayoutInv
<1>1. layout \in Monitors /\ layout \in Seq(Solid)
  BY MonitorsAre DEF LayoutInit
<1>2. MakingKeepsAll(making)
  BY <1>1, NewKeepsAll DEF LayoutInit
<1>3. bordered \in LayoutType
  <2>1. <<>> \in Seq(Area)
    OBVIOUS
  <2> DEFINE v == View(<<>>, <<>>)
  <2>2. v \in ViewType
    BY <2>1, ViewIs
  <2>3. bordered = [across |-> v, along |-> v]
    BY DEF LayoutInit
  <2> HIDE DEF v
  <2>4. QED
    BY <2>2, <2>3 DEF LayoutType
<1>4. HomeIsKept(win)
  BY InvalidIs DEF LayoutInit, Placed, HomeIsKept, Wins
<1>5. QED
  BY <1>1, <1>2, <1>3, <1>4 DEF LayoutInv

LEMMA RefineKeeps ==
  ASSUME LayoutInv, Refine
  PROVE  LayoutInv' /\ making'.stage = making.stage /\ Covered(making'.work) = Covered(making.work)
<1>1. /\ making.work \in Seq(Solid) /\ making.stage # "ready" /\ Touching(making.work) # {}
      /\ making \in Makings
  BY DEF LayoutInv, MakingKeepsAll, Makings, Refine, Ready
<1> DEFINE refined == Refined(making.work)
<1>2. refined \in Seq(Solid) /\ Covered(refined) = Covered(making.work)
  BY <1>1, RefinedCovers
<1>3. PICK sorted \in RAreaListSortX(refined) : making' = [making EXCEPT !.work = sorted]
  BY DEF Refine
<1> HIDE DEF refined
<1>4. sorted \in Seq(Solid) /\ Covered(sorted) = Covered(making.work)
  BY <1>2, <1>3, SortCovers
<1>5. /\ making' \in Makings
      /\ making'.work = sorted /\ making'.stage = making.stage
      /\ making'.monitors = making.monitors /\ making'.horiz = making.horiz
  BY <1>1, <1>3, <1>4 DEF Makings
<1>6. MakingKeepsAll(making')
  BY <1>4, <1>5 DEF LayoutInv, MakingKeepsAll
<1>7. layout' = layout /\ bordered' = bordered /\ win' = win
  BY DEF Refine
<1>8. QED
  BY <1>4, <1>5, <1>6, <1>7 DEF LayoutInv

LEMMA HorizontalDoneKeeps ==
  ASSUME LayoutInv, HorizontalDone
  PROVE  LayoutInv' /\ making'.stage = "vert"
<1>1. /\ making \in Makings /\ making.stage = "horiz" /\ Touching(making.work) = {}
      /\ Covered(making.work) = Covered(making.monitors)
      /\ making.work \in Seq(Solid) /\ making.monitors \in Seq(Solid)
  BY DEF LayoutInv, MakingKeepsAll, Makings, HorizontalDone
<1> DEFINE turned == Flipped(making.monitors)
<1>2. turned \in Seq(Solid)
  BY <1>1, FlippedIs
<1>3. PICK sorted \in RAreaListSortX(turned) :
        making' = [making EXCEPT !.stage = "vert", !.horiz = making.work, !.work = sorted]
  BY DEF HorizontalDone
<1>4. sorted \in Seq(Solid) /\ Covered(sorted) = Covered(turned)
  <2> HIDE DEF turned
  <2>1. QED
    BY <1>2, <1>3, SortCovers
<1>5. /\ making' \in Makings
      /\ making'.stage = "vert" /\ making'.work = sorted
      /\ making'.monitors = making.monitors /\ making'.horiz = making.work
  BY <1>1, <1>3, <1>4 DEF Makings
<1>6. MakingKeepsAll(making')
  BY <1>1, <1>4, <1>5 DEF MakingKeepsAll
<1>7. layout' = layout /\ bordered' = bordered /\ win' = win
  BY DEF HorizontalDone
<1>8. QED
  BY <1>5, <1>6, <1>7 DEF LayoutInv

LEMMA VerticalDoneKeeps ==
  ASSUME LayoutInv, VerticalDone
  PROVE  LayoutInv' /\ making'.stage = "ready"
<1>1. /\ making \in Makings
      /\ making.work \in Seq(Solid) /\ making.monitors \in Seq(Solid) /\ making.horiz \in Seq(Solid)
  BY DEF LayoutInv, MakingKeepsAll, Makings
<1> DEFINE turned == Flipped(making.monitors)
           u == View(making.monitors, making.horiz)
           v == View(turned, making.work)
<1>2. u \in ViewType /\ v \in ViewType
  <2>1. turned \in Seq(Area)
    BY <1>1, FlippedIs, SolidListIs
  <2> HIDE DEF turned
  <2>2. QED
    BY <1>1, <2>1, SolidListIs, ViewIs
<1>3. bordered' = [across |-> u, along |-> v]
  BY DEF VerticalDone
<1> HIDE DEF u, v
<1>4. bordered' \in LayoutType
  BY <1>2, <1>3 DEF LayoutType
<1> DEFINE none == <<>>
<1>5. making' = [making EXCEPT !.stage = "ready", !.work = none, !.horiz = none]
  BY DEF VerticalDone
<1>6. making' \in Makings /\ making'.stage = "ready"
  <2>1. none \in Seq(Solid)
    OBVIOUS
  <2> HIDE DEF none
  <2>2. QED
    BY <1>1, <1>5, <2>1 DEF Makings
<1>7. MakingKeepsAll(making')
  BY <1>6 DEF MakingKeepsAll
<1>8. layout' = layout /\ win' = win
  BY DEF VerticalDone
<1>9. QED
  BY <1>4, <1>6, <1>7, <1>8 DEF LayoutInv

LEMMA StrutKeeps ==
  ASSUME LayoutInv, EwmhRecalculateStrut
  PROVE  LayoutInv' /\ making.stage = "ready" /\ making'.stage = "horiz"
<1>1. layout \in Seq(Solid)
  BY MonitorsAre DEF LayoutInv
<1>2. PICK m \in Margins : making' \in RLayoutNew(RAreaListCopyCropped(layout, m))
  BY DEF EwmhRecalculateStrut
<1> DEFINE cropped == RAreaListCopyCropped(layout, m)
<1>3. cropped \in Seq(Solid)
  <2>1. m \in [left : Nat, right : Nat, top : Nat, bottom : Nat]
    BY LayoutAssumption
  <2>2. QED
    BY <1>1, <2>1, CroppedIs
<1>4. making' \in RLayoutNew(cropped)
  BY <1>2
<1> HIDE DEF cropped
<1>5. MakingKeepsAll(making') /\ making'.stage = "horiz"
  BY <1>3, <1>4, NewKeepsAll
<1>6. layout' = layout /\ bordered' = bordered /\ win' = win /\ making.stage = "ready"
  BY DEF EwmhRecalculateStrut, Ready
<1>7. QED
  BY <1>5, <1>6 DEF LayoutInv

\* A place has a size.
LEMMA PlacesAre ==
  ASSUME NEW a \in Places
  PROVE  a \in Solid
BY LayoutAssumption DEF Solid

LEMMA PlacedIs ==
  ASSUME NEW a \in Solid, NEW dragged \in BOOLEAN
  PROVE  HomeIsKept([Placed(a) EXCEPT !.dragged = dragged]) /\ HomeIsKept(Placed(a))
<1>1. a \in Area
  BY DEF Solid
<1>2. QED
  BY <1>1 DEF Placed, HomeIsKept, Wins

LEMMA PlaceKeeps ==
  ASSUME LayoutInv, Place
  PROVE  LayoutInv' /\ making' = making
<1>1. PICK a \in Places : win' = Placed(a)
  BY DEF Place
<1>2. HomeIsKept(win')
  BY <1>1, PlacesAre, PlacedIs
<1>3. layout' = layout /\ bordered' = bordered /\ making' = making
  BY DEF Place
<1>4. QED
  BY <1>2, <1>3 DEF LayoutInv

LEMMA MoveKeeps ==
  ASSUME LayoutInv, Move
  PROVE  LayoutInv' /\ making' = making
<1>1. PICK a \in Places :
        win' = [Placed([a EXCEPT !.x = ConstrainByLayout(bordered, Outer(a)).x,
                                 !.y = ConstrainByLayout(bordered, Outer(a)).y])
                  EXCEPT !.dragged = TRUE]
  BY DEF Move
<1> DEFINE to == ConstrainByLayout(bordered, Outer(a))
           u == to.x
           v == to.y
           b == [a EXCEPT !.x = u, !.y = v]
<1>2. a \in Solid /\ a \in Area
  BY PlacesAre DEF Solid
<1>3. Outer(a) \in Area
  <2> DEFINE w == a.width + 2 * frame_bw
             h == a.height + 2 * frame_bw
  <2>1. a.x \in Int /\ a.y \in Int /\ a.width \in Int /\ a.height \in Int /\ frame_bw \in Int
    BY <1>2, NumbersAre, LayoutAssumption
  <2>2. w \in Int /\ h \in Int
    BY <2>1
  <2>3. Outer(a) = RAreaNew(a.x, a.y, w, h)
    BY DEF Outer
  <2> HIDE DEF w, h
  <2>4. QED
    BY <2>1, <2>2, <2>3, NewIs
<1>4. to \in Area
  BY <1>3, ConstrainedIs DEF LayoutInv
<1>5. win' = [Placed(b) EXCEPT !.dragged = TRUE]
  BY <1>1
<1> HIDE DEF to
<1>6. u \in Int /\ v \in Int
  BY <1>4, NumbersAre
<1> HIDE DEF u, v
<1>7. b \in Solid
  BY <1>2, <1>6 DEF Solid, Area
<1> HIDE DEF b
<1>8. HomeIsKept(win')
  BY <1>5, <1>7, PlacedIs
<1>9. layout' = layout /\ bordered' = bordered /\ making' = making
  BY DEF Move
<1>10. QED
  BY <1>8, <1>9 DEF LayoutInv

LEMMA ZoomStepKeeps ==
  ASSUME LayoutInv, Zoom
  PROVE  LayoutInv' /\ making' = making
<1>1. PICK func \in ZoomFunction : win' = fullzoom(bordered, win, func)
  BY DEF Zoom
<1>2. win \in Wins /\ win.area \in Solid /\ bordered \in LayoutType
  BY DEF LayoutInv, HomeIsKept, Zoom
<1>3. Saved(win) = win.home /\ win.home \in Solid /\ win.home \in Area
  BY DEF LayoutInv, HomeIsKept, Zoom, Saved, Wins
<1>4. CASE win.zoomed = func
  <2>1. win.save = win.home
    BY <1>4 DEF LayoutInv, HomeIsKept, ZoomFunction
  <2>2. ConstrainSize(win.save) = win.home
    BY <1>3, <2>1, SizeIs
  <2>3. win' = [win EXCEPT !.area = win.home, !.zoomed = "none"]
    BY <1>1, <1>4, <2>2 DEF fullzoom
  <2>4. HomeIsKept(win')
    BY <1>2, <1>3, <2>3 DEF HomeIsKept, Wins
  <2>5. QED
    BY <2>4 DEF Zoom, LayoutInv
<1>5. CASE win.zoomed # func
  <2> DEFINE to == ZoomedArea(bordered, func, win.area)
  <2>1. win.area \in Area
    BY <1>2 DEF Solid
  <2>2. to \in Solid /\ to \in Area
    <3>1. to \in Solid
      BY <1>2, <2>1, ZoomedIs
    <3>2. QED
      BY <3>1 DEF Solid
  <2>3. win' = [win EXCEPT !.save = win.home, !.zoomed = func, !.area = to]
    BY <1>1, <1>3, <1>5 DEF fullzoom
  <2> HIDE DEF to
  <2>4. func # "none"
    BY DEF ZoomFunction
  <2>5. HomeIsKept(win')
    BY <1>2, <1>3, <2>2, <2>3, <2>4 DEF HomeIsKept, Wins
  <2>6. QED
    BY <2>5 DEF Zoom, LayoutInv
<1>6. QED
  BY <1>4, <1>5

\* Every step keeps the invariant.
LEMMA LayoutStepKeeps ==
  ASSUME LayoutInv, [LayoutNext]_layoutVars
  PROVE  LayoutInv'
<1>1. CASE UNCHANGED layoutVars
  BY <1>1 DEF LayoutInv, layoutVars
<1>2. CASE Refine
  BY <1>2, RefineKeeps
<1>3. CASE HorizontalDone
  BY <1>3, HorizontalDoneKeeps
<1>4. CASE VerticalDone
  BY <1>4, VerticalDoneKeeps
<1>5. CASE EwmhRecalculateStrut
  BY <1>5, StrutKeeps
<1>6. CASE Place
  BY <1>6, PlaceKeeps
<1>7. CASE Move
  BY <1>7, MoveKeeps
<1>8. CASE Zoom
  BY <1>8, ZoomStepKeeps
<1>9. QED
  BY <1>1, <1>2, <1>3, <1>4, <1>5, <1>6, <1>7, <1>8 DEF LayoutNext

(***************************************************************************)
(* The theorems.                                                            *)
(***************************************************************************)

\* A view's type, as LayoutTypeOK has it.
LEMMA InvTypes ==
  ASSUME LayoutInv
  PROVE  UnzoomRestores
<1>1. LayoutTypeOK
  <2>1. \A view \in {bordered.across, bordered.along} :
          view \in [monitors : Seq(Area), horiz : Seq(Area), big : Area]
    BY DEF LayoutInv, LayoutType, ViewType
  <2>2. making \in [stage : {"horiz", "vert", "ready"}, monitors : Seq(Area), horiz : Seq(Area),
                    work : Seq(Area)]
    <3>1. making \in Makings
      BY DEF LayoutInv, MakingKeepsAll
    <3>2. making.monitors \in Seq(Area) /\ making.horiz \in Seq(Area) /\ making.work \in Seq(Area)
      BY <3>1, SolidListIs DEF Makings
    <3>3. QED
      BY <3>1, <3>2 DEF Makings
  <2>3. win.area = RAreaInvalid \/ (win.area.width > 0 /\ win.area.height > 0)
    BY DEF LayoutInv, HomeIsKept, Solid
  <2>4. QED
    BY <2>1, <2>2, <2>3 DEF LayoutTypeOK, LayoutInv, HomeIsKept, Wins
<1>2. QED
  BY <1>1 DEF UnzoomRestores, LayoutInv, HomeIsKept

\* After any zooms, one upon the other and with docks coming and going, a window
\* that is not zoomed is where it was before, wherever it is put and whatever the
\* monitors are (fullzoom, RestoreZoom).
THEOREM UnzoomAlwaysRestores == LayoutSpec => []UnzoomRestores
<1>1. LayoutInit => LayoutInv
  BY LayoutStarts
<1>2. LayoutInv /\ [LayoutNext]_layoutVars => LayoutInv'
  BY LayoutStepKeeps
<1>3. LayoutInv => UnzoomRestores
  BY InvTypes
<1>4. QED
  BY <1>1, <1>2, <1>3, PTL DEF LayoutSpec

\* What a step does to the stripes, as StripesAreWhole has it.
StripeStep ==
  /\ making'.stage = making.stage /\ making'.work # making.work =>
       Covered(making'.work) = Covered(making.work)
  /\ making.stage = "vert" /\ making'.stage = "ready" =>
       \A view \in {bordered'.across, bordered'.along} :
         LET points == Covered(view.monitors)
             list == view.horiz
         IN  /\ Covered(list) = points
             /\ \A i \in DOMAIN list : Run(points, list[i])
             /\ \A i, j \in DOMAIN list :
                  i # j => ~RAreaIsIntersect(list[i], list[j])

LEMMA LayoutStepIsWhole ==
  ASSUME LayoutInv, LayoutNext
  PROVE  StripeStep
<1>1. ASSUME making' = making PROVE StripeStep
  BY <1>1 DEF StripeStep
<1>2. CASE Refine
  <2>1. making.stage # "ready"
    BY <1>2 DEF Refine, Ready
  <2>2. QED
    BY <1>2, <2>1, RefineKeeps DEF StripeStep
<1>3. CASE HorizontalDone
  BY <1>3, HorizontalDoneKeeps DEF StripeStep, HorizontalDone
<1>4. CASE EwmhRecalculateStrut
  BY <1>4, StrutKeeps DEF StripeStep
<1>5. CASE Place \/ Move \/ Zoom
  BY <1>1, <1>5 DEF Place, Move, Zoom
<1>6. CASE VerticalDone
  <2>1. /\ making \in Makings /\ making.stage = "vert"
        /\ making.work \in Seq(Solid) /\ making.horiz \in Seq(Solid)
        /\ Covered(making.work) = Covered(Flipped(making.monitors))
        /\ Covered(making.horiz) = Covered(making.monitors)
        /\ Touching(making.horiz) = {} /\ Touching(making.work) = {}
    BY <1>6 DEF LayoutInv, MakingKeepsAll, Makings, VerticalDone
  <2>2. AreStripes(making.horiz) /\ AreStripes(making.work)
    BY <2>1, StripesReach
  <2>3. /\ bordered'.across.monitors = making.monitors /\ bordered'.across.horiz = making.horiz
        /\ bordered'.along.monitors = Flipped(making.monitors)
        /\ bordered'.along.horiz = making.work
    BY <1>6 DEF VerticalDone, View
  <2>4. making'.stage # making.stage
    BY <1>6, <2>1, VerticalDoneKeeps
  <2> DEFINE Whole(monitors, list) ==
               /\ Covered(list) = Covered(monitors)
               /\ \A i \in DOMAIN list : Run(Covered(monitors), list[i])
               /\ \A i, j \in DOMAIN list : i # j => ~RAreaIsIntersect(list[i], list[j])
  <2>5. Whole(making.monitors, making.horiz)
    BY <2>1, <2>2 DEF AreStripes
  <2>6. Whole(Flipped(making.monitors), making.work)
    BY <2>1, <2>2 DEF AreStripes
  <2>7. \A view \in {bordered'.across, bordered'.along} : Whole(view.monitors, view.horiz)
    <3> HIDE DEF Whole
    <3>1. QED
      BY <2>3, <2>5, <2>6
  <2>8. QED
    BY <2>4, <2>7 DEF StripeStep
<1>7. QED
  BY <1>2, <1>3, <1>4, <1>5, <1>6 DEF LayoutNext

\* However the monitors lie, and in whatever order qsort leaves areas that are
\* equal, no cut and no joining loses or adds a point, and in the end every stripe
\* reaches from side to side wherever it is and no two overlap
\* (RAreaListHorizontalUnion, RAreaListVerticalUnion).
THEOREM StripesAreAlwaysWhole == LayoutSpec => StripesAreWhole
<1>1. LayoutInit => LayoutInv
  BY LayoutStarts
<1>2. LayoutInv /\ [LayoutNext]_layoutVars => LayoutInv'
  BY LayoutStepKeeps
<1>3. LayoutInv /\ [LayoutNext]_layoutVars => [StripeStep]_layoutVars
  BY LayoutStepIsWhole
<1>4. LayoutSpec => [][StripeStep]_layoutVars
  BY <1>1, <1>2, <1>3, PTL DEF LayoutSpec
<1>5. QED
  BY <1>4 DEF StripesAreWhole, StripeStep

=============================================================================
