--------------------------- MODULE ManagersProofs ---------------------------
(***************************************************************************)
(* Theorems about the icon managers, for all windows, managers, workspaces, *)
(* names and sessions of Managers:                                          *)
(*   TheEntriesAgree    types, and the two lists an entry is on agree       *)
(*   TheSearchesEnd     the search for a neighbour of an entry ends         *)
(*                                                                          *)
(* Linked says of a state what every operator keeps, on one list at a time; *)
(* Homely what is true of a window between two events, which a change of    *)
(* occupation breaks and mends.                                             *)
(***************************************************************************)
EXTENDS Managers, SequenceFacts

\* The types, but for the lengths of the lists and the sign of the counts:
\* those take the rest of the invariant.
LooseIm ==
  [ list    : [IconMgr -> Seq(Win)],
    count   : [IconMgr -> Int],
    cell    : [Entry -> Nat \X Nat],
    cur     : [IconMgr -> Nat \X Nat],
    chain   : [Win -> Seq(IconMgr)],
    mapped  : SUBSET IconMgr,
    isicon  : SUBSET IconMgr,
    active  : [IconMgr -> EntryOrNull],
    Current : EntryOrNull,
    Active  : EntryOrNull ]

ManagersState == [wins : WinsType, im : LooseIm]

\* An entry that is on the list of its manager.
Listed(s, e) == e \in Entry /\ e[1] \in Range(s.im.list[e[2]])

\* The rows and columns of a manager are those that its entries take.
PackedAt(s, ip) ==
  LET list == s.im.list[ip]
      n == Len(list)
      c == columns[ip[1]]
  IN  n # 0 => /\ s.im.cur[ip] = <<(n + c - 1) \div c, IF n < c THEN n ELSE c>>
               /\ \A i \in 1 .. n : s.im.cell[<<list[i], ip>>] = CellOf(i - 1, c)

\* The two lists of an entry agree, and what else is known of the managers.
Linked(s) ==
  /\ \A w \in Win : IsInjective(s.im.chain[w])
  /\ \A ip \in IconMgr : IsInjective(s.im.list[ip])
  /\ \A ip \in IconMgr : s.im.count[ip] = Len(s.im.list[ip])
  /\ \A ip \in IconMgr : \A w \in Win :
       w \in Range(s.im.list[ip]) <=> ip \in Range(s.im.chain[w])
  /\ \A ip \in s.im.mapped : s.im.count[ip] > 0
  /\ s.im.Current # None => Listed(s, s.im.Current)
  /\ s.im.Active \in Entry => Listed(s, s.im.Active)
  /\ \A ip \in IconMgr : PackedAt(s, ip)

Home(w, ws) == <<IconMgrs[w], ws>>

Homes(w, occ) == {Home(w, i) : i \in IF IconMgrs[w] = None THEN {} ELSE occ}

\* A window has one entry for every workspace it occupies, and that of the current
\* one is first.
Placed(s, w) == Range(s.im.chain[w]) = Homes(w, s.wins.occupation[w])

FirstShown(s, w) ==
  Home(w, s.wins.ws) \in Range(s.im.chain[w]) => Head(s.im.chain[w]) = Home(w, s.wins.ws)

Homely(s) == \A w \in Win : Placed(s, w) /\ FirstShown(s, w)

Sound(s) == s \in ManagersState /\ Linked(s) /\ Homely(s)

\* The inductive invariant.
ManagersInv == Sound(Icm) /\ uses \in ManagerSessions

(***************************************************************************)
(* Sequences.                                                               *)
(***************************************************************************)

\* The first element.
LEMMA HeadIsThere ==
  ASSUME NEW E, NEW q \in Seq(E), q # <<>>
  PROVE  1 \in 1 .. Len(q) /\ Head(q) = q[1] /\ Head(q) \in E /\ Head(q) \in Range(q)
<1>1. Len(q) \in Nat \ {0}
  BY EmptySeq
<1>2. 1 \in 1 .. Len(q) /\ Head(q) = q[1]
  BY <1>1 DEF Head
<1>3. QED
  BY <1>2, RangeIs

\* The two parts of a sequence hold what it holds.
LEMMA SplitIs ==
  ASSUME NEW E, NEW q \in Seq(E), NEW k \in 0 .. Len(q)
  PROVE  LET a == SubSeq(q, 1, k)
             b == SubSeq(q, k + 1, Len(q))
         IN  /\ a \in Seq(E) /\ b \in Seq(E) /\ Len(a) = k /\ Len(b) = Len(q) - k
             /\ Range(a) \cup Range(b) = Range(q)
             /\ IsInjective(q) => /\ IsInjective(a) /\ IsInjective(b)
                                  /\ Range(a) \cap Range(b) = {}
<1> DEFINE n == Len(q)
           a == SubSeq(q, 1, k)
           b == SubSeq(q, k + 1, n)
<1>1. n \in Nat /\ k \in Nat /\ k <= n /\ DOMAIN q = 1 .. n /\ \A i \in 1 .. n : q[i] \in E
  BY LenProperties, ElementOfSeq
<1>2. a \in Seq(E) /\ Len(a) = k /\ \A i \in 1 .. k : a[i] = q[i]
  <2>1. \A j \in 1 .. k : j \in 1 .. n
    BY <1>1
  <2>2. QED
    BY <1>1, <2>1, SubSeqProperties
<1>3. b \in Seq(E) /\ Len(b) = n - k /\ \A i \in 1 .. n - k : b[i] = q[i + k]
  <2>1. k + 1 \in Int /\ n \in Int /\ \A j \in k + 1 .. n : q[j] \in E
    BY <1>1
  <2>2. b \in Seq(E) /\ Len(b) = IF k + 1 <= n THEN n - (k + 1) + 1 ELSE 0
    BY <2>1, SubSeqProperties
  <2>3. \A i \in 1 .. n - (k + 1) + 1 : b[i] = q[(k + 1) + i - 1]
    BY <2>1, SubSeqProperties
  <2> HIDE DEF b, n
  <2>4. QED
    BY <1>1, <2>2, <2>3
<1>4. DOMAIN a = 1 .. k /\ DOMAIN b = 1 .. n - k
  BY <1>2, <1>3, LenProperties
<1> HIDE DEF a, b
<1>5. /\ Range(a) = {a[i] : i \in 1 .. k} /\ Range(b) = {b[i] : i \in 1 .. n - k}
      /\ Range(q) = {q[i] : i \in 1 .. n}
  BY <1>1, <1>4 DEF Range
<1> HIDE DEF n
<1>6. Range(a) \cup Range(b) = Range(q)
  <2>1. \A i \in 1 .. k : i \in 1 .. n /\ a[i] = q[i]
    BY <1>1, <1>2
  <2>2. \A i \in 1 .. n - k : i + k \in 1 .. n /\ b[i] = q[i + k]
    BY <1>1, <1>3
  <2>3. \A i \in 1 .. n : q[i] \in Range(a) \cup Range(b)
    <3>1. TAKE i \in 1 .. n
    <3>2. CASE i <= k
      BY <1>1, <1>2, <1>5, <3>2
    <3>3. CASE i > k
      <4>1. i - k \in 1 .. n - k /\ b[i - k] = q[i]
        BY <1>1, <1>3, <3>3
      <4>2. QED
        BY <1>5, <4>1
    <3>4. QED
      BY <1>1, <3>2, <3>3
  <2>4. QED
    BY <1>5, <2>1, <2>2, <2>3
<1>7. ASSUME IsInjective(q)
      PROVE  IsInjective(a) /\ IsInjective(b) /\ Range(a) \cap Range(b) = {}
  <2>1. \A i, j \in 1 .. n : q[i] = q[j] => i = j
    BY <1>1, <1>7 DEF IsInjective
  <2>2. \A i, j \in 1 .. k : a[i] = a[j] => i = j
    BY <1>1, <1>2, <2>1
  <2>3. \A i, j \in 1 .. n - k : b[i] = b[j] => i = j
    BY <1>1, <1>3, <2>1
  <2>4. \A i \in 1 .. k, j \in 1 .. n - k : a[i] # b[j]
    BY <1>1, <1>2, <1>3, <2>1
  <2>5. QED
    BY <1>4, <1>5, <2>2, <2>3, <2>4 DEF IsInjective
<1>8. QED
  BY <1>2, <1>3, <1>6, <1>7 DEF a, b, n

\* r holds the elements of q, and e.
AddsTo(r, q, e, E) ==
  /\ r \in Seq(E) /\ Len(r) = Len(q) + 1 /\ Range(r) = Range(q) \cup {e}
  /\ IsInjective(q) /\ e \notin Range(q) => IsInjective(r)

\* A new element in front, or behind.
LEMMA OneMoreIs ==
  ASSUME NEW E, NEW q \in Seq(E), NEW e \in E
  PROVE  /\ AddsTo(<<e>> \o q, q, e, E) /\ Head(<<e>> \o q) = e
         /\ AddsTo(Append(q, e), q, e, E)
<1> DEFINE one == <<e>>
<1>1. one \in Seq(E) /\ Len(one) = 1 /\ IsInjective(one) /\ Range(one) = {e} /\ one[1] = e
  BY DEF IsInjective, Range
<1>2. Append(q, e) = q \o one
  BY AppendIsConcat
<1> HIDE DEF one
<1>3. /\ one \o q \in Seq(E) /\ Len(one \o q) = Len(q) + 1
      /\ q \o one \in Seq(E) /\ Len(q \o one) = Len(q) + 1
      /\ Range(one \o q) = Range(q) \cup {e} /\ Range(q \o one) = Range(q) \cup {e}
  BY <1>1, ConcatProperties, LenProperties, ConcatRange
<1>4. Head(one \o q) = e
  <2>1. (one \o q)[1] = e
    BY <1>1, ConcatProperties, LenProperties
  <2>2. QED
    BY <1>3, <2>1 DEF Head
<1>5. ASSUME IsInjective(q), e \notin Range(q)
      PROVE  IsInjective(one \o q) /\ IsInjective(q \o one)
  <2>1. Range(one) \cap Range(q) = {} /\ Range(q) \cap Range(one) = {}
    BY <1>1, <1>5
  <2>2. QED
    BY <1>1, <1>5, <2>1, ConcatInjective
<1>6. QED
  BY <1>2, <1>3, <1>4, <1>5 DEF one, AddsTo

\* A new element at a place in between.
LEMMA InsertAtIs ==
  ASSUME NEW E, NEW q \in Seq(E), NEW e \in E, NEW i \in 1 .. Len(q)
  PROVE  AddsTo(InsertAt(q, i, e), q, e, E)
<1> DEFINE k == i - 1
           a == SubSeq(q, 1, k)
           b == SubSeq(q, k + 1, Len(q))
           c == Append(a, e)
<1>1. k \in 0 .. Len(q) /\ k + 1 = i /\ Len(q) \in Nat
  BY LenProperties
<1>2. /\ a \in Seq(E) /\ b \in Seq(E) /\ Len(a) = k /\ Len(b) = Len(q) - k
      /\ Range(a) \cup Range(b) = Range(q)
      /\ IsInjective(q) => /\ IsInjective(a) /\ IsInjective(b)
                           /\ Range(a) \cap Range(b) = {}
  <2> HIDE DEF k
  <2>1. QED
    BY <1>1, SplitIs
<1>3. InsertAt(q, i, e) = c \o b
  <2>1. c = a \o <<e>>
    <3> HIDE DEF a
    <3>1. QED
      BY <1>2, AppendIsConcat
  <2>2. b = SubSeq(q, i, Len(q))
    BY <1>1
  <2>3. QED
    BY <2>1, <2>2 DEF InsertAt
<1> HIDE DEF a, b, k
<1>4. /\ c \in Seq(E) /\ Len(c) = Len(a) + 1 /\ Range(c) = Range(a) \cup {e}
      /\ IsInjective(a) /\ e \notin Range(a) => IsInjective(c)
  <2>1. AddsTo(c, a, e, E)
    BY <1>2, OneMoreIs
  <2> HIDE DEF c
  <2>2. QED
    BY <2>1 DEF AddsTo
<1> HIDE DEF c
<1>5. c \o b \in Seq(E) /\ Len(c \o b) = Len(q) + 1 /\ Range(c \o b) = Range(q) \cup {e}
  <2>1. c \o b \in Seq(E) /\ Len(c \o b) = Len(c) + Len(b)
    BY <1>2, <1>4, ConcatProperties
  <2>2. Range(c \o b) = Range(c) \cup Range(b)
    BY <1>2, <1>4, ConcatRange
  <2>3. QED
    BY <1>1, <1>2, <1>4, <2>1, <2>2
<1>6. ASSUME IsInjective(q), e \notin Range(q)
      PROVE  IsInjective(c \o b)
  <2>1. IsInjective(c) /\ IsInjective(b) /\ Range(c) \cap Range(b) = {}
    BY <1>2, <1>4, <1>6
  <2>2. QED
    BY <1>2, <1>4, <2>1, ConcatInjective
<1>7. QED
  BY <1>3, <1>5, <1>6 DEF AddsTo

\* An element that goes to the front.
LEMMA ToFrontIs ==
  ASSUME NEW E, NEW q \in Seq(E), IsInjective(q), NEW i \in 1 .. Len(q)
  PROVE  LET r == <<q[i]>> \o RemoveAt(q, i)
         IN  r \in Seq(E) /\ IsInjective(r) /\ Range(r) = Range(q) /\ Head(r) = q[i]
<1> DEFINE e == q[i]
           r == RemoveFirst(q, e)
           I == {j \in 1 .. Len(q) : q[j] = e}
<1>1. e \in E /\ e \in Range(q) /\ Len(q) \in Nat /\ DOMAIN q = 1 .. Len(q)
  BY RangeIs, LenProperties
<1>2. I = {i}
  BY <1>1 DEF IsInjective
<1>3. Min({i}) = i
  <2>1. {i} \in SUBSET Nat
    BY <1>1
  <2>2. Min({i}) \in {i}
    BY <2>1, MinIsLeast
  <2>3. QED
    BY <2>2
<1>4. r = RemoveAt(q, i)
  <2>1. r = RemoveAt(q, IF I # {} THEN Min(I) ELSE 0)
    BY <1>2, Zenon DEF RemoveFirst, SelectInSeq
  <2>2. QED
    BY <1>2, <1>3, <2>1
<1>5. r \in Seq(E) /\ IsInjective(r) /\ Range(r) = Range(q) \ {e}
  BY RemoveFirstInjective
<1> HIDE DEF r, e
<1>6. LET s == <<e>> \o r
      IN  s \in Seq(E) /\ IsInjective(s) /\ Range(s) = Range(q) /\ Head(s) = e
  <2>1. (Range(q) \ {e}) \cup {e} = Range(q) /\ e \notin Range(r)
    BY <1>1, <1>5
  <2> DEFINE s == <<e>> \o r
  <2>2. /\ s \in Seq(E) /\ Head(s) = e /\ Range(s) = Range(r) \cup {e}
        /\ IsInjective(r) /\ e \notin Range(r) => IsInjective(s)
    <3>1. AddsTo(s, r, e, E) /\ Head(s) = e
      BY <1>1, <1>5, OneMoreIs
    <3> HIDE DEF s
    <3>2. QED
      BY <3>1 DEF AddsTo
  <2> HIDE DEF s
  <2>3. s \in Seq(E) /\ IsInjective(s) /\ Range(s) = Range(q) /\ Head(s) = e
    BY <1>5, <2>1, <2>2
  <2>4. QED
    BY <2>3 DEF s
<1>7. QED
  BY <1>4, <1>6 DEF e

\* One element less, and the first stays where it is if it is another.
LEMMA RemoveFirstShortens ==
  ASSUME NEW E, NEW q \in Seq(E), NEW e \in Range(q)
  PROVE  /\ Len(RemoveFirst(q, e)) = Len(q) - 1
         /\ Head(q) # e => RemoveFirst(q, e) # <<>> /\ Head(RemoveFirst(q, e)) = Head(q)
<1> DEFINE I == {i \in 1 .. Len(q) : q[i] = e}
           n == Len(q)
           r == RemoveFirst(q, e)
<1>1. I \in SUBSET Nat /\ I # {} /\ n \in Nat /\ n # 0 /\ \E i \in 1 .. n : q[i] = e
  BY RangeIs
<1>2. Min(I) \in I
  <2> HIDE DEF I
  <2>1. QED
    BY <1>1, MinIsLeast
<1>3. RemoveFirst(q, e) = RemoveAt(q, Min(I))
  BY <1>1, Zenon DEF RemoveFirst, SelectInSeq
<1>4. PICK k \in 1 .. n : k = Min(I) /\ q[k] = e
  <2> HIDE DEF Min
  <2>1. QED
    BY <1>2
<1> DEFINE a == SubSeq(q, 1, k - 1)
           b == SubSeq(q, k + 1, n)
<1>5. n \in Nat /\ k \in Nat /\ k >= 1 /\ k <= n /\ \A i \in 1 .. n : q[i] \in E
  BY <1>1, <1>4, ElementOfSeq
<1>6. a \in Seq(E) /\ Len(a) = k - 1 /\ \A i \in 1 .. k - 1 : a[i] = q[i]
  <2>1. (\A j \in 1 .. k - 1 : j \in 1 .. n) /\ k - 1 \in 0 .. n
    BY <1>5
  <2>2. QED
    BY <1>5, <2>1, SubSeqProperties
<1>7. b \in Seq(E) /\ Len(b) = n - k
  <2>1. k + 1 \in Int /\ n \in Int /\ \A j \in k + 1 .. n : q[j] \in E
    BY <1>5
  <2>2. b \in Seq(E) /\ Len(b) = IF k + 1 <= n THEN n - (k + 1) + 1 ELSE 0
    BY <2>1, SubSeqProperties
  <2> HIDE DEF b, n
  <2>3. QED
    BY <1>5, <2>2
<1>8. r = a \o b
  BY <1>3, <1>4 DEF RemoveAt
<1> HIDE DEF a, b, r
<1>9. /\ r \in Seq(E) /\ Len(r) = Len(a) + Len(b)
      /\ \A i \in 1 .. Len(a) + Len(b) : r[i] = IF i <= Len(a) THEN a[i] ELSE b[i - Len(a)]
  BY <1>6, <1>7, <1>8, ConcatProperties
<1>10. Len(r) = n - 1
  <2> HIDE DEF n
  <2>1. QED
    BY <1>5, <1>6, <1>7, <1>9
<1>11. ASSUME Head(q) # e PROVE r # <<>> /\ Head(r) = Head(q)
  <2>1. q # <<>> /\ Head(q) = q[1]
    BY <1>1 DEF Head
  <2>2. k # 1
    BY <1>4, <1>11, <2>1
  <2>3. 1 \in 1 .. k - 1 /\ 1 <= Len(a) /\ 1 \in 1 .. Len(a) + Len(b)
    BY <1>5, <1>6, <1>7, <2>2
  <2>4. r[1] = a[1]
    BY <1>9, <2>3
  <2>5. r[1] = q[1]
    BY <1>6, <2>3, <2>4
  <2>6. r # <<>>
    <3>1. Len(r) # 0
      BY <1>6, <1>7, <1>9, <2>3
    <3>2. QED
      BY <3>1
  <2>7. QED
    BY <2>1, <2>5, <2>6 DEF Head
<1>12. QED
  BY <1>10, <1>11 DEF r

(***************************************************************************)
(* Numbers: rows and columns.                                               *)
(***************************************************************************)

\* The row and the column of an entry are numbers.
LEMMA CellIs ==
  ASSUME NEW i \in Nat, NEW c \in Nat \ {0}
  PROVE  CellOf(i, c) \in Nat \X Nat
<1>1. i \div c \in Nat
  OBVIOUS
<1>2. i % c \in Nat
  OBVIOUS
<1>3. QED
  BY <1>1, <1>2 DEF CellOf

\* The rows and columns of a manager with n entries, as PackedAt has them.
RowsOf(n, c) == (n + c - 1) \div c

ColsOf(n, c) == IF n < c THEN n ELSE c

Fits(i, c, rows, cols, n) ==
  /\ i \div c \in Nat /\ rows \in Nat /\ i \div c < rows /\ rows <= n
  /\ i % c \in Nat /\ cols \in Nat /\ i % c < cols /\ cols <= n

\* Among the n entries of a manager it is in the rows and columns there are, which
\* are no more than the entries.
LEMMA CellsFit ==
  ASSUME NEW n \in Nat, NEW i \in 0 .. n - 1, NEW c \in Nat \ {0}
  PROVE  Fits(i, c, RowsOf(n, c), ColsOf(n, c), n)
<1>1. i \div c < (n + c - 1) \div c /\ (n + c - 1) \div c <= n
  OBVIOUS
<1>2. i \div c \in Nat
  OBVIOUS
<1>3. (n + c - 1) \div c \in Nat
  OBVIOUS
<1>4. i % c \in Nat
  OBVIOUS
<1>5. i % c < ColsOf(n, c) /\ ColsOf(n, c) \in Nat /\ ColsOf(n, c) <= n
  BY DEF ColsOf
<1> HIDE DEF ColsOf
<1>6. QED
  BY <1>1, <1>2, <1>3, <1>4, <1>5 DEF Fits, RowsOf

\* Going round once comes back.
LEMMA OnceRound ==
  ASSUME NEW r \in Nat, NEW c \in Nat \ {0}, r < c
  PROVE  (r + c) % c = r /\ (r - c) % c = r /\ r % c = r
  OBVIOUS

(***************************************************************************)
(* The operators on one list.                                               *)
(***************************************************************************)

\* There are finitely many windows.
LEMMA WindowCount == Cardinality(Win) \in Nat
  BY ManagersAssumption, FS_CardinalityType

\* What entries and managers are.
LEMMA EntryIs ==
  /\ \A e \in Entry : e[1] \in Win /\ e[2] \in IconMgr /\ e = <<e[1], e[2]>>
  /\ \A w \in Win, ip \in IconMgr : <<w, ip>> \in Entry
  /\ \A ip \in IconMgr : ip[1] \in Mgr /\ ip[2] \in WorkSpace /\ ip = <<ip[1], ip[2]>>
  /\ \A m \in Mgr, i \in WorkSpace : <<m, i>> \in IconMgr
  /\ None \notin Entry /\ Freed \notin Entry /\ Entry \subseteq EntryOrNull
  /\ None \in EntryOrNull /\ Freed \in EntryOrNull
  BY ManagersAssumption DEF Entry, IconMgr, EntryOrNull

\* The entry that is to be seen, if there is one, comes to the front.
LEMMA VisibleFirstIs ==
  ASSUME NEW chain \in Seq(IconMgr), IsInjective(chain), NEW ws
  PROVE  LET r == VisibleFirst(chain, ws)
         IN  /\ r \in Seq(IconMgr) /\ IsInjective(r) /\ Range(r) = Range(chain)
             /\ \A p \in Range(chain) : p[2] = ws => r # <<>> /\ Head(r)[2] = ws
<1> DEFINE T == {i \in 1 .. Len(chain) : visible(chain[i], ws)}
           k == IF T # {} THEN Min(T) ELSE 0
           r == <<chain[k]>> \o RemoveAt(chain, k)
<1>1. VisibleFirst(chain, ws) = IF k = 0 THEN chain ELSE r
  BY Zenon DEF VisibleFirst, SelectInSeq
<1>2. \A p \in Range(chain) : p[2] = ws => T # {}
  BY RangeIs DEF visible
<1>3. Len(chain) \in Nat
  BY LenProperties
<1>4. CASE T = {}
  BY <1>1, <1>2, <1>4
<1>5. CASE T # {}
  <2>1. k \in T
    <3>1. T \in SUBSET Nat
      BY <1>3
    <3>2. Min(T) \in T
      <4> HIDE DEF T
      <4>1. QED
        BY <1>5, <3>1, MinIsLeast
    <3>3. QED
      BY <1>5, <3>2
  <2> HIDE DEF k
  <2>2. k \in 1 .. Len(chain) /\ chain[k][2] = ws /\ k # 0
    BY <1>3, <2>1 DEF visible
  <2>3. r \in Seq(IconMgr) /\ IsInjective(r) /\ Range(r) = Range(chain) /\ Head(r) = chain[k]
    BY <2>2, ToFrontIs
  <2>4. \A p \in Range(chain) : r # <<>>
    <3>1. Range(<<>>) = {}
      BY DEF Range
    <3> HIDE DEF r
    <3>2. QED
      BY <2>3, <3>1
  <2> HIDE DEF r
  <2>5. QED
    BY <1>1, <2>2, <2>3, <2>4
<1>6. QED
  BY <1>4, <1>5

\* Wherever it goes, one entry is added.
LEMMA InsertedIs ==
  ASSUME NEW s, NEW list \in Seq(Win), NEW w \in Win, NEW sort
  PROVE  AddsTo(Inserted(s, list, w, sort), list, w, Win)
<1> DEFINE greater == {i \in DOMAIN list : s.wins.name[w] < s.wins.name[list[i]]}
           k == CHOOSE i \in greater : \A j \in greater : i <= j
<1>1. Inserted(s, list, w, sort) =
        IF ~sort \/ greater = {} THEN Append(list, w) ELSE InsertAt(list, k, w)
  BY DEF Inserted
<1>2. DOMAIN list = 1 .. Len(list) /\ Len(list) \in Nat
  BY LenProperties
<1>3. greater \in SUBSET (1 .. Len(list))
  BY <1>2
<1> HIDE DEF greater
<1>4. CASE ~sort \/ greater = {}
  BY <1>1, <1>4, OneMoreIs
<1>5. CASE sort /\ greater # {}
  <2> DEFINE P(i) == \A j \in greater : i <= j
  <2>1. \E i \in greater : P(i)
    <3>1. greater \in SUBSET Nat
      BY <1>2, <1>3
    <3>2. QED
      BY <1>5, <3>1, LeastNat
  <2> HIDE DEF P
  <2>2. (CHOOSE i \in greater : P(i)) \in greater
    BY <2>1
  <2>3. k \in greater
    BY <2>2 DEF P
  <2> HIDE DEF k
  <2>4. k \in 1 .. Len(list)
    BY <1>3, <2>3
  <2>5. QED
    BY <1>1, <1>5, <2>4, InsertAtIs
<1>6. QED
  BY <1>4, <1>5

(***************************************************************************)
(* States that differ in some of the fields of the managers.                *)
(***************************************************************************)
ImField == {"list", "count", "cell", "cur", "chain", "mapped", "isicon", "active",
            "Current", "Active"}

Differs(s, t, F) ==
  /\ s \in ManagersState /\ t \in ManagersState /\ t.wins = s.wins
  /\ \A f \in ImField \ F : t.im[f] = s.im[f]

\* The parts of a state.
LEMMA StateIs ==
  ASSUME NEW s \in ManagersState
  PROVE  s = [wins |-> s.wins, im |-> s.im] /\ s.wins \in WinsType /\ s.im \in LooseIm
  BY DEF ManagersState

\* The parts of the managers.
LEMMA ImIs ==
  ASSUME NEW s \in ManagersState
  PROVE  /\ s.im.list \in [IconMgr -> Seq(Win)] /\ s.im.count \in [IconMgr -> Int]
         /\ s.im.cell \in [Entry -> Nat \X Nat] /\ s.im.cur \in [IconMgr -> Nat \X Nat]
         /\ s.im.chain \in [Win -> Seq(IconMgr)]
         /\ s.im.mapped \in SUBSET IconMgr /\ s.im.isicon \in SUBSET IconMgr
         /\ s.im.active \in [IconMgr -> EntryOrNull]
         /\ s.im.Current \in EntryOrNull /\ s.im.Active \in EntryOrNull
  BY StateIs DEF LooseIm

\* Other managers in a state.
LEMMA ImBecomesIs ==
  ASSUME NEW s \in ManagersState, NEW m \in LooseIm
  PROVE  LET t == [s EXCEPT !.im = m] IN t \in ManagersState /\ t.wins = s.wins /\ t.im = m
  BY DEF ManagersState

\* What other managers leave of a state.
LEMMA ImDiffers ==
  ASSUME NEW s \in ManagersState, NEW m \in LooseIm, NEW F,
         \A f \in ImField \ F : m[f] = s.im[f], NEW t, t = [s EXCEPT !.im = m]
  PROVE  Differs(s, t, F) /\ t.im = m
  BY ImBecomesIs DEF Differs

\* The columns of a manager.
LEMMA ColumnsIs ==
  ASSUME NEW ip \in IconMgr
  PROVE  columns[ip[1]] \in Nat \ {0}
  BY ManagersAssumption, EntryIs

\* What PackedAt depends on.
LEMMA PackedSame ==
  ASSUME NEW s, NEW t, NEW p, PackedAt(s, p),
         t.im.list[p] = s.im.list[p], t.im.cur[p] = s.im.cur[p],
         \A i \in 1 .. Len(s.im.list[p]) :
           t.im.cell[<<s.im.list[p][i], p>>] = s.im.cell[<<s.im.list[p][i], p>>]
  PROVE  PackedAt(t, p)
<1> DEFINE list == s.im.list[p]
           n == Len(list)
           c == columns[p[1]]
           rows == (n + c - 1) \div c
           cols == IF n < c THEN n ELSE c
<1>1. /\ PackedAt(s, p) <=>
           (n # 0 => /\ s.im.cur[p] = <<rows, cols>>
                     /\ \A i \in 1 .. n : s.im.cell[<<list[i], p>>] = CellOf(i - 1, c))
      /\ PackedAt(t, p) <=>
           (n # 0 => /\ t.im.cur[p] = <<rows, cols>>
                     /\ \A i \in 1 .. n : t.im.cell[<<list[i], p>>] = CellOf(i - 1, c))
  BY DEF PackedAt
<1> HIDE DEF n, c, rows, cols
<1>2. QED
  BY <1>1, Zenon DEF n, list

\* PackIconManager numbers the entries of its manager and of no other.
LEMMA PackIs ==
  ASSUME NEW s \in ManagersState, NEW ip \in IconMgr
  PROVE  LET t == PackIconManager(s, ip)
         IN  /\ Differs(s, t, {"cell", "cur"})
             /\ IsInjective(s.im.list[ip]) => PackedAt(t, ip)
             /\ \A p \in IconMgr : p # ip /\ PackedAt(s, p) => PackedAt(t, p)
<1> DEFINE list == s.im.list[ip]
           n == Len(list)
           c == columns[ip[1]]
           at(w) == CHOOSE i \in 1 .. n : list[i] = w
           cell == [e \in Entry |-> IF e[2] = ip /\ e[1] \in Range(list)
                                    THEN CellOf(at(e[1]) - 1, c) ELSE s.im.cell[e]]
           dims == <<(n + c - 1) \div c, IF n = 0 THEN 1 ELSE IF n < c THEN n ELSE c>>
           cur == [s.im.cur EXCEPT ![ip] = dims]
           m == [s.im EXCEPT !.cell = cell, !.cur = cur]
           t == [s EXCEPT !.im = m]
<1>1. s.im \in LooseIm /\ list \in Seq(Win) /\ n \in Nat /\ DOMAIN list = 1 .. n
  BY StateIs, ImIs, LenProperties
<1>2. c \in Nat \ {0}
  BY ColumnsIs
<1>3. PackIconManager(s, ip) = t
  <2>1. PackIconManager(s, ip) = [s EXCEPT !.im.cell = cell, !.im.cur[ip] = dims]
    BY Zenon DEF PackIconManager
  <2> HIDE DEF cell, dims
  <2>2. [s EXCEPT !.im.cell = cell, !.im.cur[ip] = dims] = t
    BY <1>1, StateIs DEF LooseIm
  <2>3. QED
    BY <2>1, <2>2
<1>4. ASSUME IsInjective(list), NEW i \in 1 .. n PROVE at(list[i]) = i
  <2>2. \A j \in 1 .. n : list[j] = list[i] <=> j = i
    BY <1>1, <1>4 DEF IsInjective
  <2> HIDE DEF n
  <2>3. QED
    BY <2>2
<1>5. cell \in [Entry -> Nat \X Nat]
  <2>1. \A e \in Entry : s.im.cell[e] \in Nat \X Nat
    BY ImIs
  <2>2. ASSUME NEW w \in Range(list) PROVE CellOf(at(w) - 1, c) \in Nat \X Nat
    <3>1. \E i \in 1 .. n : list[i] = w
      BY <1>1, RangeIs
    <3>2. at(w) \in 1 .. n
      <4> HIDE DEF n
      <4>1. QED
        BY <3>1
    <3> HIDE DEF at
    <3>4. at(w) - 1 \in Nat
      BY <1>1, <3>2
    <3>3. QED
      BY <1>2, <3>4, CellIs
  <2> HIDE DEF at
  <2>3. QED
    BY <2>1, <2>2
<1>6. dims \in Nat \X Nat
  <2>1. (n + c - 1) \div c \in Nat
    <3> HIDE DEF n, c
    <3>1. QED
      BY <1>1, <1>2
  <2>2. QED
    BY <1>1, <1>2, <2>1
<1>7. cur \in [IconMgr -> Nat \X Nat] /\ cur[ip] = dims
      /\ \A p \in IconMgr : p # ip => cur[p] = s.im.cur[p]
  <2> HIDE DEF dims
  <2>1. QED
    BY <1>6, ImIs
<1>8. ASSUME IsInjective(list), NEW i \in 1 .. n
      PROVE  cell[<<list[i], ip>>] = CellOf(i - 1, c)
  <2>2. <<list[i], ip>> \in Entry /\ list[i] \in Range(list)
    BY <1>1, RangeIs, EntryIs
  <2> HIDE DEF at
  <2>3. QED
    BY <1>4, <1>8, <2>2
<1>9. \A p \in IconMgr : p # ip => \A w \in Win : cell[<<w, p>>] = s.im.cell[<<w, p>>]
  <2> HIDE DEF at
  <2>1. QED
    BY EntryIs
<1> HIDE DEF cell, cur
<1>10. m \in LooseIm /\ m.cell = cell /\ m.cur = cur
       /\ \A f \in ImField \ {"cell", "cur"} : m[f] = s.im[f]
  <2>1. m \in LooseIm /\ m.cell = cell /\ m.cur = cur
    BY <1>1, <1>5, <1>7 DEF LooseIm
  <2>2. \A f \in ImField \ {"cell", "cur"} : m[f] = s.im[f]
    BY <1>1 DEF LooseIm, ImField
  <2>3. QED
    BY <2>1, <2>2
<1> HIDE DEF m
<1>11. t \in ManagersState /\ t.wins = s.wins /\ t.im = m
  BY <1>10, ImBecomesIs
<1> HIDE DEF t
<1>12. Differs(s, t, {"cell", "cur"}) /\ t.im.list = s.im.list
  BY <1>10, <1>11 DEF Differs, ImField
<1>13. ASSUME IsInjective(list) PROVE PackedAt(t, ip)
  BY <1>7, <1>8, <1>10, <1>11, <1>12, <1>13 DEF PackedAt
<1>14. ASSUME NEW p \in IconMgr, PackedAt(s, p), p # ip PROVE PackedAt(t, p)
  <2>1. \A i \in 1 .. Len(s.im.list[p]) : s.im.list[p][i] \in Win
    BY ImIs, ElementOfSeq
  <2>2. QED
    <3>1. /\ t.im.list[p] = s.im.list[p] /\ t.im.cur[p] = s.im.cur[p]
          /\ \A i \in 1 .. Len(s.im.list[p]) :
               t.im.cell[<<s.im.list[p][i], p>>] = s.im.cell[<<s.im.list[p][i], p>>]
      BY <1>7, <1>9, <1>10, <1>11, <1>12, <1>14, <2>1
    <3>2. QED
      BY <1>14, <3>1, PackedSame
<1>15. QED
  BY <1>3, <1>12, <1>13, <1>14

\* One field that changes: the list of a manager.
LEMMA ListBecomes ==
  ASSUME NEW s \in ManagersState, NEW ip \in IconMgr, NEW L \in Seq(Win)
  PROVE  LET t == [s EXCEPT !.im.list[ip] = L]
         IN  Differs(s, t, {"list"}) /\ t.im.list = [s.im.list EXCEPT ![ip] = L]
<1> DEFINE l == [s.im.list EXCEPT ![ip] = L]
           m == [s.im EXCEPT !.list = l]
           t == [s EXCEPT !.im.list[ip] = L]
<1>1. s.im \in LooseIm /\ l \in [IconMgr -> Seq(Win)]
  BY StateIs, ImIs
<1>2. t = [s EXCEPT !.im = m]
  BY StateIs DEF LooseIm
<1> HIDE DEF l, t
<1>3. m \in LooseIm /\ m.list = l
  BY <1>1 DEF LooseIm
<1>4. \A f \in ImField \ {"list"} : m[f] = s.im[f]
  BY <1>1 DEF LooseIm, ImField
<1> HIDE DEF m
<1>5. Differs(s, t, {"list"}) /\ t.im = m
  BY <1>2, <1>3, <1>4, ImDiffers
<1>6. QED
  BY <1>3, <1>5 DEF l, t

\* The count of a manager.
LEMMA CountBecomes ==
  ASSUME NEW s \in ManagersState, NEW ip \in IconMgr, NEW n \in Int
  PROVE  LET t == [s EXCEPT !.im.count[ip] = n]
         IN  Differs(s, t, {"count"}) /\ t.im.count = [s.im.count EXCEPT ![ip] = n]
<1> DEFINE l == [s.im.count EXCEPT ![ip] = n]
           m == [s.im EXCEPT !.count = l]
           t == [s EXCEPT !.im.count[ip] = n]
<1>1. s.im \in LooseIm /\ l \in [IconMgr -> Int]
  BY StateIs, ImIs
<1>2. t = [s EXCEPT !.im = m]
  BY StateIs DEF LooseIm
<1> HIDE DEF l, t
<1>3. m \in LooseIm /\ m.count = l
  BY <1>1 DEF LooseIm
<1>4. \A f \in ImField \ {"count"} : m[f] = s.im[f]
  BY <1>1 DEF LooseIm, ImField
<1> HIDE DEF m
<1>5. Differs(s, t, {"count"}) /\ t.im = m
  BY <1>2, <1>3, <1>4, ImDiffers
<1>6. QED
  BY <1>3, <1>5 DEF l, t

\* The entries of a window.
LEMMA ChainBecomes ==
  ASSUME NEW s \in ManagersState, NEW w \in Win, NEW q \in Seq(IconMgr)
  PROVE  LET t == [s EXCEPT !.im.chain[w] = q]
         IN  Differs(s, t, {"chain"}) /\ t.im.chain = [s.im.chain EXCEPT ![w] = q]
<1> DEFINE l == [s.im.chain EXCEPT ![w] = q]
           m == [s.im EXCEPT !.chain = l]
           t == [s EXCEPT !.im.chain[w] = q]
<1>1. s.im \in LooseIm /\ l \in [Win -> Seq(IconMgr)]
  BY StateIs, ImIs
<1>2. t = [s EXCEPT !.im = m]
  BY StateIs DEF LooseIm
<1> HIDE DEF l, t
<1>3. m \in LooseIm /\ m.chain = l
  BY <1>1 DEF LooseIm
<1>4. \A f \in ImField \ {"chain"} : m[f] = s.im[f]
  BY <1>1 DEF LooseIm, ImField
<1> HIDE DEF m
<1>5. Differs(s, t, {"chain"}) /\ t.im = m
  BY <1>2, <1>3, <1>4, ImDiffers
<1>6. QED
  BY <1>3, <1>5 DEF l, t

\* Another entry is Current.
LEMMA CurrentBecomes ==
  ASSUME NEW s \in ManagersState, NEW e \in EntryOrNull
  PROVE  LET t == [s EXCEPT !.im.Current = e]
         IN  Differs(s, t, {"Current"}) /\ t.im.Current = e
<1> DEFINE m == [s.im EXCEPT !.Current = e]
<1>1. m \in LooseIm /\ m.Current = e
  BY StateIs DEF LooseIm
<1>2. \A f \in ImField \ {"Current"} : m[f] = s.im[f]
  BY StateIs DEF LooseIm, ImField
<1>3. [s EXCEPT !.im.Current = e] = [s EXCEPT !.im = m]
  BY StateIs DEF LooseIm
<1> HIDE DEF m
<1>4. QED
  BY <1>1, <1>2, <1>3, ImBecomesIs DEF Differs

\* Other managers are shown.
LEMMA MappedBecomes ==
  ASSUME NEW s \in ManagersState, NEW S \in SUBSET IconMgr
  PROVE  LET t == [s EXCEPT !.im.mapped = S]
         IN  Differs(s, t, {"mapped"}) /\ t.im.mapped = S
<1> DEFINE m == [s.im EXCEPT !.mapped = S]
<1>1. m \in LooseIm /\ m.mapped = S
  BY StateIs DEF LooseIm
<1>2. \A f \in ImField \ {"mapped"} : m[f] = s.im[f]
  BY StateIs DEF LooseIm, ImField
<1>3. [s EXCEPT !.im.mapped = S] = [s EXCEPT !.im = m]
  BY StateIs DEF LooseIm
<1> HIDE DEF m
<1>4. QED
  BY <1>1, <1>2, <1>3, ImBecomesIs DEF Differs

\* What differs from what differs.
LEMMA DiffersTwice ==
  ASSUME NEW s, NEW t, NEW u, NEW F, NEW G, NEW H, Differs(s, t, F), Differs(t, u, G),
         F \subseteq H, G \subseteq H
  PROVE  Differs(s, u, H)
  BY DEF Differs

\* t is s with the entry, with which the list of the manager is L, and that of the
\* window q.
With(s, t, ip, w, L, q) ==
  /\ Differs(s, t, {"list", "count", "cell", "cur", "chain", "mapped"})
  /\ t.im.list = [s.im.list EXCEPT ![ip] = L]
  /\ t.im.count = [s.im.count EXCEPT ![ip] = @ + 1]
  /\ t.im.chain = [s.im.chain EXCEPT ![w] = q]
  /\ t.im.mapped \subseteq s.im.mapped \cup {ip}
  /\ IsInjective(L) => PackedAt(t, ip)
  /\ \A p \in IconMgr : p # ip /\ PackedAt(s, p) => PackedAt(t, p)

\* AddEntry puts the entry on both lists.
LEMMA AddEntryIs ==
  ASSUME NEW s \in ManagersState, NEW ip \in IconMgr, NEW w \in Win
  PROVE  \E L : /\ AddsTo(L, s.im.list[ip], w, Win)
                /\ With(s, AddEntry(s, ip, w), ip, w, L, <<ip>> \o s.im.chain[w])
<1> DEFINE L == Inserted(s, s.im.list[ip], w, SortIconMgr)
           s1 == [s EXCEPT !.im.list[ip] = L]
           n == s1.im.count[ip] + 1
           s2 == [s1 EXCEPT !.im.count[ip] = n]
           s3 == PackIconManager(s2, ip)
           q == <<ip>> \o s3.im.chain[w]
           s4 == [s3 EXCEPT !.im.chain[w] = q]
           M == IF ip \in s.im.isicon THEN s3.im.mapped ELSE s3.im.mapped \cup {ip}
           t == [s4 EXCEPT !.im.mapped = M]
<1>1. AddEntry(s, ip, w) = t
  <2>1. s2 = [InsertInIconManager(s, ip, w) EXCEPT !.im.count[ip] = @ + 1]
    BY DEF InsertInIconManager
  <2> HIDE DEF s2
  <2>2. AddEntry(s, ip, w) = [s3 EXCEPT !.im.chain[w] = q, !.im.mapped = M]
    BY <2>1 DEF AddEntry
  <2> HIDE DEF s3
  <2>3. QED
    BY <2>2
<1>2. AddsTo(L, s.im.list[ip], w, Win) /\ L \in Seq(Win)
  <2>1. s.im.list[ip] \in Seq(Win)
    BY ImIs
  <2>2. AddsTo(L, s.im.list[ip], w, Win)
    BY <2>1, InsertedIs
  <2> HIDE DEF L
  <2>3. QED
    BY <2>2 DEF AddsTo
<1> HIDE DEF L
<1>3. Differs(s, s1, {"list"}) /\ s1.im.list = [s.im.list EXCEPT ![ip] = L]
  BY <1>2, ListBecomes
<1> HIDE DEF s1
<1>4. s1 \in ManagersState /\ s1.im.count = s.im.count /\ n \in Int
  BY <1>3, ImIs DEF Differs, ImField
<1>5. Differs(s1, s2, {"count"}) /\ s2.im.count = [s1.im.count EXCEPT ![ip] = n]
  <2> HIDE DEF n
  <2>1. QED
    BY <1>4, CountBecomes
<1> HIDE DEF s2
<1>6. s2 \in ManagersState /\ s2.im.list = s1.im.list /\ s2.im.cell = s.im.cell
      /\ s2.im.cur = s.im.cur
  BY <1>3, <1>5 DEF Differs, ImField
<1>7. s2.im.list[ip] = L
  BY <1>3, <1>6, ImIs
<1>8. /\ Differs(s2, s3, {"cell", "cur"})
      /\ IsInjective(L) => PackedAt(s3, ip)
      /\ \A p \in IconMgr : p # ip /\ PackedAt(s2, p) => PackedAt(s3, p)
  BY <1>6, <1>7, PackIs
<1> HIDE DEF s3
<1>9. s3 \in ManagersState /\ s3.im.chain = s.im.chain /\ s3.im.mapped = s.im.mapped
      /\ s3.im.list = s2.im.list /\ s3.im.count = s2.im.count
  BY <1>3, <1>5, <1>8 DEF Differs, ImField
<1>10. q \in Seq(IconMgr) /\ M \in SUBSET IconMgr
  <2>1. s3.im.chain[w] \in Seq(IconMgr)
    BY <1>9, ImIs
  <2>2. AddsTo(q, s3.im.chain[w], ip, IconMgr)
    BY <2>1, OneMoreIs
  <2> HIDE DEF q
  <2>3. QED
    BY <1>9, <2>2, ImIs DEF AddsTo
<1>11. Differs(s3, s4, {"chain"}) /\ s4.im.chain = [s3.im.chain EXCEPT ![w] = q]
  <2> HIDE DEF q
  <2>1. QED
    BY <1>9, <1>10, ChainBecomes
<1> HIDE DEF s4
<1>12. s4 \in ManagersState
  BY <1>11 DEF Differs
<1>13. Differs(s4, t, {"mapped"}) /\ t.im.mapped = M
  <2> HIDE DEF M
  <2>1. QED
    BY <1>10, <1>12, MappedBecomes
<1> HIDE DEF t
<1>14. /\ t.im.list = [s.im.list EXCEPT ![ip] = L]
       /\ t.im.count = [s.im.count EXCEPT ![ip] = @ + 1]
       /\ t.im.chain = [s.im.chain EXCEPT ![w] = <<ip>> \o @]
       /\ t.im.cell = s3.im.cell /\ t.im.cur = s3.im.cur
  <2>1. t.im.list = s3.im.list /\ t.im.count = s3.im.count /\ t.im.chain = s4.im.chain
        /\ t.im.cell = s3.im.cell /\ t.im.cur = s3.im.cur
    BY <1>11, <1>13 DEF Differs, ImField
  <2>2. QED
    BY <1>3, <1>4, <1>5, <1>6, <1>9, <1>11, <2>1
<1>15. Differs(s, t, {"list", "count", "cell", "cur", "chain", "mapped"})
  BY <1>3, <1>5, <1>8, <1>11, <1>13 DEF Differs
<1>16. t.im.mapped \subseteq s.im.mapped \cup {ip}
  BY <1>9, <1>13
<1>17. ASSUME NEW p \in IconMgr, PackedAt(s3, p) PROVE PackedAt(t, p)
  <2>1. t.im.list = s3.im.list
    BY <1>11, <1>13 DEF Differs, ImField
  <2>2. QED
    BY <1>14, <1>17, <2>1, PackedSame
<1>18. ASSUME NEW p \in IconMgr, p # ip, PackedAt(s, p) PROVE PackedAt(t, p)
  <2>1. s2.im.list[p] = s.im.list[p]
    BY <1>3, <1>6, <1>18, ImIs
  <2>2. PackedAt(s2, p)
    BY <1>6, <1>18, <2>1, PackedSame
  <2>3. QED
    BY <1>8, <1>17, <1>18, <2>2
<1>19. IsInjective(L) => PackedAt(t, ip)
  BY <1>8, <1>17
<1>20. With(s, t, ip, w, L, <<ip>> \o s.im.chain[w])
  BY <1>14, <1>15, <1>16, <1>18, <1>19 DEF With
<1>21. QED
  BY <1>1, <1>2, <1>20

\* An entry that is added leaves the lists in agreement.
LEMMA AddEntryLinks ==
  ASSUME NEW s \in ManagersState, Linked(s), NEW ip \in IconMgr, NEW w \in Win,
         ip \notin Range(s.im.chain[w])
  PROVE  LET t == AddEntry(s, ip, w)
         IN  /\ t \in ManagersState /\ Linked(t) /\ t.wins = s.wins
             /\ \A v \in Win : v # w => t.im.chain[v] = s.im.chain[v]
             /\ Range(t.im.chain[w]) = Range(s.im.chain[w]) \cup {ip}
<1> DEFINE t == AddEntry(s, ip, w)
           q == <<ip>> \o s.im.chain[w]
<1>1. IsInjective(s.im.list[ip]) /\ w \notin Range(s.im.list[ip])
  BY DEF Linked
<1>2. PICK L : AddsTo(L, s.im.list[ip], w, Win) /\ With(s, t, ip, w, L, q)
  BY AddEntryIs
<1> HIDE DEF t
<1>4. /\ L \in Seq(Win) /\ Len(L) = Len(s.im.list[ip]) + 1 /\ IsInjective(L)
      /\ Range(L) = Range(s.im.list[ip]) \cup {w}
  BY <1>1, <1>2 DEF AddsTo
<1>5. q \in Seq(IconMgr) /\ IsInjective(q) /\ Range(q) = Range(s.im.chain[w]) \cup {ip}
  <2>1. s.im.chain[w] \in Seq(IconMgr) /\ IsInjective(s.im.chain[w])
    BY ImIs DEF Linked
  <2>2. AddsTo(q, s.im.chain[w], ip, IconMgr)
    BY <2>1, OneMoreIs
  <2> HIDE DEF q
  <2>3. QED
    BY <2>1, <2>2 DEF AddsTo
<1> HIDE DEF q
<1>6. /\ \A p \in IconMgr : t.im.list[p] = IF p = ip THEN L ELSE s.im.list[p]
      /\ \A p \in IconMgr : t.im.count[p] = IF p = ip THEN s.im.count[ip] + 1 ELSE s.im.count[p]
      /\ \A v \in Win : t.im.chain[v] = IF v = w THEN q ELSE s.im.chain[v]
  BY <1>2, ImIs DEF With
<1>7. t \in ManagersState /\ t.wins = s.wins /\ t.im.Current = s.im.Current
      /\ t.im.Active = s.im.Active
  BY <1>2 DEF With, Differs, ImField
<1>8. \A p \in IconMgr : Range(s.im.list[p]) \subseteq Range(t.im.list[p])
  BY <1>4, <1>6
<1>9. \A e : Listed(s, e) => Listed(t, e)
  BY <1>8, EntryIs DEF Listed
<1>10. \A v \in Win : IsInjective(t.im.chain[v])
  BY <1>5, <1>6 DEF Linked
<1>11. \A p \in IconMgr : IsInjective(t.im.list[p])
  BY <1>4, <1>6 DEF Linked
<1>12. \A p \in IconMgr : t.im.count[p] = Len(t.im.list[p])
  BY <1>4, <1>6 DEF Linked
<1>13. \A p \in IconMgr : \A v \in Win : v \in Range(t.im.list[p]) <=> p \in Range(t.im.chain[v])
  <2>1. \A p \in IconMgr : \A v \in Win : v \in Range(s.im.list[p]) <=> p \in Range(s.im.chain[v])
    BY DEF Linked
  <2>2. QED
    BY <1>4, <1>5, <1>6, <2>1
<1>14. \A p \in t.im.mapped : t.im.count[p] > 0
  <2>1. TAKE p \in t.im.mapped
  <2>2. p \in IconMgr
    BY <1>7, ImIs
  <2>3. CASE p = ip
    <3>1. s.im.count[ip] = Len(s.im.list[ip]) /\ Len(s.im.list[ip]) \in Nat
      BY ImIs, LenProperties DEF Linked
    <3>2. QED
      BY <1>6, <2>3, <3>1
  <2>4. CASE p # ip
    <3>1. p \in s.im.mapped
      BY <1>2, <2>4 DEF With
    <3>2. s.im.count[p] > 0
      BY <3>1 DEF Linked
    <3>3. QED
      BY <1>6, <2>2, <2>4, <3>2
  <2>5. QED
    BY <2>3, <2>4
<1>15. t.im.Current # None => Listed(t, t.im.Current)
  BY <1>7, <1>9 DEF Linked
<1>16. t.im.Active \in Entry => Listed(t, t.im.Active)
  BY <1>7, <1>9 DEF Linked
<1>17. \A p \in IconMgr : PackedAt(t, p)
  BY <1>2, <1>4 DEF Linked, With
<1>18. Linked(t)
  BY <1>10, <1>11, <1>12, <1>13, <1>14, <1>15, <1>16, <1>17 DEF Linked
<1>19. QED
  BY <1>5, <1>6, <1>7, <1>18 DEF t

\* t is s without the entry, of which the list of the manager leaves L, and that
\* of the window q.
Without(s, t, ip, w, L, q) ==
  /\ t \in ManagersState /\ t.wins = s.wins
  /\ t.im.list = [s.im.list EXCEPT ![ip] = L]
  /\ t.im.count = [s.im.count EXCEPT ![ip] = @ - 1]
  /\ t.im.chain = [s.im.chain EXCEPT ![w] = q]
  /\ t.im.mapped = IF t.im.count[ip] = 0 THEN s.im.mapped \ {ip} ELSE s.im.mapped
  /\ t.im.Current = IF s.im.Current # <<w, ip>> THEN s.im.Current
                    ELSE IF L = <<>> THEN None ELSE <<Head(L), ip>>
  /\ t.im.Active = IF s.im.Active = <<w, ip>> THEN Freed ELSE s.im.Active
  /\ IsInjective(s.im.list[ip]) => PackedAt(t, ip)
  /\ \A p \in IconMgr : p # ip /\ PackedAt(s, p) => PackedAt(t, p)

\* RemoveEntry takes the entry off both lists, and frees it.
LEMMA RemoveEntryIs ==
  ASSUME NEW s \in ManagersState, NEW ip \in IconMgr, NEW w \in Win
  PROVE  Without(s, RemoveEntry(s, ip, w), ip, w,
                 RemoveFirst(s.im.list[ip], w), RemoveFirst(s.im.chain[w], ip))
<1> DEFINE L == RemoveFirst(s.im.list[ip], w)
           s1 == [s EXCEPT !.im.list[ip] = L]
           e == IF s1.im.Current = <<w, ip>> THEN First(s1, ip) ELSE s1.im.Current
           s2 == [s1 EXCEPT !.im.Current = e]
           n == s2.im.count[ip] - 1
           s3 == [s2 EXCEPT !.im.count[ip] = n]
           s4 == PackIconManager(s3, ip)
           freed(x) == IF x = <<w, ip>> THEN Freed ELSE x
           q == RemoveFirst(s4.im.chain[w], ip)
           M == IF s4.im.count[ip] = 0 THEN s4.im.mapped \ {ip} ELSE s4.im.mapped
           A == freed(s4.im.Active)
           a == [p \in IconMgr |-> freed(s4.im.active[p])]
           s5 == [s4 EXCEPT !.im.chain[w] = q]
           s6 == [s5 EXCEPT !.im.mapped = M]
           m == [s6.im EXCEPT !.Active = A, !.active = a]
           t == [s6 EXCEPT !.im = m]
<1>1. L \in Seq(Win) /\ (IsInjective(s.im.list[ip]) => IsInjective(L))
  <2>1. s.im.list[ip] \in Seq(Win)
    BY ImIs
  <2>2. QED
    BY <2>1, RemoveFirstRange, RemoveFirstInjective
<1>2. RemoveEntry(s, ip, w) = [s4 EXCEPT !.im.chain[w] = q, !.im.mapped = M,
                                          !.im.Active = A, !.im.active = a]
  <2>1. RemoveFromIconManager(s, ip, w) = s2
    BY DEF RemoveFromIconManager
  <2> HIDE DEF s2
  <2>2. s3 = [s2 EXCEPT !.im.count[ip] = @ - 1]
    OBVIOUS
  <2> HIDE DEF s3
  <2>3. QED
    BY <2>1, <2>2, Zenon DEF RemoveEntry
<1>3. Differs(s, s1, {"list"}) /\ s1.im.list = [s.im.list EXCEPT ![ip] = L]
  <2> HIDE DEF L
  <2>1. QED
    BY <1>1, ListBecomes
<1> HIDE DEF L, s1
<1>4. /\ s1 \in ManagersState /\ s1.im.list[ip] = L /\ s1.im.Current = s.im.Current
      /\ s1.im.cell = s.im.cell /\ s1.im.cur = s.im.cur /\ s1.im.count = s.im.count
  BY <1>3, ImIs DEF Differs, ImField
<1>5. e = IF s.im.Current # <<w, ip>> THEN s.im.Current
          ELSE IF L = <<>> THEN None ELSE <<Head(L), ip>>
  BY <1>4 DEF First
<1>6. e \in EntryOrNull
  <2>1. L # <<>> => Head(L) \in Win
    BY <1>1, HeadTailProperties
  <2>2. L # <<>> => <<Head(L), ip>> \in EntryOrNull
    BY <2>1, EntryIs
  <2>3. QED
    BY <1>5, <2>2, ImIs, EntryIs
<1> HIDE DEF e
<1>7. Differs(s1, s2, {"Current"}) /\ s2.im.Current = e
  BY <1>4, <1>6, CurrentBecomes
<1> HIDE DEF s2
<1>8. s2 \in ManagersState /\ s2.im.count = s.im.count /\ n \in Int
  BY <1>4, <1>7, ImIs DEF Differs, ImField
<1>9. Differs(s2, s3, {"count"}) /\ s3.im.count = [s2.im.count EXCEPT ![ip] = n]
  <2> HIDE DEF n
  <2>1. QED
    BY <1>8, CountBecomes
<1> HIDE DEF s3
<1>10. /\ s3 \in ManagersState /\ s3.im.list = s1.im.list /\ s3.im.list[ip] = L
       /\ s3.im.cell = s.im.cell /\ s3.im.cur = s.im.cur
  BY <1>4, <1>7, <1>9 DEF Differs, ImField
<1>11. /\ Differs(s3, s4, {"cell", "cur"})
       /\ IsInjective(L) => PackedAt(s4, ip)
       /\ \A p \in IconMgr : p # ip /\ PackedAt(s3, p) => PackedAt(s4, p)
  BY <1>10, PackIs
<1> HIDE DEF s4
<1>12. /\ s4 \in ManagersState /\ s4.im.chain = s.im.chain /\ s4.im.mapped = s.im.mapped
       /\ s4.im.list = s1.im.list /\ s4.im.Active = s.im.Active
  BY <1>3, <1>7, <1>9, <1>11 DEF Differs, ImField
<1>13. s4.im.count = [s.im.count EXCEPT ![ip] = @ - 1]
  BY <1>8, <1>9, <1>11 DEF Differs, ImField
<1>14. q \in Seq(IconMgr)
  <2>1. s4.im.chain[w] \in Seq(IconMgr)
    BY <1>12, ImIs
  <2>2. QED
    BY <2>1, RemoveFirstRange
<1>15. M \in SUBSET IconMgr /\ A \in EntryOrNull /\ a \in [IconMgr -> EntryOrNull]
  <2>1. Freed \in EntryOrNull /\ s4.im.mapped \in SUBSET IconMgr /\ s4.im.Active \in EntryOrNull
        /\ \A p \in IconMgr : s4.im.active[p] \in EntryOrNull
    BY <1>12, ImIs, EntryIs
  <2>2. QED
    BY <2>1
<1>16. q = RemoveFirst(s.im.chain[w], ip)
  BY <1>12
<1> HIDE DEF q
<1>17. Differs(s4, s5, {"chain"}) /\ s5.im.chain = [s4.im.chain EXCEPT ![w] = q]
  BY <1>12, <1>14, ChainBecomes
<1>18. RemoveEntry(s, ip, w) = t
  <2> HIDE DEF M, A, a
  <2>1. RemoveEntry(s, ip, w) = [s6 EXCEPT !.im.Active = A, !.im.active = a]
    BY <1>2
  <2>2. s5 \in ManagersState
    BY <1>17 DEF Differs
  <2> HIDE DEF s5
  <2>3. s6 \in ManagersState
    BY <1>15, <2>2, MappedBecomes DEF Differs
  <2> HIDE DEF s6
  <2>4. QED
    BY <2>1, <2>3, StateIs DEF LooseIm
<1> HIDE DEF s5
<1>19. Differs(s5, s6, {"mapped"}) /\ s6.im.mapped = M
  <2>1. s5 \in ManagersState
    BY <1>17 DEF Differs
  <2> HIDE DEF M
  <2>2. QED
    BY <1>15, <2>1, MappedBecomes
<1> HIDE DEF s6
<1>20. m \in LooseIm /\ m.Active = A /\ \A f \in ImField \ {"Active", "active"} : m[f] = s6.im[f]
  <2>1. s6.im \in LooseIm
    BY <1>19, StateIs DEF Differs
  <2> HIDE DEF M, A, a
  <2>2. m \in LooseIm /\ m.Active = A
    BY <1>15, <2>1 DEF LooseIm
  <2>3. \A f \in ImField \ {"Active", "active"} : m[f] = s6.im[f]
    BY <2>1 DEF LooseIm, ImField
  <2>4. QED
    BY <2>2, <2>3
<1> HIDE DEF m
<1>21. Differs(s6, t, {"Active", "active"}) /\ t.im = m
  <2>1. s6 \in ManagersState
    BY <1>19 DEF Differs
  <2>2. QED
    BY <1>20, <2>1, ImDiffers
<1> HIDE DEF t
<1>22. t \in ManagersState /\ t.wins = s.wins
  BY <1>3, <1>7, <1>9, <1>11, <1>17, <1>19, <1>21 DEF Differs
<1>23. /\ t.im.list = s4.im.list /\ t.im.count = s4.im.count /\ t.im.chain = s5.im.chain
       /\ t.im.mapped = M /\ t.im.cell = s4.im.cell /\ t.im.cur = s4.im.cur
       /\ t.im.Current = s4.im.Current /\ t.im.Active = A
  BY <1>17, <1>19, <1>20, <1>21 DEF Differs, ImField
<1>24. s4.im.Current = e
  BY <1>7, <1>9, <1>11 DEF Differs, ImField
<1>25. ASSUME NEW p \in IconMgr, PackedAt(s4, p) PROVE PackedAt(t, p)
  BY <1>23, <1>25, PackedSame
<1>26. ASSUME NEW p \in IconMgr, p # ip, PackedAt(s, p) PROVE PackedAt(t, p)
  <2>1. s3.im.list[p] = s.im.list[p]
    BY <1>3, <1>10, <1>26, ImIs
  <2>2. PackedAt(s3, p)
    BY <1>10, <1>26, <2>1, PackedSame
  <2>3. QED
    BY <1>11, <1>25, <1>26, <2>2
<1>27. /\ t.im.list = [s.im.list EXCEPT ![ip] = L]
       /\ t.im.count = [s.im.count EXCEPT ![ip] = @ - 1]
       /\ t.im.chain = [s.im.chain EXCEPT ![w] = RemoveFirst(@, ip)]
       /\ t.im.Current = IF s.im.Current # <<w, ip>> THEN s.im.Current
                         ELSE IF L = <<>> THEN None ELSE <<Head(L), ip>>
       /\ t.im.Active = IF s.im.Active = <<w, ip>> THEN Freed ELSE s.im.Active
  BY <1>3, <1>5, <1>12, <1>13, <1>16, <1>17, <1>23, <1>24
<1>28. t.im.mapped = IF t.im.count[ip] = 0 THEN s.im.mapped \ {ip} ELSE s.im.mapped
  BY <1>12, <1>23
<1>29. Without(s, t, ip, w, L, RemoveFirst(s.im.chain[w], ip))
  <2>1. IsInjective(s.im.list[ip]) => PackedAt(t, ip)
    BY <1>1, <1>11, <1>25
  <2>2. QED
    BY <1>22, <1>26, <1>27, <1>28, <2>1, Zenon DEF Without
<1>30. QED
  BY <1>18, <1>29 DEF L

\* An entry that is removed leaves the lists in agreement.
LEMMA RemoveEntryLinks ==
  ASSUME NEW s \in ManagersState, Linked(s), NEW ip \in IconMgr, NEW w \in Win,
         ip \in Range(s.im.chain[w])
  PROVE  LET t == RemoveEntry(s, ip, w)
         IN  /\ t \in ManagersState /\ Linked(t) /\ t.wins = s.wins
             /\ \A v \in Win : v # w => t.im.chain[v] = s.im.chain[v]
             /\ Range(t.im.chain[w]) = Range(s.im.chain[w]) \ {ip}
             /\ Head(s.im.chain[w]) # ip => Head(t.im.chain[w]) = Head(s.im.chain[w])
<1> DEFINE t == RemoveEntry(s, ip, w)
           L == RemoveFirst(s.im.list[ip], w)
           q == RemoveFirst(s.im.chain[w], ip)
<1>1. /\ s.im.list[ip] \in Seq(Win) /\ IsInjective(s.im.list[ip]) /\ w \in Range(s.im.list[ip])
      /\ s.im.chain[w] \in Seq(IconMgr) /\ IsInjective(s.im.chain[w])
  BY ImIs DEF Linked
<1>2. Without(s, t, ip, w, L, q)
  BY RemoveEntryIs
<1>3. /\ L \in Seq(Win) /\ IsInjective(L) /\ Range(L) = Range(s.im.list[ip]) \ {w}
      /\ Len(L) = Len(s.im.list[ip]) - 1
  BY <1>1, RemoveFirstInjective, RemoveFirstShortens
<1>4. /\ q \in Seq(IconMgr) /\ IsInjective(q) /\ Range(q) = Range(s.im.chain[w]) \ {ip}
      /\ Head(s.im.chain[w]) # ip => Head(q) = Head(s.im.chain[w])
  BY <1>1, RemoveFirstInjective, RemoveFirstShortens
<1> HIDE DEF t, L, q
<1>5. /\ t \in ManagersState /\ t.wins = s.wins
      /\ t.im.mapped = IF t.im.count[ip] = 0 THEN s.im.mapped \ {ip} ELSE s.im.mapped
      /\ t.im.Current = IF s.im.Current # <<w, ip>> THEN s.im.Current
                        ELSE IF L = <<>> THEN None ELSE <<Head(L), ip>>
      /\ t.im.Active = IF s.im.Active = <<w, ip>> THEN Freed ELSE s.im.Active
      /\ PackedAt(t, ip) /\ \A p \in IconMgr : p # ip /\ PackedAt(s, p) => PackedAt(t, p)
  BY <1>1, <1>2, Zenon DEF Without
<1>6. /\ \A p \in IconMgr : t.im.list[p] = IF p = ip THEN L ELSE s.im.list[p]
      /\ \A p \in IconMgr : t.im.count[p] = IF p = ip THEN s.im.count[ip] - 1 ELSE s.im.count[p]
      /\ \A v \in Win : t.im.chain[v] = IF v = w THEN q ELSE s.im.chain[v]
  BY <1>2, ImIs DEF Without
<1>7. \A e : Listed(s, e) /\ e # <<w, ip>> => Listed(t, e)
  <2>1. SUFFICES ASSUME NEW e, Listed(s, e), e # <<w, ip>> PROVE Listed(t, e)
    OBVIOUS
  <2>2. e \in Entry /\ e[1] \in Range(s.im.list[e[2]]) /\ e[2] \in IconMgr
        /\ e = <<e[1], e[2]>>
    BY <2>1, EntryIs DEF Listed
  <2>3. CASE e[2] = ip
    <3>1. e[1] # w
      BY <2>1, <2>2, <2>3
    <3>2. e[1] \in Range(L)
      BY <1>3, <2>2, <2>3, <3>1
    <3>3. QED
      BY <1>6, <2>2, <2>3, <3>2 DEF Listed
  <2>4. CASE e[2] # ip
    BY <1>6, <2>2, <2>4 DEF Listed
  <2>5. QED
    BY <2>3, <2>4
<1>8. \A v \in Win : IsInjective(t.im.chain[v])
  BY <1>4, <1>6 DEF Linked
<1>9. \A p \in IconMgr : IsInjective(t.im.list[p])
  BY <1>3, <1>6 DEF Linked
<1>10. \A p \in IconMgr : t.im.count[p] = Len(t.im.list[p])
  BY <1>3, <1>6 DEF Linked
<1>11. \A p \in IconMgr : \A v \in Win : v \in Range(t.im.list[p]) <=> p \in Range(t.im.chain[v])
  <2>1. \A p \in IconMgr : \A v \in Win : v \in Range(s.im.list[p]) <=> p \in Range(s.im.chain[v])
    BY DEF Linked
  <2>2. QED
    BY <1>3, <1>4, <1>6, <2>1
<1>12. \A p \in t.im.mapped : t.im.count[p] > 0
  <2>1. TAKE p \in t.im.mapped
  <2>2. p \in s.im.mapped /\ p \in IconMgr
    BY <1>5, ImIs
  <2>3. CASE p = ip
    <3>1. t.im.count[ip] # 0
      BY <1>5, <2>3
    <3>2. t.im.count[ip] = Len(L) /\ Len(L) \in Nat
      BY <1>3, <1>6, <1>10, LenProperties
    <3>3. QED
      BY <2>3, <3>1, <3>2
  <2>4. CASE p # ip
    <3>1. s.im.count[p] > 0
      BY <2>2 DEF Linked
    <3>2. QED
      BY <1>6, <2>2, <2>4, <3>1
  <2>5. QED
    BY <2>3, <2>4
<1>13. t.im.Current # None => Listed(t, t.im.Current)
  <2>1. CASE s.im.Current # <<w, ip>>
    <3>1. s.im.Current # None => Listed(s, s.im.Current)
      BY DEF Linked
    <3>2. QED
      BY <1>5, <1>7, <2>1, <3>1
  <2>2. CASE s.im.Current = <<w, ip>> /\ L # <<>>
    <3>2. Head(L) \in Range(L) /\ Head(L) \in Win
      BY <1>3, <2>2, HeadIsThere
    <3>3. Listed(t, <<Head(L), ip>>)
      BY <1>6, <3>2, EntryIs DEF Listed
    <3>4. QED
      BY <1>5, <2>2, <3>3
  <2>3. CASE s.im.Current = <<w, ip>> /\ L = <<>>
    BY <1>5, <2>3
  <2>4. QED
    BY <2>1, <2>2, <2>3
<1>14. t.im.Active \in Entry => Listed(t, t.im.Active)
  <2>1. s.im.Active \in Entry => Listed(s, s.im.Active)
    BY DEF Linked
  <2>2. QED
    BY <1>5, <1>7, <2>1, EntryIs
<1>15. \A p \in IconMgr : PackedAt(t, p)
  BY <1>5 DEF Linked
<1>16. Linked(t)
  BY <1>8, <1>9, <1>10, <1>11, <1>12, <1>13, <1>14, <1>15 DEF Linked
<1>17. QED
  BY <1>5, <1>4, <1>6, <1>16 DEF t

\* The order of the entries of a window does not matter to the lists.
LEMMA ReorderedLinks ==
  ASSUME NEW s, NEW t, Linked(s), Differs(s, t, {"chain"}),
         \A w \in Win : IsInjective(t.im.chain[w]) /\ Range(t.im.chain[w]) = Range(s.im.chain[w])
  PROVE  Linked(t)
<1>1. /\ t.im.list = s.im.list /\ t.im.count = s.im.count /\ t.im.mapped = s.im.mapped
      /\ t.im.Current = s.im.Current /\ t.im.Active = s.im.Active
      /\ t.im.cell = s.im.cell /\ t.im.cur = s.im.cur
  BY DEF Differs, ImField
<1>2. \A ip \in IconMgr : PackedAt(t, ip)
  <2>1. TAKE ip \in IconMgr
  <2>2. PackedAt(s, ip)
    BY DEF Linked
  <2>3. QED
    BY <1>1, <2>2, PackedSame
<1>3. \A e : Listed(s, e) <=> Listed(t, e)
  BY <1>1 DEF Listed
<1>4. \A ip \in IconMgr : \A w \in Win :
        w \in Range(t.im.list[ip]) <=> ip \in Range(t.im.chain[w])
  BY <1>1 DEF Linked
<1>5. \A ip \in IconMgr : /\ IsInjective(t.im.list[ip])
                          /\ t.im.count[ip] = Len(t.im.list[ip])
  BY <1>1 DEF Linked
<1>6. \A ip \in t.im.mapped : t.im.count[ip] > 0
  BY <1>1 DEF Linked
<1>7. /\ t.im.Current # None => Listed(t, t.im.Current)
      /\ t.im.Active \in Entry => Listed(t, t.im.Active)
  BY <1>1, <1>3 DEF Linked
<1>8. QED
  BY <1>2, <1>4, <1>5, <1>6, <1>7 DEF Linked

\* What a window has for the workspaces in occ, and who is the same then.
Has(s, t, w, occ) ==
  /\ t \in ManagersState /\ Linked(t) /\ t.wins = s.wins
  /\ \A v \in Win : v # w => t.im.chain[v] = s.im.chain[v]
  /\ Range(t.im.chain[w]) = Homes(w, occ)

\* The homes of a window.
LEMMA HomesAre ==
  ASSUME NEW w \in Win
  PROVE  /\ \A occ : \A p \in Homes(w, occ) :
               p[1] = IconMgrs[w] /\ p[2] \in occ /\ p = Home(w, p[2])
         /\ \A occ : \A i : IconMgrs[w] # None => (Home(w, i) \in Homes(w, occ) <=> i \in occ)
         /\ \A occ : IconMgrs[w] = None => Homes(w, occ) = {}
         /\ \A occ \in SUBSET WorkSpace : \A p \in Homes(w, occ) : p \in IconMgr
         /\ IconMgrs[w] # None => \A i \in WorkSpace : Home(w, i) \in IconMgr
<1>1. IconMgrs[w] \in Mgr \cup {None}
  BY ManagersAssumption
<1>2. \A i : Home(w, i)[1] = IconMgrs[w] /\ Home(w, i)[2] = i
  BY DEF Home
<1>3. IconMgrs[w] # None => \A i \in WorkSpace : Home(w, i) \in IconMgr
  BY <1>1 DEF Home, IconMgr
<1> HIDE DEF Home
<1>4. QED
  BY <1>2, <1>3 DEF Homes

\* AddIconManager gives a window an entry for each workspace in occ, which are not
\* yet among those it has one for, and puts the one that is seen first.
LEMMA AddIconManagerIs ==
  ASSUME NEW s \in ManagersState, Linked(s), NEW w \in Win,
         NEW old \in SUBSET WorkSpace, NEW occ \in SUBSET WorkSpace, old \cap occ = {},
         Range(s.im.chain[w]) = Homes(w, old), FirstShown(s, w)
  PROVE  LET t == AddIconManager(s, w, occ)
         IN  Has(s, t, w, old \cup occ) /\ FirstShown(t, w)
<1>1. CASE IconMgrs[w] = None \/ occ = {}
  <2>1. AddIconManager(s, w, occ) = s
    BY <1>1 DEF AddIconManager
  <2>2. Homes(w, old \cup occ) = Homes(w, old)
    BY <1>1, HomesAre
  <2>3. QED
    BY <2>1, <2>2 DEF Has
<1>2. CASE ~(IconMgrs[w] = None \/ occ = {})
  <2> DEFINE n == NWorkSpaces
             m == IconMgrs[w]
             h == [p \in ManagersState \X (1 .. n) |->
                     IF p[2] \in occ THEN AddEntry(p[1], <<m, p[2]>>, w) ELSE p[1]]
             Is(f) == f = [i \in 0 .. n |->
                             IF i = 0 THEN s
                             ELSE IF i \in occ THEN AddEntry(f[i - 1], <<m, i>>, w)
                             ELSE f[i - 1]]
             F == CHOOSE f : Is(f)
             t == [F[n] EXCEPT !.im.chain[w] = VisibleFirst(@, s.wins.ws)]
  <2>1. AddIconManager(s, w, occ) = t
    BY <1>2 DEF AddIconManager
  <2>2. n \in Nat /\ \A i \in 1 .. n : <<m, i>> \in IconMgr /\ <<m, i>> = Home(w, i)
    BY <1>2, ManagersAssumption, HomesAre DEF WorkSpace, Home
  <2>3. \A a \in ManagersState : \A i \in 1 .. n : AddEntry(a, <<m, i>>, w) \in ManagersState
    <3>1. TAKE a \in ManagersState
    <3>2. TAKE i \in 1 .. n
    <3>3. PICK L : With(a, AddEntry(a, <<m, i>>, w), <<m, i>>, w, L, <<<<m, i>>>> \o a.im.chain[w])
      BY <2>2, AddEntryIs
    <3>4. QED
      BY <3>3 DEF With, Differs
  <2> HIDE DEF n, m
  <2>4. h \in [ManagersState \X (1 .. n) -> ManagersState]
    BY <2>3
  <2>5. \E f : Is(f)
    <3> HIDE DEF h
    <3> DEFINE A == ManagersState
    <3>0. n \in Nat /\ s \in A /\ h \in [A \X (1 .. n) -> A]
      BY <2>2, <2>4
    <3>1. PICK f : f \in [0 .. n -> A] /\ f[0] = s /\ \A i \in 1 .. n : f[i] = h[<<f[i - 1], i>>]
      <4> HIDE DEF A
      <4>1. PICK f : Recursion(f, n, A, s, h)
        BY <3>0, RecursionExists
      <4>2. QED
        BY <4>1 DEF Recursion
    <3>2. \A i \in 1 .. n :
            f[i] = IF i \in occ THEN AddEntry(f[i - 1], <<m, i>>, w) ELSE f[i - 1]
      <4>1. TAKE i \in 1 .. n
      <4>2. <<f[i - 1], i>> \in ManagersState \X (1 .. n)
        <5>1. i - 1 \in 0 .. n
          BY <2>2
        <5>2. f[i - 1] \in ManagersState
          BY <3>1, <5>1
        <5>3. QED
          BY <5>2
      <4>3. QED
        BY <3>1, <4>2 DEF h
    <3>3. Is(f)
      <4> DEFINE V(i) == IF i = 0 THEN s
                         ELSE IF i \in occ THEN AddEntry(f[i - 1], <<m, i>>, w) ELSE f[i - 1]
      <4>1. \A i \in 0 .. n : f[i] = V(i)
        <5>1. \A i \in 0 .. n : i = 0 \/ i \in 1 .. n
          BY <2>2
        <5>2. QED
          BY <3>1, <3>2, <5>1
      <4> HIDE DEF V
      <4>2. f = [i \in 0 .. n |-> V(i)]
        BY <3>1, <4>1
      <4>3. QED
        BY <4>2 DEF V
    <3>4. QED
      BY <3>3
  <2>6. Is(F)
    <3> HIDE DEF Is
    <3>1. QED
      BY <2>5
  <2> HIDE DEF F, h
  <2>7. F[0] = s /\ \A i \in 1 .. n : F[i] = IF i \in occ THEN AddEntry(F[i - 1], <<m, i>>, w)
                                            ELSE F[i - 1]
    <3> DEFINE G == [i \in 0 .. n |->
                       IF i = 0 THEN s
                       ELSE IF i \in occ THEN AddEntry(F[i - 1], <<m, i>>, w) ELSE F[i - 1]]
    <3>1. F = G
      BY <2>6
    <3>2. G[0] = s /\ \A i \in 1 .. n : G[i] = IF i \in occ THEN AddEntry(F[i - 1], <<m, i>>, w)
                                              ELSE F[i - 1]
      BY <2>2
    <3> HIDE DEF G
    <3>3. QED
      BY <3>1, <3>2
  <2> HIDE DEF Is
  <2> DEFINE P(i) == Has(s, F[i], w, old \cup (occ \cap 1 .. i))
             T == {i \in 0 .. n : ~P(i)}
  <2>8. T = {}
    <3>1. SUFFICES ASSUME T # {} PROVE FALSE
      OBVIOUS
    <3>2. PICK k \in T : \A j \in T : k <= j
      <4>1. T \in SUBSET Nat
        BY <2>2
      <4>2. QED
        BY <3>1, <4>1, LeastNat
    <3>3. k \in 0 .. n /\ ~P(k)
      BY <3>2
    <3>4. P(0)
      <4>1. old \cup (occ \cap 1 .. 0) = old
        OBVIOUS
      <4>2. QED
        BY <2>7, <4>1 DEF Has
    <3>5. k \in 1 .. n /\ k - 1 \in 0 .. n
      <4>1. k # 0
        BY <3>3, <3>4
      <4>2. QED
        BY <2>2, <3>3, <4>1
    <3>6. P(k - 1)
      <4>1. k - 1 \notin T
        <5>1. ~(k <= k - 1)
          BY <3>3
        <5>2. QED
          BY <3>2, <5>1
      <4>2. QED
        BY <3>5, <4>1
    <3> DEFINE a == F[k - 1]
               o == old \cup (occ \cap 1 .. k - 1)
    <3>7. Has(s, a, w, o)
      BY <3>6
    <3>8. 1 .. k = (1 .. k - 1) \cup {k} /\ k \notin 1 .. k - 1
      BY <3>5
    <3>9. CASE k \notin occ
      <4>1. F[k] = a
        BY <2>7, <3>5, <3>9
      <4>2. old \cup (occ \cap 1 .. k) = o
        BY <3>8, <3>9
      <4>3. QED
        BY <3>3, <3>7, <4>1, <4>2
    <3>10. CASE k \in occ
      <4>1. F[k] = AddEntry(a, <<m, k>>, w)
        BY <2>7, <3>5, <3>10
      <4>2. k \notin o /\ old \cup (occ \cap 1 .. k) = o \cup {k}
        BY <3>8, <3>10
      <4> HIDE DEF a, o
      <4> DEFINE ip == <<m, k>>
                 b == AddEntry(a, ip, w)
      <4>3. ip = Home(w, k) /\ ip \in IconMgr
        BY <2>2, <3>5
      <4>4. a \in ManagersState /\ Linked(a) /\ ip \notin Range(a.im.chain[w])
        <5>1. Home(w, k) \notin Homes(w, o)
          BY <1>2, <4>2, HomesAre
        <5>2. QED
          BY <3>7, <4>3, <5>1 DEF Has
      <4> HIDE DEF ip
      <4>5. /\ b \in ManagersState /\ Linked(b) /\ b.wins = a.wins
            /\ \A v \in Win : v # w => b.im.chain[v] = a.im.chain[v]
            /\ Range(b.im.chain[w]) = Range(a.im.chain[w]) \cup {ip}
        BY <4>3, <4>4, AddEntryLinks
      <4> HIDE DEF b
      <4>6. Homes(w, o \cup {k}) = Homes(w, o) \cup {Home(w, k)}
        BY <1>2 DEF Homes
      <4>7. Has(s, b, w, o \cup {k})
        BY <3>7, <4>3, <4>5, <4>6 DEF Has
      <4>8. QED
        BY <3>3, <4>1, <4>2, <4>7 DEF b, ip
    <3>11. QED
      BY <3>9, <3>10
  <2> DEFINE r == F[n]
             q == VisibleFirst(r.im.chain[w], s.wins.ws)
  <2>9. Has(s, r, w, old \cup occ)
    <3>1. n \in 0 .. n
      BY <2>2
    <3>2. P(n)
      BY <2>8, <3>1
    <3>3. occ \cap 1 .. n = occ
      BY DEF WorkSpace, n
    <3>4. QED
      BY <3>2, <3>3
  <2>10. t = [r EXCEPT !.im.chain[w] = q]
    OBVIOUS
  <2> HIDE DEF r, t
  <2>11. r \in ManagersState /\ r.im.chain[w] \in Seq(IconMgr) /\ IsInjective(r.im.chain[w])
    BY <2>9, ImIs DEF Has, Linked
  <2>12. /\ q \in Seq(IconMgr) /\ IsInjective(q) /\ Range(q) = Range(r.im.chain[w])
         /\ \A p \in Range(r.im.chain[w]) : p[2] = s.wins.ws => q # <<>> /\ Head(q)[2] = s.wins.ws
    BY <2>11, VisibleFirstIs
  <2> HIDE DEF q
  <2>13. Differs(r, t, {"chain"}) /\ t.im.chain = [r.im.chain EXCEPT ![w] = q]
    BY <2>10, <2>11, <2>12, ChainBecomes
  <2>14. \A v \in Win : t.im.chain[v] = IF v = w THEN q ELSE r.im.chain[v]
    BY <2>11, <2>13, ImIs
  <2>15. Linked(t)
    <3>1. Linked(r) /\ \A v \in Win : IsInjective(r.im.chain[v])
      BY <2>9 DEF Has, Linked
    <3>2. QED
      BY <2>12, <2>13, <2>14, <3>1, ReorderedLinks
  <2>16. Has(s, t, w, old \cup occ)
    BY <2>9, <2>12, <2>13, <2>14, <2>15 DEF Has, Differs
  <2>17. FirstShown(t, w)
    <3>1. t.wins = s.wins
      BY <2>16 DEF Has
    <3>2. SUFFICES ASSUME Home(w, s.wins.ws) \in Range(q) PROVE Head(q) = Home(w, s.wins.ws)
      BY <2>14, <3>1 DEF FirstShown
    <3>3. Home(w, s.wins.ws)[2] = s.wins.ws
      BY DEF Home
    <3>4. q # <<>> /\ Head(q)[2] = s.wins.ws
      BY <2>12, <3>2, <3>3
    <3>5. Head(q) \in Homes(w, old \cup occ)
      BY <2>9, <2>12, <3>4, HeadIsThere DEF Has
    <3>6. QED
      BY <3>4, <3>5, HomesAre
  <2>18. QED
    BY <2>1, <2>16, <2>17
<1>3. QED
  BY <1>1, <1>2

\* RemoveIconManager leaves a window an entry for each workspace that its occupation
\* calls for, and the one that is seen first.
LEMMA RemoveIconManagerIs ==
  ASSUME NEW s \in ManagersState, Linked(s), NEW w \in Win, NEW old \in SUBSET WorkSpace,
         Range(s.im.chain[w]) = Homes(w, old), FirstShown(s, w)
  PROVE  LET t == RemoveIconManager(s, w)
         IN  Has(s, t, w, old \cap s.wins.occupation[w]) /\ FirstShown(t, w)
<1> DEFINE chain == s.im.chain[w]
           occ == s.wins.occupation[w]
           n == Len(chain)
           h == [p \in ManagersState \X (1 .. n) |->
                   IF chain[p[2]][2] \in occ THEN p[1] ELSE RemoveEntry(p[1], chain[p[2]], w)]
           Is(f) == f = [i \in 0 .. n |->
                           IF i = 0 THEN s
                           ELSE IF chain[i][2] \in occ THEN f[i - 1]
                           ELSE RemoveEntry(f[i - 1], chain[i], w)]
           F == CHOOSE f : Is(f)
<1>1. RemoveIconManager(s, w) = F[n]
  BY DEF RemoveIconManager
<1>2. /\ chain \in Seq(IconMgr) /\ IsInjective(chain) /\ Range(chain) = Homes(w, old)
      /\ n \in Nat /\ DOMAIN chain = 1 .. n /\ \A i \in 1 .. n : chain[i] \in IconMgr
  BY ImIs, LenProperties, ElementOfSeq DEF Linked
<1>3. \A a \in ManagersState : \A i \in 1 .. n : RemoveEntry(a, chain[i], w) \in ManagersState
  <2>1. TAKE a \in ManagersState
  <2>2. TAKE i \in 1 .. n
  <2> DEFINE ip == chain[i]
  <2>3. ip \in IconMgr
    BY <1>2
  <2> HIDE DEF ip
  <2>4. RemoveEntry(a, ip, w) \in ManagersState
    BY <2>3, RemoveEntryIs DEF Without
  <2>5. QED
    BY <2>4 DEF ip
<1> HIDE DEF n, chain, occ
<1>4. h \in [ManagersState \X (1 .. n) -> ManagersState]
  BY <1>3
<1>5. \E f : Is(f)
  <2> HIDE DEF h
  <2> DEFINE A == ManagersState
  <2>0. n \in Nat /\ s \in A /\ h \in [A \X (1 .. n) -> A]
    BY <1>2, <1>4
  <2>1. PICK f : f \in [0 .. n -> A] /\ f[0] = s /\ \A i \in 1 .. n : f[i] = h[<<f[i - 1], i>>]
    <3> HIDE DEF A
    <3>1. PICK f : Recursion(f, n, A, s, h)
      BY <2>0, RecursionExists
    <3>2. QED
      BY <3>1 DEF Recursion
  <2>2. \A i \in 1 .. n :
          f[i] = IF chain[i][2] \in occ THEN f[i - 1] ELSE RemoveEntry(f[i - 1], chain[i], w)
    <3>1. TAKE i \in 1 .. n
    <3>2. <<f[i - 1], i>> \in ManagersState \X (1 .. n)
      <4>1. i - 1 \in 0 .. n
        BY <1>2
      <4>2. f[i - 1] \in ManagersState
        BY <2>1, <4>1
      <4>3. QED
        BY <4>2
    <3>3. QED
      BY <2>1, <3>2 DEF h
  <2>3. Is(f)
    <3> DEFINE V(i) == IF i = 0 THEN s
                       ELSE IF chain[i][2] \in occ THEN f[i - 1]
                       ELSE RemoveEntry(f[i - 1], chain[i], w)
    <3>1. \A i \in 0 .. n : f[i] = V(i)
      <4>1. \A i \in 0 .. n : i = 0 \/ i \in 1 .. n
        BY <1>2
      <4>2. QED
        BY <2>1, <2>2, <4>1
    <3> HIDE DEF V
    <3>2. f = [i \in 0 .. n |-> V(i)]
      BY <2>1, <3>1
    <3>3. QED
      BY <3>2 DEF V
  <2>4. QED
    BY <2>3
<1>6. Is(F)
  <2> HIDE DEF Is
  <2>1. QED
    BY <1>5
<1> HIDE DEF F, h
<1>7. F[0] = s /\ \A i \in 1 .. n : F[i] = IF chain[i][2] \in occ THEN F[i - 1]
                                          ELSE RemoveEntry(F[i - 1], chain[i], w)
  <2> DEFINE G == [i \in 0 .. n |->
                     IF i = 0 THEN s
                     ELSE IF chain[i][2] \in occ THEN F[i - 1]
                     ELSE RemoveEntry(F[i - 1], chain[i], w)]
  <2>1. F = G
    BY <1>6
  <2>2. G[0] = s /\ \A i \in 1 .. n : G[i] = IF chain[i][2] \in occ THEN F[i - 1]
                                            ELSE RemoveEntry(F[i - 1], chain[i], w)
    BY <1>2
  <2> HIDE DEF G
  <2>3. QED
    BY <2>1, <2>2
<1> HIDE DEF Is
<1>8. /\ \A i \in 1 .. n : chain[i] = Home(w, chain[i][2]) /\ chain[i][2] \in old
      /\ \A i, j \in 1 .. n : chain[i][2] = chain[j][2] => i = j
      /\ n # 0 => IconMgrs[w] # None
  <2>1. \A i \in 1 .. n : chain[i] \in Homes(w, old)
    BY <1>2, RangeIs DEF n
  <2>2. \A i \in 1 .. n : chain[i] = Home(w, chain[i][2]) /\ chain[i][2] \in old
    BY <2>1, HomesAre
  <2>3. \A i, j \in 1 .. n : chain[i] = chain[j] => i = j
    BY <1>2 DEF IsInjective
  <2>4. \A i, j \in 1 .. n : chain[i][2] = chain[j][2] => i = j
    BY <2>2, <2>3
  <2>5. n # 0 => IconMgrs[w] # None
    <3>1. n # 0 => 1 \in 1 .. n
      BY <1>2
    <3>2. QED
      BY <2>1, <3>1, HomesAre
  <2>6. QED
    BY <2>2, <2>4, <2>5
<1> DEFINE Out(i) == {chain[j][2] : j \in {l \in 1 .. i : chain[l][2] \notin occ}}
           P(i) == Has(s, F[i], w, old \ Out(i)) /\ FirstShown(F[i], w)
           T == {i \in 0 .. n : ~P(i)}
<1>9. T = {}
  <2>1. SUFFICES ASSUME T # {} PROVE FALSE
    OBVIOUS
  <2>2. PICK k \in T : \A j \in T : k <= j
    <3>1. T \in SUBSET Nat
      BY <1>2
    <3>2. QED
      BY <2>1, <3>1, LeastNat
  <2>3. k \in 0 .. n /\ ~P(k)
    BY <2>2
  <2>4. P(0)
    <3>1. old \ Out(0) = old
      OBVIOUS
    <3>2. QED
      BY <1>2, <1>7, <3>1 DEF Has, chain
  <2>5. k \in 1 .. n /\ k - 1 \in 0 .. n /\ n # 0
    <3>1. k # 0
      BY <2>3, <2>4
    <3>2. QED
      BY <1>2, <2>3, <3>1
  <2>6. P(k - 1)
    <3>1. k - 1 \notin T
      <4>1. ~(k <= k - 1)
        BY <2>3
      <4>2. QED
        BY <2>2, <4>1
    <3>2. QED
      BY <2>5, <3>1
  <2> DEFINE a == F[k - 1]
             o == old \ Out(k - 1)
  <2>7. Has(s, a, w, o) /\ FirstShown(a, w)
    BY <2>6
  <2>8. 1 .. k = (1 .. k - 1) \cup {k} /\ k \notin 1 .. k - 1 /\ \A j \in 1 .. k - 1 : j \in 1 .. n
    BY <1>2, <2>5
  <2>9. CASE chain[k][2] \in occ
    <3>1. F[k] = a
      BY <1>7, <2>5, <2>9
    <3>2. Out(k) = Out(k - 1)
      BY <2>8, <2>9
    <3>3. QED
      BY <2>3, <2>7, <3>1, <3>2
  <2>10. CASE chain[k][2] \notin occ
    <3> DEFINE x == chain[k][2]
               ip == chain[k]
               b == RemoveEntry(a, ip, w)
    <3>1. F[k] = b
      BY <1>7, <2>5, <2>10
    <3>2. x \notin Out(k - 1)
      BY <1>8, <2>5, <2>8
    <3>3. old \ Out(k) = o \ {x}
      <4>1. Out(k) = Out(k - 1) \cup {x}
        BY <2>8, <2>10
      <4>2. QED
        BY <4>1
    <3>4. ip = Home(w, x) /\ ip \in IconMgr /\ x \in old /\ IconMgrs[w] # None
      BY <1>2, <1>8, <2>5
    <3>5. x \in o
      BY <3>2, <3>4
    <3> HIDE DEF a, o, ip, x
    <3>6. a \in ManagersState /\ Linked(a) /\ ip \in Range(a.im.chain[w])
      BY <2>7, <3>4, <3>5, HomesAre DEF Has
    <3>7. /\ b \in ManagersState /\ Linked(b) /\ b.wins = a.wins
          /\ \A v \in Win : v # w => b.im.chain[v] = a.im.chain[v]
          /\ Range(b.im.chain[w]) = Range(a.im.chain[w]) \ {ip}
          /\ Head(a.im.chain[w]) # ip => Head(b.im.chain[w]) = Head(a.im.chain[w])
      BY <3>4, <3>6, RemoveEntryLinks
    <3> HIDE DEF b
    <3>8. Homes(w, o \ {x}) = Homes(w, o) \ {Home(w, x)}
      <4>1. \A i, j : Home(w, i) = Home(w, j) => i = j
        BY DEF Home
      <4> HIDE DEF Home
      <4>2. QED
        BY <3>4, <4>1 DEF Homes
    <3>9. Has(s, b, w, o \ {x})
      BY <2>7, <3>4, <3>7, <3>8 DEF Has
    <3>10. FirstShown(b, w)
      BY <2>7, <3>7 DEF FirstShown
    <3>11. QED
      BY <2>3, <3>1, <3>3, <3>9, <3>10 DEF b
  <2>11. QED
    BY <2>9, <2>10
<1>10. P(n)
  <2>1. n \in 0 .. n
    BY <1>2
  <2>2. QED
    BY <1>9, <2>1
<1>11. Homes(w, old \ Out(n)) = Homes(w, old \cap occ)
  <2>1. CASE IconMgrs[w] = None
    BY <2>1, HomesAre
  <2>2. CASE IconMgrs[w] # None
    <3>1. ASSUME NEW x \in old, x \notin occ PROVE x \in Out(n)
      <4>1. Home(w, x) \in Range(chain)
        BY <1>2, <2>2, <3>1, HomesAre
      <4>2. PICK j \in 1 .. n : chain[j] = Home(w, x)
        BY <1>2, <4>1, RangeIs DEF n
      <4>3. chain[j][2] = x
        BY <4>2 DEF Home
      <4>4. QED
        BY <3>1, <4>3
    <3>2. old \ Out(n) = old \cap occ
      BY <3>1
    <3>3. QED
      BY <3>2
  <2>3. QED
    BY <2>1, <2>2
<1>12. QED
  BY <1>1, <1>10, <1>11 DEF Has, occ

(***************************************************************************)
(* What happens to the windows.                                             *)
(***************************************************************************)

\* The windows change, the managers do not.
LEMMA WinsBecomesIs ==
  ASSUME NEW s \in ManagersState, NEW x \in WinsType, NEW t, t = [s EXCEPT !.wins = x]
  PROVE  t \in ManagersState /\ t.wins = x /\ t.im = s.im /\ (Linked(s) => Linked(t))
<1>1. t \in ManagersState /\ t.wins = x /\ t.im = s.im
  BY DEF ManagersState
<1>2. ASSUME Linked(s) PROVE Linked(t)
  <2>1. \A ip \in IconMgr : PackedAt(t, ip)
    <3>1. TAKE ip \in IconMgr
    <3>2. PackedAt(s, ip)
      BY <1>2 DEF Linked
    <3>3. QED
      BY <1>1, <3>2, PackedSame
  <2>2. \A e : Listed(s, e) <=> Listed(t, e)
    BY <1>1 DEF Listed
  <2>3. QED
    BY <1>1, <1>2, <2>1, <2>2 DEF Linked
<1>3. QED
  BY <1>1, <1>2

\* Nothing but the occupation of a window, and what is mapped.
Occupied(s, w, occ, S) == [s EXCEPT !.wins.occupation[w] = occ, !.wins.mapped = S]

\* The occupation of a window, and the mapped windows.
LEMMA OccupationBecomes ==
  ASSUME NEW s \in ManagersState, NEW w \in Win, NEW occ \in SUBSET WorkSpace,
         NEW S \in SUBSET Win
  PROVE  LET t == Occupied(s, w, occ, S)
         IN  /\ t \in ManagersState /\ t.im = s.im /\ (Linked(s) => Linked(t))
             /\ t.wins.ws = s.wins.ws
             /\ t.wins.occupation = [s.wins.occupation EXCEPT ![w] = occ]
<1> DEFINE o == [s.wins.occupation EXCEPT ![w] = occ]
           x == [s.wins EXCEPT !.occupation = o, !.mapped = S]
           t == Occupied(s, w, occ, S)
<1>1. s.wins \in WinsType /\ o \in [Win -> SUBSET WorkSpace]
  BY StateIs DEF WinsType
<1>2. t = [s EXCEPT !.wins = x]
  BY StateIs DEF WinsType, Occupied
<1> HIDE DEF o, t
<1>3. x \in WinsType /\ x.ws = s.wins.ws /\ x.occupation = o
  BY <1>1 DEF WinsType
<1> HIDE DEF x
<1>4. t \in ManagersState /\ t.wins = x /\ t.im = s.im /\ (Linked(s) => Linked(t))
  BY <1>2, <1>3, WinsBecomesIs
<1>5. QED
  BY <1>3, <1>4 DEF o, t

\* The occupations.
LEMMA WinsAre ==
  ASSUME NEW s \in ManagersState
  PROVE  /\ s.wins.occupation \in [Win -> SUBSET WorkSpace] /\ s.wins.mapped \in SUBSET Win
         /\ s.wins.ws \in WorkSpace /\ s.wins.focus \in Win \cup {None}
         /\ s.wins.name \in [Win -> Name]
  BY StateIs DEF WinsType

\* When one window has what its occupation calls for, and the others are as they were.
LEMMA SoundAgain ==
  ASSUME NEW s, NEW t, NEW w \in Win, Has(s, t, w, s.wins.occupation[w]), FirstShown(t, w),
         \A v \in Win : v # w => Placed(s, v) /\ FirstShown(s, v)
  PROVE  Sound(t)
<1>1. ASSUME NEW v \in Win PROVE Placed(t, v) /\ FirstShown(t, v)
  <2>1. CASE v = w
    BY <2>1 DEF Has, Placed
  <2>2. CASE v # w
    BY <2>2 DEF Has, Placed, FirstShown
  <2>3. QED
    BY <2>1, <2>2
<1>2. QED
  BY <1>1 DEF Sound, Has, Homely

\* A window is managed.
LEMMA AddedIsSound ==
  ASSUME NEW s, Sound(s), NEW w \in Win, s.wins.occupation[w] = {},
         NEW occ \in SUBSET WorkSpace, NEW S \in SUBSET Win
  PROVE  Sound(AddIconManager([s EXCEPT !.wins.occupation[w] = occ, !.wins.mapped = S], w, occ))
<1> DEFINE b == Occupied(s, w, occ, S)
           t == AddIconManager(b, w, occ)
<1>1. s \in ManagersState /\ Linked(s) /\ \A v \in Win : Placed(s, v) /\ FirstShown(s, v)
  BY DEF Sound, Homely
<1>2. /\ b \in ManagersState /\ b.im = s.im /\ Linked(b) /\ b.wins.ws = s.wins.ws
      /\ b.wins.occupation = [s.wins.occupation EXCEPT ![w] = occ]
  BY <1>1, OccupationBecomes
<1> HIDE DEF b
<1>3. \A v \in Win : b.wins.occupation[v] = IF v = w THEN occ ELSE s.wins.occupation[v]
  BY <1>1, <1>2, WinsAre
<1>4. Range(b.im.chain[w]) = Homes(w, {}) /\ FirstShown(b, w)
  BY <1>1, <1>2 DEF Placed, FirstShown
<1>5. Has(b, t, w, {} \cup occ) /\ FirstShown(t, w)
  <2> DEFINE old == {}
  <2>1. old \in SUBSET WorkSpace /\ old \cap occ = {} /\ Range(b.im.chain[w]) = Homes(w, old)
    BY <1>4
  <2> HIDE DEF old
  <2>2. Has(b, t, w, old \cup occ) /\ FirstShown(t, w)
    BY <1>2, <1>4, <2>1, AddIconManagerIs
  <2>3. QED
    BY <2>2 DEF old
<1> HIDE DEF t
<1>6. Has(b, t, w, b.wins.occupation[w])
  <2>1. {} \cup occ = b.wins.occupation[w]
    BY <1>3
  <2>2. QED
    BY <1>5, <2>1
<1>7. \A v \in Win : v # w => Placed(b, v) /\ FirstShown(b, v)
  BY <1>1, <1>2, <1>3 DEF Placed, FirstShown
<1>8. Sound(t)
  BY <1>5, <1>6, <1>7, SoundAgain
<1>9. QED
  BY <1>8 DEF t, b, Occupied

\* A window has lost workspaces that it still has entries for.
LEMMA RemovedIsSound ==
  ASSUME NEW s \in ManagersState, Linked(s), NEW w \in Win, NEW old \in SUBSET WorkSpace,
         Range(s.im.chain[w]) = Homes(w, old), s.wins.occupation[w] \subseteq old,
         FirstShown(s, w), \A v \in Win : v # w => Placed(s, v) /\ FirstShown(s, v)
  PROVE  Sound(RemoveIconManager(s, w))
<1> DEFINE t == RemoveIconManager(s, w)
<1>1. Has(s, t, w, old \cap s.wins.occupation[w]) /\ FirstShown(t, w)
  BY RemoveIconManagerIs
<1>2. old \cap s.wins.occupation[w] = s.wins.occupation[w]
  OBVIOUS
<1> HIDE DEF t
<1>3. Has(s, t, w, s.wins.occupation[w])
  BY <1>1, <1>2
<1>4. Sound(t)
  BY <1>1, <1>3, SoundAgain
<1>5. QED
  BY <1>4 DEF t

\* A window is gone.
LEMMA DestroyedIsSound ==
  ASSUME NEW s, Sound(s), NEW w \in Win, NEW S \in SUBSET Win
  PROVE  Sound(RemoveIconManager([s EXCEPT !.wins.occupation[w] = {}, !.wins.mapped = S], w))
<1> DEFINE none == {}
           b == Occupied(s, w, none, S)
           old == s.wins.occupation[w]
<1>1. /\ s \in ManagersState /\ Linked(s) /\ \A v \in Win : Placed(s, v) /\ FirstShown(s, v)
      /\ none \in SUBSET WorkSpace
  BY DEF Sound, Homely
<1> HIDE DEF none
<1>2. /\ b \in ManagersState /\ b.im = s.im /\ Linked(b) /\ b.wins.ws = s.wins.ws
      /\ b.wins.occupation = [s.wins.occupation EXCEPT ![w] = none]
  BY <1>1, OccupationBecomes
<1> HIDE DEF b
<1>3. /\ \A v \in Win : b.wins.occupation[v] = IF v = w THEN none ELSE s.wins.occupation[v]
      /\ old \in SUBSET WorkSpace
  BY <1>1, <1>2, WinsAre
<1>4. Range(b.im.chain[w]) = Homes(w, old) /\ FirstShown(b, w)
  BY <1>1, <1>2 DEF Placed, FirstShown
<1>5. \A v \in Win : v # w => Placed(b, v) /\ FirstShown(b, v)
  BY <1>1, <1>2, <1>3 DEF Placed, FirstShown
<1>6. b.wins.occupation[w] \subseteq old
  BY <1>3 DEF none
<1> HIDE DEF old
<1>7. Sound(RemoveIconManager(b, w))
  BY <1>2, <1>3, <1>4, <1>5, <1>6, RemovedIsSound
<1>8. QED
  BY <1>7 DEF b, none, Occupied

\* A window changes its occupation.
LEMMA ChangeOccupationIsSound ==
  ASSUME NEW s, Sound(s), NEW w \in Win, NEW occ \in SUBSET WorkSpace
  PROVE  Sound(ChangeOccupation(s, w, occ))
<1> DEFINE old == s.wins.occupation[w]
           new == occ \ old
           a == AddIconManager(s, w, new)
           b == [a EXCEPT !.wins.occupation[w] = occ]
<1>1. s \in ManagersState /\ Linked(s) /\ \A v \in Win : Placed(s, v) /\ FirstShown(s, v)
  BY DEF Sound, Homely
<1>2. ChangeOccupation(s, w, occ) = RemoveIconManager(b, w)
  BY DEF ChangeOccupation
<1>3. /\ old \in SUBSET WorkSpace /\ new \in SUBSET WorkSpace /\ old \cap new = {}
      /\ Range(s.im.chain[w]) = Homes(w, old) /\ occ \subseteq old \cup new
  BY <1>1, WinsAre DEF Placed
<1> HIDE DEF old, new
<1>4. Has(s, a, w, old \cup new) /\ FirstShown(a, w)
  BY <1>1, <1>3, AddIconManagerIs
<1> HIDE DEF a
<1>5. b = Occupied(a, w, occ, a.wins.mapped)
  <2>1. a \in ManagersState
    BY <1>4 DEF Has
  <2>2. QED
    BY <2>1, StateIs DEF WinsType, Occupied
<1> HIDE DEF b
<1>6. /\ b \in ManagersState /\ b.im = a.im /\ Linked(b) /\ b.wins.ws = a.wins.ws
      /\ b.wins.occupation = [a.wins.occupation EXCEPT ![w] = occ]
  <2>1. a \in ManagersState /\ Linked(a) /\ a.wins.mapped \in SUBSET Win
    BY <1>4, WinsAre DEF Has
  <2>2. QED
    BY <1>5, <2>1, OccupationBecomes
<1>7. \A v \in Win : b.wins.occupation[v] = IF v = w THEN occ ELSE s.wins.occupation[v]
  BY <1>1, <1>4, <1>6, WinsAre DEF Has
<1>8. Range(b.im.chain[w]) = Homes(w, old \cup new) /\ FirstShown(b, w)
  BY <1>4, <1>6 DEF Has, FirstShown
<1>9. \A v \in Win : v # w => Placed(b, v) /\ FirstShown(b, v)
  BY <1>1, <1>4, <1>6, <1>7 DEF Has, Placed, FirstShown
<1>10. b.wins.occupation[w] \subseteq old \cup new /\ old \cup new \in SUBSET WorkSpace
  BY <1>3, <1>7
<1>11. Sound(RemoveIconManager(b, w))
  BY <1>6, <1>8, <1>9, <1>10, RemovedIsSound
<1>12. QED
  BY <1>2, <1>11

\* Pointers to entries, and which managers are shown.
LEMMA PointersMove ==
  ASSUME NEW s, Sound(s), NEW t,
         Differs(s, t, {"Current", "Active", "active", "isicon", "mapped"}),
         t.im.Current # None => Listed(s, t.im.Current),
         t.im.Active \in Entry => Listed(s, t.im.Active),
         \A ip \in t.im.mapped : s.im.count[ip] > 0
  PROVE  Sound(t)
<1>1. /\ t.im.list = s.im.list /\ t.im.count = s.im.count /\ t.im.chain = s.im.chain
      /\ t.im.cell = s.im.cell /\ t.im.cur = s.im.cur /\ t.wins = s.wins /\ t \in ManagersState
  BY DEF Differs, ImField
<1>2. \A ip \in IconMgr : PackedAt(t, ip)
  <2>1. TAKE ip \in IconMgr
  <2>2. PackedAt(s, ip)
    BY DEF Sound, Linked
  <2>3. QED
    BY <1>1, <2>2, PackedSame
<1>3. \A e : Listed(s, e) <=> Listed(t, e)
  BY <1>1 DEF Listed
<1>4. /\ \A w \in Win : IsInjective(t.im.chain[w])
      /\ \A ip \in IconMgr : IsInjective(t.im.list[ip])
      /\ \A ip \in IconMgr : t.im.count[ip] = Len(t.im.list[ip])
      /\ \A ip \in IconMgr : \A w \in Win :
           w \in Range(t.im.list[ip]) <=> ip \in Range(t.im.chain[w])
  BY <1>1 DEF Sound, Linked
<1>5. Linked(t)
  BY <1>1, <1>2, <1>3, <1>4 DEF Linked
<1>6. Homely(t)
  BY <1>1 DEF Sound, Homely, Placed, FirstShown
<1>7. QED
  BY <1>1, <1>5, <1>6 DEF Sound

\* What is so of the pointers in a sound state.
LEMMA SoundIs ==
  ASSUME NEW s, Sound(s)
  PROVE  /\ s \in ManagersState /\ Linked(s) /\ Homely(s)
         /\ s.im.Current # None => Listed(s, s.im.Current)
         /\ s.im.Active \in Entry => Listed(s, s.im.Active)
         /\ \A ip \in s.im.mapped : s.im.count[ip] > 0
         /\ \A w \in Win : IsInjective(s.im.chain[w])
         /\ \A ip \in IconMgr : IsInjective(s.im.list[ip])
  BY DEF Sound, Linked

\* Another entry is Current.
LEMMA CurrentIsSound ==
  ASSUME NEW s, Sound(s), NEW e, e # None => Listed(s, e)
  PROVE  Sound([s EXCEPT !.im.Current = e]) /\ [s EXCEPT !.im.Current = e].wins = s.wins
<1> DEFINE t == [s EXCEPT !.im.Current = e]
<1>1. e \in EntryOrNull
  BY EntryIs DEF Listed
<1>2. Differs(s, t, {"Current"}) /\ t.im.Current = e
  BY <1>1, SoundIs, CurrentBecomes
<1> HIDE DEF t
<1>3. /\ Differs(s, t, {"Current", "Active", "active", "isicon", "mapped"})
      /\ t.im.Active = s.im.Active /\ t.im.mapped = s.im.mapped /\ t.wins = s.wins
  BY <1>2 DEF Differs, ImField
<1>4. Sound(t)
  BY <1>2, <1>3, SoundIs, PointersMove
<1>5. QED
  BY <1>3, <1>4 DEF t

\* The first entry of a window is on the list of its manager.
LEMMA FirstEntryIs ==
  ASSUME NEW s, Sound(s), NEW w \in Win, s.im.chain[w] # <<>>
  PROVE  LET e == <<w, Head(s.im.chain[w])>>
         IN  Listed(s, e) /\ e \in Entry /\ e # None /\ e[2] \in IconMgr
<1> DEFINE ip == Head(s.im.chain[w])
<1>1. s.im.chain[w] \in Seq(IconMgr)
  BY SoundIs, ImIs
<1>2. ip \in IconMgr /\ ip \in Range(s.im.chain[w])
  BY <1>1, HeadIsThere
<1> HIDE DEF ip
<1>3. w \in Range(s.im.list[ip])
  BY <1>2, SoundIs DEF Linked
<1>4. Listed(s, <<w, ip>>) /\ <<w, ip>> \in Entry /\ <<w, ip>> # None /\ <<w, ip>>[2] \in IconMgr
  BY <1>2, <1>3, EntryIs DEF Listed
<1>5. QED
  BY <1>4 DEF ip

\* The highlight of a manager goes to an entry.
LEMMA HighlightedIsSound ==
  ASSUME NEW s, Sound(s), NEW w \in Win \cup {None}
  PROVE  Sound(Highlighted(s, w)) /\ Highlighted(s, w).wins = s.wins
<1>1. CASE w = None \/ s.im.chain[w] = <<>>
  BY <1>1 DEF Highlighted
<1>2. CASE ~(w = None \/ s.im.chain[w] = <<>>)
  <2> DEFINE e == <<w, Head(s.im.chain[w])>>
             a == [s.im.active EXCEPT ![e[2]] = e]
             m == [s.im EXCEPT !.Active = e, !.active = a, !.Current = e]
             t == Highlighted(s, w)
  <2>1. Listed(s, e) /\ e \in Entry /\ e # None /\ e[2] \in IconMgr
    BY <1>2, FirstEntryIs
  <2>2. t = [s EXCEPT !.im.Active = e, !.im.active[e[2]] = e, !.im.Current = e]
    BY <1>2 DEF Highlighted
  <2> HIDE DEF e, t
  <2>3. s \in ManagersState /\ s.im \in LooseIm /\ a \in [IconMgr -> EntryOrNull]
        /\ e \in EntryOrNull
    BY <2>1, SoundIs, StateIs, ImIs, EntryIs
  <2>4. t = [s EXCEPT !.im = m]
    BY <2>2, <2>3, StateIs DEF LooseIm
  <2> HIDE DEF a
  <2>5. m \in LooseIm /\ m.Active = e /\ m.Current = e
    BY <2>3 DEF LooseIm
  <2>6. \A f \in ImField \ {"Current", "Active", "active", "isicon", "mapped"} : m[f] = s.im[f]
    BY <2>3 DEF LooseIm, ImField
  <2>7. m.mapped = s.im.mapped
    BY <2>3 DEF LooseIm
  <2> HIDE DEF m
  <2>8. Differs(s, t, {"Current", "Active", "active", "isicon", "mapped"}) /\ t.im = m
    BY <2>3, <2>4, <2>5, <2>6, ImDiffers
  <2>9. Sound(t)
    BY <2>1, <2>5, <2>7, <2>8, SoundIs, PointersMove
  <2>10. t.wins = s.wins
    BY <2>8 DEF Differs
  <2>11. QED
    BY <2>9, <2>10 DEF t
<1>3. QED
  BY <1>1, <1>2

\* Something of the windows that the managers do not depend on.
LEMMA OtherWinsAreSound ==
  ASSUME NEW s, Sound(s), NEW x \in WinsType, x.occupation = s.wins.occupation,
         x.ws = s.wins.ws
  PROVE  Sound([s EXCEPT !.wins = x])
<1> DEFINE t == [s EXCEPT !.wins = x]
<1>1. s \in ManagersState /\ Linked(s) /\ Homely(s)
  BY SoundIs
<1>2. t \in ManagersState /\ t.wins = x /\ t.im = s.im /\ (Linked(s) => Linked(t))
  BY <1>1, WinsBecomesIs
<1> HIDE DEF t
<1>3. Homely(t)
  BY <1>1, <1>2 DEF Homely, Placed, FirstShown
<1>4. Sound(t)
  BY <1>1, <1>2, <1>3 DEF Sound
<1>5. QED
  BY <1>4 DEF t

\* The window that has the focus.
LEMMA FocusBecomes ==
  ASSUME NEW s, Sound(s), NEW w \in Win \cup {None}
  PROVE  Sound([s EXCEPT !.wins.focus = w])
<1> DEFINE x == [s.wins EXCEPT !.focus = w]
<1>1. s.wins \in WinsType /\ [s EXCEPT !.wins.focus = w] = [s EXCEPT !.wins = x]
  BY SoundIs, StateIs
<1>2. x \in WinsType /\ x.occupation = s.wins.occupation /\ x.ws = s.wins.ws
  BY <1>1 DEF WinsType
<1> HIDE DEF x
<1>3. QED
  BY <1>1, <1>2, OtherWinsAreSound

\* The mapped windows.
LEMMA MappedWinsBecome ==
  ASSUME NEW s, Sound(s), NEW S \in SUBSET Win
  PROVE  Sound([s EXCEPT !.wins.mapped = S])
<1> DEFINE x == [s.wins EXCEPT !.mapped = S]
<1>1. s.wins \in WinsType /\ [s EXCEPT !.wins.mapped = S] = [s EXCEPT !.wins = x]
  BY SoundIs, StateIs
<1>2. x \in WinsType /\ x.occupation = s.wins.occupation /\ x.ws = s.wins.ws
  BY <1>1 DEF WinsType
<1> HIDE DEF x
<1>3. QED
  BY <1>1, <1>2, OtherWinsAreSound

\* The name of a window.
LEMMA NameBecomes ==
  ASSUME NEW s, Sound(s), NEW w \in Win, NEW n \in Name
  PROVE  Sound([s EXCEPT !.wins.name[w] = n])
<1> DEFINE names == [s.wins.name EXCEPT ![w] = n]
           x == [s.wins EXCEPT !.name = names]
<1>1. s.wins \in WinsType /\ names \in [Win -> Name]
  BY SoundIs, StateIs, WinsAre
<1>2. [s EXCEPT !.wins.name[w] = n] = [s EXCEPT !.wins = x]
  BY SoundIs, StateIs DEF WinsType
<1> HIDE DEF names
<1>3. x \in WinsType /\ x.occupation = s.wins.occupation /\ x.ws = s.wins.ws
  BY <1>1 DEF WinsType
<1> HIDE DEF x
<1>4. QED
  BY <1>2, <1>3, OtherWinsAreSound

\* SetFocus.
LEMMA SetFocusIsSound ==
  ASSUME NEW s, Sound(s), NEW w \in Win \cup {None}
  PROVE  Sound(SetFocus(s, w)) /\ SetFocus(s, w).wins.occupation = s.wins.occupation
<1> DEFINE t == [s EXCEPT !.wins.focus = w]
<1>1. SetFocus(s, w) = s \/ SetFocus(s, w) = Highlighted(t, w)
  BY DEF SetFocus
<1>2. Sound(t)
  BY FocusBecomes
<1>3. t.wins.occupation = s.wins.occupation
  <2>1. s \in ManagersState
    BY SoundIs
  <2>2. QED
    BY <2>1, StateIs DEF WinsType
<1> HIDE DEF t
<1>4. Sound(Highlighted(t, w)) /\ Highlighted(t, w).wins = t.wins
  BY <1>2, HighlightedIsSound
<1>5. QED
  BY <1>1, <1>3, <1>4

\* EnterNotify of the first entry of a window.
LEMMA EnterIsSound ==
  ASSUME NEW s, Sound(s), NEW w \in Win
  PROVE  Sound(Enter(s, w))
<1>1. CASE s.im.chain[w] = <<>>
  BY <1>1 DEF Enter
<1>2. CASE s.im.chain[w] # <<>>
  <2> DEFINE e == <<w, Head(s.im.chain[w])>>
  <2>1. Listed(s, e)
    BY <1>2, FirstEntryIs
  <2>2. Enter(s, w) = [s EXCEPT !.im.Current = e]
    BY <1>2 DEF Enter
  <2> HIDE DEF e
  <2>3. QED
    BY <2>1, <2>2, CurrentIsSound
<1>3. QED
  BY <1>1, <1>2

\* The first entry of a manager.
LEMMA FirstIs ==
  ASSUME NEW s \in ManagersState, NEW ip \in IconMgr
  PROVE  First(s, ip) # None => Listed(s, First(s, ip))
<1> DEFINE list == s.im.list[ip]
<1>1. list \in Seq(Win)
  BY ImIs
<1>2. CASE list = <<>>
  BY <1>2 DEF First
<1>3. CASE list # <<>>
  <2>1. Head(list) \in Win /\ Head(list) \in Range(list)
    BY <1>1, <1>3, HeadIsThere
  <2>2. First(s, ip) = <<Head(list), ip>>
    BY <1>3 DEF First
  <2> DEFINE e == <<Head(list), ip>>
  <2>3. e \in Entry /\ e[1] = Head(list) /\ e[2] = ip
    BY <2>1, EntryIs
  <2> HIDE DEF e
  <2>4. Listed(s, e)
    BY <2>1, <2>3 DEF Listed
  <2>5. QED
    BY <2>2, <2>4 DEF e
<1>4. QED
  BY <1>2, <1>3

\* GotoWorkSpace.
LEMMA GotoWorkSpaceIsSound ==
  ASSUME NEW s, Sound(s), NEW ws \in WorkSpace
  PROVE  Sound(GotoWorkSpace(s, ws))
<1> DEFINE chains == [w \in Win |-> VisibleFirst(s.im.chain[w], ws)]
           x == [s.wins EXCEPT !.ws = ws]
           r == [s EXCEPT !.wins = x]
           m == [r.im EXCEPT !.chain = chains]
           t == [s EXCEPT !.wins.ws = ws, !.im.chain = chains]
           T == {i \in 1 .. Len(Manager) : t.im.list[<<Manager[i], ws>>] # <<>>}
           full == IF T # {} THEN Min(T) ELSE 0
           e == IF full = 0 THEN None ELSE First(t, <<Manager[full], ws>>)
           u == [t EXCEPT !.im.Current = e]
           f == s.wins.focus
<1>1. \/ GotoWorkSpace(s, ws) = Highlighted(u, f) /\ f # None
      \/ GotoWorkSpace(s, ws) = [u EXCEPT !.wins.focus = None]
  <2>1. GotoWorkSpace(s, ws) = IF f # None /\ ws \in s.wins.occupation[f] THEN Highlighted(u, f)
                               ELSE [u EXCEPT !.wins.focus = None]
    BY Zenon DEF GotoWorkSpace, SelectInSeq
  <2>2. QED
    BY <2>1
<1>2. s \in ManagersState /\ Linked(s) /\ Homely(s) /\ f \in Win \cup {None}
  BY SoundIs, WinsAre
<1>3. ASSUME NEW w \in Win
      PROVE  /\ chains[w] \in Seq(IconMgr) /\ IsInjective(chains[w])
             /\ Range(chains[w]) = Range(s.im.chain[w])
             /\ \A p \in Range(chains[w]) : p[2] = ws => chains[w] # <<>> /\ Head(chains[w])[2] = ws
  <2> DEFINE chain == s.im.chain[w]
             q == VisibleFirst(chain, ws)
  <2>1. chain \in Seq(IconMgr) /\ IsInjective(chain)
    BY SoundIs, ImIs
  <2> HIDE DEF chain
  <2>2. /\ q \in Seq(IconMgr) /\ IsInjective(q) /\ Range(q) = Range(chain)
        /\ \A p \in Range(chain) : p[2] = ws => q # <<>> /\ Head(q)[2] = ws
    BY <2>1, VisibleFirstIs
  <2> HIDE DEF q
  <2>3. chains[w] = q
    BY DEF chain, q
  <2> HIDE DEF chains
  <2>4. QED
    BY <2>2, <2>3 DEF chain
<1>4. chains \in [Win -> Seq(IconMgr)]
  BY <1>3
<1> HIDE DEF f
<1>5. t = [r EXCEPT !.im = m]
  <2> HIDE DEF chains
  <2>1. QED
    BY <1>2, StateIs
<1> HIDE DEF chains, t
<1>6. x \in WinsType /\ x.occupation = s.wins.occupation /\ x.ws = ws
  BY <1>2, StateIs DEF WinsType
<1> HIDE DEF x
<1>7. r \in ManagersState /\ Linked(r) /\ r.wins = x /\ r.im = s.im
  BY <1>2, <1>6, WinsBecomesIs
<1> HIDE DEF r
<1>8. m \in LooseIm /\ m.chain = chains /\ \A g \in ImField \ {"chain"} : m[g] = r.im[g]
  <2>1. r.im \in LooseIm
    BY <1>7, StateIs
  <2>2. m \in LooseIm /\ m.chain = chains
    BY <1>4, <2>1 DEF LooseIm
  <2>3. \A g \in ImField \ {"chain"} : m[g] = r.im[g]
    BY <2>1 DEF LooseIm, ImField
  <2>4. QED
    BY <2>2, <2>3
<1> HIDE DEF m
<1>9. Differs(r, t, {"chain"}) /\ t.im = m
  BY <1>5, <1>7, <1>8, ImDiffers
<1>10. t \in ManagersState /\ t.wins = x
  BY <1>7, <1>9 DEF Differs
<1>11. Linked(t)
  BY <1>3, <1>7, <1>8, <1>9, ReorderedLinks
<1>12. Homely(t)
  <2>1. SUFFICES ASSUME NEW w \in Win PROVE Placed(t, w) /\ FirstShown(t, w)
    BY DEF Homely
  <2>2. Range(chains[w]) = Homes(w, x.occupation[w])
    BY <1>2, <1>3, <1>6 DEF Homely, Placed
  <2>3. Placed(t, w)
    BY <1>8, <1>9, <1>10, <2>2 DEF Placed
  <2>4. FirstShown(t, w)
    <3>1. SUFFICES ASSUME Home(w, ws) \in Range(chains[w]) PROVE Head(chains[w]) = Home(w, ws)
      BY <1>6, <1>8, <1>9, <1>10 DEF FirstShown
    <3>2. Home(w, ws)[2] = ws
      BY DEF Home
    <3>3. chains[w] # <<>> /\ Head(chains[w])[2] = ws
      BY <1>3, <3>1, <3>2
    <3>4. Head(chains[w]) \in Homes(w, x.occupation[w])
      BY <1>3, <2>2, <3>3, HeadIsThere
    <3>5. QED
      BY <3>3, <3>4, HomesAre
  <2>5. QED
    BY <2>3, <2>4
<1>13. Sound(t)
  BY <1>10, <1>11, <1>12 DEF Sound
<1>14. e # None => Listed(t, e)
  <2>1. CASE T = {}
    BY <2>1
  <2>2. CASE T # {}
    <3>1. Len(Manager) \in Nat /\ \A i \in 1 .. Len(Manager) : Manager[i] \in Mgr
      BY ManagersAssumption, LenProperties, ElementOfSeq
    <3>2. T \in SUBSET Nat /\ T \subseteq 1 .. Len(Manager)
      BY <3>1
    <3>3. Min(T) \in T
      <4> HIDE DEF T
      <4>1. QED
        BY <2>2, <3>2, MinIsLeast
    <3>4. full \in 1 .. Len(Manager) /\ full # 0
      <4>1. full \in 1 .. Len(Manager)
        <5> HIDE DEF T
        <5>1. QED
          BY <2>2, <3>2, <3>3
      <4> HIDE DEF full
      <4>2. QED
        BY <4>1
    <3> HIDE DEF full
    <3>5. <<Manager[full], ws>> \in IconMgr
      BY <3>1, <3>4, EntryIs
    <3>6. QED
      BY <1>10, <3>4, <3>5, FirstIs
  <2>3. QED
    BY <2>1, <2>2
<1> HIDE DEF e
<1>15. Sound(u) /\ u.wins = t.wins
  BY <1>13, <1>14, CurrentIsSound
<1> HIDE DEF u
<1>16. Sound(Highlighted(u, f))
  BY <1>2, <1>15, HighlightedIsSound
<1>17. Sound([u EXCEPT !.wins.focus = None])
  BY <1>15, FocusBecomes
<1>18. QED
  BY <1>1, <1>16, <1>17

\* showiconmgr and HideIconManager.
LEMMA ShowHideAreSound ==
  ASSUME NEW s, Sound(s)
  PROVE  Sound(showiconmgr(s)) /\ Sound(HideIconManager(s))
<1>1. s \in ManagersState /\ s.im \in LooseIm
  BY SoundIs, StateIs
<1>2. \A M, I \in SUBSET IconMgr :
        (\A ip \in M : s.im.count[ip] > 0) => Sound([s EXCEPT !.im.mapped = M, !.im.isicon = I])
  <2>1. TAKE M \in SUBSET IconMgr, I \in SUBSET IconMgr
  <2>2. HAVE \A ip \in M : s.im.count[ip] > 0
  <2> DEFINE m == [s.im EXCEPT !.mapped = M, !.isicon = I]
             t == [s EXCEPT !.im.mapped = M, !.im.isicon = I]
  <2>3. t = [s EXCEPT !.im = m]
    BY <1>1, StateIs DEF LooseIm
  <2> HIDE DEF t
  <2>4. m \in LooseIm /\ m.mapped = M /\ m.Current = s.im.Current /\ m.Active = s.im.Active
    BY <1>1 DEF LooseIm
  <2>5. \A f \in ImField \ {"Current", "Active", "active", "isicon", "mapped"} : m[f] = s.im[f]
    BY <1>1 DEF LooseIm, ImField
  <2> HIDE DEF m
  <2>6. Differs(s, t, {"Current", "Active", "active", "isicon", "mapped"}) /\ t.im = m
    BY <1>1, <2>3, <2>4, <2>5, ImDiffers
  <2>7. Sound(t)
    BY <2>2, <2>4, <2>6, SoundIs, PointersMove
  <2>8. QED
    BY <2>7 DEF t
<1>3. Sound(showiconmgr(s))
  <2> DEFINE shown == {ip \in IconMgr : s.im.count[ip] # 0}
             M == s.im.mapped \cup shown
             I == s.im.isicon \ shown
  <2>1. showiconmgr(s) = [s EXCEPT !.im.mapped = M, !.im.isicon = I]
    BY DEF showiconmgr
  <2>2. M \in SUBSET IconMgr /\ I \in SUBSET IconMgr
    BY <1>1, ImIs
  <2>3. \A ip \in M : s.im.count[ip] > 0
    <3>1. \A ip \in IconMgr : s.im.count[ip] \in Nat
      BY <1>1, ImIs, LenProperties, SoundIs DEF Linked
    <3>2. QED
      BY <3>1, SoundIs
  <2> HIDE DEF M, I
  <2>4. QED
    BY <1>2, <2>1, <2>2, <2>3
<1>4. Sound(HideIconManager(s))
  BY <1>2 DEF HideIconManager
<1>5. QED
  BY <1>3, <1>4

(***************************************************************************)
(* Sorting.                                                                 *)
(***************************************************************************)

\* f holds what is sorted of a list after each of its entries.
Sorts(f, s, list) ==
  f = [i \in 0 .. Len(list) |->
         IF i = 0 THEN <<>> ELSE Inserted(s, f[i - 1], list[i], TRUE)]

SortOf(s, list) == CHOOSE f : Sorts(f, s, list)

\* The windows that are on q are the first i of those on list, each once.
Permutes(q, list, i) ==
  q \in Seq(Win) /\ IsInjective(q) /\ Len(q) = i /\ Range(q) = {list[j] : j \in 1 .. i}

\* SortIconManager starts from nothing and inserts an entry at a time.
LEMMA SortOfIs ==
  ASSUME NEW s, NEW list \in Seq(Win)
  PROVE  LET f == SortOf(s, list)
         IN  f[0] = <<>> /\ \A i \in 1 .. Len(list) : f[i] = Inserted(s, f[i - 1], list[i], TRUE)
<1> DEFINE n == Len(list)
           A == Seq(Win)
           h == [p \in A \X (1 .. n) |-> Inserted(s, p[1], list[p[2]], TRUE)]
<1>1. n \in Nat /\ \A i \in 1 .. n : list[i] \in Win
  BY LenProperties, ElementOfSeq
<1>2. <<>> \in A
  BY EmptySeq
<1> HIDE DEF n
<1>3. h \in [A \X (1 .. n) -> A]
  <2>1. \A q \in A : \A i \in 1 .. n : Inserted(s, q, list[i], TRUE) \in A
    BY <1>1, InsertedIs DEF AddsTo
  <2> HIDE DEF A
  <2>2. QED
    BY <2>1
<1>4. PICK f : f \in [0 .. n -> A] /\ f[0] = <<>> /\ \A i \in 1 .. n : f[i] = h[<<f[i - 1], i>>]
  <2> HIDE DEF A, h
  <2>1. PICK f : Recursion(f, n, A, <<>>, h)
    BY <1>1, <1>2, <1>3, RecursionExists
  <2>2. QED
    BY <2>1 DEF Recursion
<1> HIDE DEF A
<1>5. \A i \in 1 .. n : f[i] = Inserted(s, f[i - 1], list[i], TRUE)
  <2>1. TAKE i \in 1 .. n
  <2>2. i - 1 \in 0 .. n
    BY <1>1
  <2>3. f[i - 1] \in A
    BY <1>4, <2>2
  <2>4. <<f[i - 1], i>> \in A \X (1 .. n)
    BY <2>3
  <2>5. QED
    BY <1>4, <2>4
<1>6. Sorts(f, s, list)
  <2> DEFINE V(i) == IF i = 0 THEN <<>> ELSE Inserted(s, f[i - 1], list[i], TRUE)
  <2>1. \A i \in 0 .. n : f[i] = V(i)
    <3>1. \A i \in 0 .. n : i = 0 \/ i \in 1 .. n
      BY <1>1
    <3>2. QED
      BY <1>4, <1>5, <3>1
  <2> HIDE DEF V
  <2>2. f = [i \in 0 .. n |-> V(i)]
    BY <1>4, <2>1
  <2>3. QED
    BY <2>2 DEF V, Sorts, n
<1> DEFINE g == SortOf(s, list)
<1>7. Sorts(g, s, list)
  BY <1>6 DEF SortOf
<1> HIDE DEF g
<1>8. g[0] = <<>> /\ \A i \in 1 .. n : g[i] = Inserted(s, g[i - 1], list[i], TRUE)
  <2> DEFINE V(i) == IF i = 0 THEN <<>> ELSE Inserted(s, g[i - 1], list[i], TRUE)
  <2>1. g = [i \in 0 .. n |-> V(i)]
    BY <1>7 DEF Sorts, n
  <2>2. V(0) = <<>>
    OBVIOUS
  <2>3. \A i \in 1 .. n : V(i) = Inserted(s, g[i - 1], list[i], TRUE)
    <3>1. \A i \in 1 .. n : i # 0
      BY <1>1
    <3>2. QED
      BY <3>1, Zenon
  <2>4. 0 \in 0 .. n /\ \A i \in 1 .. n : i \in 0 .. n
    BY <1>1
  <2> HIDE DEF V
  <2>5. \A i \in 0 .. n : g[i] = V(i)
    BY <2>1
  <2>6. QED
    BY <2>2, <2>3, <2>4, <2>5
<1>9. QED
  BY <1>8 DEF g, n

\* However often, what is sorted are the entries it began with.
LEMMA SortedIs ==
  ASSUME NEW s, NEW list \in Seq(Win), IsInjective(list), NEW k \in 0 .. Len(list)
  PROVE  Permutes(SortOf(s, list)[k], list, k)
<1> DEFINE f == SortOf(s, list)
           n == Len(list)
           T == {i \in 0 .. n : ~Permutes(f[i], list, i)}
<1>1. f[0] = <<>> /\ \A i \in 1 .. n : f[i] = Inserted(s, f[i - 1], list[i], TRUE)
  BY SortOfIs
<1>2. n \in Nat /\ DOMAIN list = 1 .. n /\ \A i \in 1 .. n : list[i] \in Win
  BY LenProperties, ElementOfSeq
<1>3. \A i, j \in 1 .. n : list[i] = list[j] => i = j
  BY <1>2 DEF IsInjective
<1> HIDE DEF f, n
<1>4. SUFFICES ASSUME T # {} PROVE FALSE
  BY DEF f, n
<1>5. PICK i \in T : \A j \in T : i <= j
  <2>1. T \in SUBSET Nat
    BY <1>2
  <2>2. QED
    BY <1>4, <2>1, LeastNat
<1>6. Permutes(f[0], list, 0)
  <2>1. <<>> \in Seq(Win) /\ Len(<<>>) = 0 /\ Range(<<>>) = {} /\ IsInjective(<<>>)
    BY EmptySeq DEF Range, IsInjective
  <2>2. {list[j] : j \in 1 .. 0} = {}
    OBVIOUS
  <2>3. QED
    BY <1>1, <2>1, <2>2 DEF Permutes
<1>7. i \in 1 .. n /\ i - 1 \in 0 .. n /\ i - 1 \notin T
  <2>1. i \in 0 .. n /\ ~Permutes(f[i], list, i)
    BY <1>5
  <2>2. i # 0
    BY <1>6, <2>1
  <2>3. i \in 1 .. n /\ i - 1 \in 0 .. n /\ ~(i <= i - 1)
    BY <1>2, <2>1, <2>2
  <2>4. QED
    BY <1>5, <2>3
<1> DEFINE a == f[i - 1]
<1>8. Permutes(a, list, i - 1)
  BY <1>7
<1>9. a \in Seq(Win) /\ IsInjective(a) /\ Len(a) = i - 1 /\ Range(a) = {list[j] : j \in 1 .. i - 1}
  BY <1>8 DEF Permutes
<1>10. f[i] = Inserted(s, a, list[i], TRUE)
  BY <1>1, <1>7
<1> HIDE DEF a
<1>11. AddsTo(f[i], a, list[i], Win)
  <2> DEFINE w == list[i]
  <2>1. w \in Win /\ a \in Seq(Win)
    BY <1>2, <1>7, <1>9
  <2> HIDE DEF w
  <2>2. AddsTo(Inserted(s, a, w, TRUE), a, w, Win)
    BY <2>1, InsertedIs
  <2>3. QED
    BY <1>10, <2>2 DEF w
<1>12. 1 .. i = (1 .. i - 1) \cup {i} /\ \A j \in 1 .. i - 1 : j \in 1 .. n /\ j # i
  BY <1>2, <1>7
<1>13. list[i] \notin Range(a)
  BY <1>3, <1>7, <1>9, <1>12
<1>14. f[i] \in Seq(Win) /\ IsInjective(f[i]) /\ Range(f[i]) = Range(a) \cup {list[i]}
  BY <1>9, <1>11, <1>13 DEF AddsTo
<1>15. Len(f[i]) = i
  BY <1>2, <1>7, <1>9, <1>11 DEF AddsTo
<1>16. Range(f[i]) = {list[j] : j \in 1 .. i}
  BY <1>9, <1>12, <1>14
<1>17. Permutes(f[i], list, i)
  BY <1>14, <1>15, <1>16 DEF Permutes
<1>18. QED
  BY <1>5, <1>17

\* The list of a manager in another order, and another entry that is Current.
Resorted(s, t, ip, L, e) ==
  /\ Differs(s, t, {"list", "Current", "cell", "cur"})
  /\ t.im.list = [s.im.list EXCEPT ![ip] = L] /\ t.im.Current = e
  /\ IsInjective(L) => PackedAt(t, ip)
  /\ \A p \in IconMgr : p # ip /\ PackedAt(s, p) => PackedAt(t, p)

\* The list and Current are set, and the entries get their rows and columns.
LEMMA ResortedIs ==
  ASSUME NEW s \in ManagersState, NEW ip \in IconMgr, NEW L \in Seq(Win), NEW e \in EntryOrNull
  PROVE  Resorted(s, PackIconManager([s EXCEPT !.im.list[ip] = L, !.im.Current = e], ip), ip, L, e)
<1> DEFINE a == [s EXCEPT !.im.list[ip] = L]
           t == [s EXCEPT !.im.list[ip] = L, !.im.Current = e]
           u == PackIconManager(t, ip)
<1>1. Differs(s, a, {"list"}) /\ a.im.list = [s.im.list EXCEPT ![ip] = L]
  BY ListBecomes
<1>2. t = [a EXCEPT !.im.Current = e]
  OBVIOUS
<1> HIDE DEF t, a
<1>3. a \in ManagersState
  BY <1>1 DEF Differs
<1>4. Differs(a, t, {"Current"}) /\ t.im.Current = e
  BY <1>2, <1>3, CurrentBecomes
<1>5. t \in ManagersState /\ Differs(s, t, {"list", "Current"})
  BY <1>1, <1>4, DiffersTwice DEF Differs
<1>6. t.im.list = [s.im.list EXCEPT ![ip] = L]
  BY <1>1, <1>4 DEF Differs, ImField
<1>7. t.im.list[ip] = L /\ \A p \in IconMgr : p # ip => t.im.list[p] = s.im.list[p]
  BY <1>6, ImIs
<1>8. ASSUME NEW p \in IconMgr, p # ip, PackedAt(s, p) PROVE PackedAt(t, p)
  <2>1. t.im.list[p] = s.im.list[p] /\ t.im.cur = s.im.cur /\ t.im.cell = s.im.cell
    BY <1>5, <1>7, <1>8 DEF Differs, ImField
  <2>2. QED
    BY <1>8, <2>1, PackedSame
<1>9. /\ Differs(t, u, {"cell", "cur"})
      /\ IsInjective(t.im.list[ip]) => PackedAt(u, ip)
      /\ \A p \in IconMgr : p # ip /\ PackedAt(t, p) => PackedAt(u, p)
  BY <1>5, PackIs
<1> HIDE DEF u
<1>10. Differs(s, u, {"list", "Current", "cell", "cur"})
  BY <1>5, <1>9, DiffersTwice
<1>11. u.im.list = t.im.list /\ u.im.Current = t.im.Current
  BY <1>9 DEF Differs, ImField
<1>12. Resorted(s, u, ip, L, e)
  BY <1>4, <1>6, <1>7, <1>8, <1>9, <1>10, <1>11 DEF Resorted
<1>13. QED
  BY <1>12 DEF u, t

\* Nothing is lost when the entries of a manager change places.
LEMMA ResortedIsSound ==
  ASSUME NEW s, Sound(s), NEW t, NEW ip \in IconMgr, NEW L \in Seq(Win), NEW e,
         Resorted(s, t, ip, L, e), IsInjective(L), Len(L) = Len(s.im.list[ip]),
         Range(L) = Range(s.im.list[ip]), e # None => Listed(s, e)
  PROVE  Sound(t)
<1>1. s \in ManagersState /\ Linked(s) /\ Homely(s)
  BY SoundIs
<1>2. /\ t.wins = s.wins /\ t \in ManagersState /\ t.im.count = s.im.count
      /\ t.im.chain = s.im.chain /\ t.im.mapped = s.im.mapped /\ t.im.Active = s.im.Active
      /\ t.im.list = [s.im.list EXCEPT ![ip] = L] /\ t.im.Current = e
  BY DEF Resorted, Differs, ImField
<1>3. t.im.list[ip] = L /\ \A p \in IconMgr : p # ip => t.im.list[p] = s.im.list[p]
  BY <1>1, <1>2, ImIs
<1>4. \A p \in IconMgr : /\ Range(t.im.list[p]) = Range(s.im.list[p])
                         /\ Len(t.im.list[p]) = Len(s.im.list[p])
                         /\ IsInjective(t.im.list[p])
  BY <1>3, SoundIs
<1>5. \A f : Listed(s, f) => Listed(t, f)
  BY <1>4, EntryIs DEF Listed
<1>6. \A p \in IconMgr : PackedAt(t, p)
  BY <1>1 DEF Resorted, Linked
<1>7. /\ \A w \in Win : IsInjective(t.im.chain[w])
      /\ \A p \in IconMgr : t.im.count[p] = Len(t.im.list[p])
      /\ \A p \in IconMgr : \A w \in Win :
           w \in Range(t.im.list[p]) <=> p \in Range(t.im.chain[w])
      /\ \A p \in t.im.mapped : t.im.count[p] > 0
  BY <1>1, <1>2, <1>4 DEF Linked
<1>8. /\ t.im.Current # None => Listed(t, t.im.Current)
      /\ t.im.Active \in Entry => Listed(t, t.im.Active)
  BY <1>1, <1>2, <1>5 DEF Linked
<1>9. Linked(t)
  BY <1>4, <1>6, <1>7, <1>8 DEF Linked
<1>10. Homely(t)
  BY <1>1, <1>2 DEF Homely, Placed, FirstShown
<1>11. QED
  BY <1>2, <1>9, <1>10 DEF Sound

\* SortIconManager.
LEMMA SortIsSound ==
  ASSUME NEW s, Sound(s), NEW ip \in IconMgr
  PROVE  Sound(SortIconManager(s, ip))
<1> DEFINE list == s.im.list[ip]
           n == Len(list)
           f == SortOf(s, list)
           T == {i \in 1 .. n : <<list[i], ip>> = s.im.Current}
           at == IF T # {} THEN Min(T) ELSE 0
           moves == at > 1 /\ s.wins.name[list[at]] < s.wins.name[Last(f[at - 1])]
           e == IF moves THEN <<Head(f[at - 1]), ip>> ELSE s.im.Current
           L == f[n]
<1>1. SortIconManager(s, ip) =
        PackIconManager([s EXCEPT !.im.list[ip] = L, !.im.Current = e], ip)
  BY Zenon DEF SortIconManager, SortOf, Sorts, SelectInSeq
<1>2. list \in Seq(Win) /\ IsInjective(list) /\ n \in Nat /\ DOMAIN list = 1 .. n
  BY SoundIs, ImIs, LenProperties
<1>3. \A k \in 0 .. n : Permutes(f[k], list, k)
  <2> HIDE DEF list
  <2>1. QED
    BY <1>2, SortedIs
<1>4. Range(list) = {list[j] : j \in 1 .. n}
  BY <1>2 DEF Range
<1>5. T \in SUBSET (1 .. n) /\ T \in SUBSET Nat
  BY <1>2
<1> HIDE DEF f, T, n
<1>6. at \in 0 .. n
  <2>1. T # {} => Min(T) \in T
    BY <1>5, MinIsLeast
  <2>2. 0 \in 0 .. n /\ \A i \in 1 .. n : i \in 0 .. n
    BY <1>2
  <2>3. CASE T = {}
    BY <2>2, <2>3
  <2>4. CASE T # {}
    <3>1. Min(T) \in 0 .. n
      BY <1>5, <2>1, <2>2, <2>4
    <3>2. QED
      BY <2>4, <3>1, Zenon
  <2>5. QED
    BY <2>3, <2>4
<1> HIDE DEF at, list
<1>7. L \in Seq(Win) /\ IsInjective(L) /\ Len(L) = n /\ Range(L) = Range(list)
  <2>1. n \in 0 .. n
    BY <1>2
  <2>2. QED
    BY <1>3, <1>4, <2>1 DEF Permutes
<1> HIDE DEF L
<1>8. e # None => Listed(s, e)
  <2>1. CASE ~moves
    BY <2>1, SoundIs
  <2>2. CASE moves
    <3> DEFINE q == f[at - 1]
               v == Head(q)
    <3>1. at - 1 \in 1 .. n /\ at - 1 \in 0 .. n /\ at - 1 # 0
      BY <1>2, <1>6, <2>2
    <3>2. q \in Seq(Win) /\ Len(q) = at - 1 /\ Range(q) = {list[j] : j \in 1 .. at - 1}
      BY <1>3, <3>1 DEF Permutes
    <3>3. q # <<>>
      BY <3>1, <3>2, EmptySeq
    <3>4. \A j \in 1 .. at - 1 : j \in 1 .. n
      BY <1>2, <3>1
    <3> HIDE DEF q
    <3>5. v \in Win /\ v \in Range(q)
      BY <3>2, <3>3, HeadIsThere
    <3>6. v \in Range(list)
      BY <1>4, <3>2, <3>4, <3>5
    <3>7. e = <<v, ip>>
      BY <2>2 DEF q
    <3> HIDE DEF e, v, moves
    <3>8. Listed(s, <<v, ip>>)
      BY <3>5, <3>6, EntryIs DEF Listed, list
    <3>9. QED
      BY <3>7, <3>8
  <2>3. QED
    BY <2>1, <2>2
<1> HIDE DEF e
<1>9. e \in EntryOrNull
  BY <1>8, EntryIs DEF Listed
<1>10. Resorted(s, SortIconManager(s, ip), ip, L, e)
  BY <1>1, <1>7, <1>9, SoundIs, ResortedIs
<1>11. QED
  BY <1>7, <1>8, <1>10, ResortedIsSound DEF list, n

(***************************************************************************)
(* The searches, and what moves from entry to entry.                        *)
(***************************************************************************)

\* A search goes along a column or a row.
LEMMA StepIs ==
  ASSUME NEW dir \in DOMAIN Step
  PROVE  \/ Step[dir][1] \in {1, -1} /\ Step[dir][2] = 0
         \/ Step[dir][1] = 0 /\ Step[dir][2] \in {1, -1}
  BY DEF Step

\* Once round, in either direction, and not moving at all.
LEMMA RoundIs ==
  ASSUME NEW r \in Nat, NEW c \in Nat \ {0}, r < c, NEW k \in Nat
  PROVE  /\ \A d \in {1, -1} : (r + c * d) % c = r
         /\ (r + k * 0) % c = r
<1>1. c * 1 = c /\ c * (-1) = -c /\ k * 0 = 0
  OBVIOUS
<1>2. (r + c) % c = r /\ (r - c) % c = r /\ r % c = r
  BY OnceRound
<1>3. r + (-c) = r - c /\ r + 0 = r
  OBVIOUS
<1>4. (r + c * 1) % c = r
  BY <1>1, <1>2
<1>5. (r + c * (-1)) % c = r
  BY <1>1, <1>2, <1>3
<1>6. (r + k * 0) % c = r
  BY <1>1, <1>2, <1>3
<1>7. QED
  BY <1>4, <1>5, <1>6

\* The search from an entry comes back to it: its row and column are among those
\* of its manager, so that going round the rows or the columns once ends there.
LEMMA NeighbourIsFound ==
  ASSUME NEW s, Sound(s), s.im.Current # None, NEW dir \in DOMAIN Step
  PROVE  Steps(s, dir) # {}
<1> DEFINE e == s.im.Current
           ip == e[2]
           w == e[1]
           list == s.im.list[ip]
           n == Len(list)
           c == columns[ip[1]]
           rows == s.im.cur[ip][1]
           cols == s.im.cur[ip][2]
           row == s.im.cell[e][1]
           col == s.im.cell[e][2]
           k == IF Step[dir][2] = 0 THEN rows ELSE cols
<1>1. e \in Entry /\ w \in Win /\ ip \in IconMgr /\ e = <<w, ip>> /\ w \in Range(list)
  BY SoundIs, EntryIs DEF Listed
<1> HIDE DEF e
<1>2. list \in Seq(Win) /\ IsInjective(list) /\ n \in Nat /\ n <= Cardinality(Win)
  <2>1. list \in Seq(Win) /\ IsInjective(list)
    BY <1>1, SoundIs, ImIs
  <2>2. IsFiniteSet(Win)
    BY ManagersAssumption
  <2> HIDE DEF list
  <2>3. n \in 0 .. Cardinality(Win)
    BY <2>1, <2>2, InjectiveIsShort
  <2>4. QED
    BY <2>1, <2>3, WindowCount
<1>3. PICK i \in 1 .. n : w = list[i]
  BY <1>1, <1>2, RangeIs
<1>4. n # 0 /\ i - 1 \in 0 .. n - 1 /\ i - 1 \in Nat
  BY <1>2, <1>3
<1>5. PackedAt(s, ip)
  BY <1>1, SoundIs DEF Linked
<1>6. s.im.cur[ip] = <<(n + c - 1) \div c, IF n < c THEN n ELSE c>>
      /\ s.im.cell[e] = CellOf(i - 1, c)
  BY <1>1, <1>3, <1>4, <1>5 DEF PackedAt
<1>7. c \in Nat \ {0}
  BY <1>1, ColumnsIs
<1> HIDE DEF n, c, w, ip
<1>8. /\ rows = (n + c - 1) \div c /\ cols = IF n < c THEN n ELSE c
      /\ row = (i - 1) \div c /\ col = (i - 1) % c
  BY <1>6 DEF CellOf
<1> HIDE DEF rows, cols, row, col
<1>9. /\ row \in Nat /\ rows \in Nat /\ row < rows /\ rows <= n
      /\ col \in Nat /\ cols \in Nat /\ col < cols /\ cols <= n
  <2> DEFINE j == i - 1
  <2>1. j \in 0 .. n - 1
    BY <1>4
  <2> HIDE DEF j
  <2>2. Fits(j, c, RowsOf(n, c), ColsOf(n, c), n)
    BY <1>2, <1>7, <2>1, CellsFit
  <2>3. rows = RowsOf(n, c) /\ cols = ColsOf(n, c)
    BY <1>8 DEF RowsOf, ColsOf
  <2>4. row = j \div c /\ col = j % c
    BY <1>8 DEF j
  <2>5. QED
    BY <2>2, <2>3, <2>4, Zenon DEF Fits
<1>10. k \in 1 .. Cardinality(Win) /\ k \in Nat /\ rows # 0 /\ cols # 0
  BY <1>2, <1>9, WindowCount
<1>11. /\ (row + k * Step[dir][1]) % rows = row
       /\ (col + k * Step[dir][2]) % cols = col
  <2>1. CASE Step[dir][1] \in {1, -1} /\ Step[dir][2] = 0
    <3>1. k = rows
      BY <2>1
    <3> HIDE DEF k
    <3>2. (row + k * Step[dir][1]) % rows = row
      BY <1>9, <1>10, <2>1, <3>1, RoundIs
    <3>3. (col + k * 0) % cols = col
      BY <1>9, <1>10, RoundIs
    <3>4. QED
      BY <2>1, <3>2, <3>3
  <2>2. CASE Step[dir][1] = 0 /\ Step[dir][2] \in {1, -1}
    <3>1. k = cols
      BY <2>2
    <3> HIDE DEF k
    <3>2. (col + k * Step[dir][2]) % cols = col
      BY <1>9, <1>10, <2>2, <3>1, RoundIs
    <3>3. (row + k * 0) % rows = row
      BY <1>9, <1>10, RoundIs
    <3>4. QED
      BY <2>2, <3>2, <3>3
  <2>3. QED
    BY <2>1, <2>2, StepIs
<1> HIDE DEF k
<1>12. CellAt(s, k, dir) = <<row, col>>
  BY <1>11 DEF CellAt, e, ip, rows, cols, row, col
<1>13. s.im.cell[e] = <<row, col>>
  BY <1>6, <1>8 DEF CellOf
<1>14. w \in EntriesAt(s, k, dir)
  BY <1>1, <1>12, <1>13 DEF EntriesAt, w, ip, e
<1>15. QED
  BY <1>10, <1>14 DEF Steps

\* MoveIconManager goes to the entry that the search finds.
LEMMA MoveIsSound ==
  ASSUME NEW s, Sound(s), s.im.Current # None, NEW dir \in DOMAIN Step
  PROVE  Sound(MoveIconManager(s, dir))
<1> DEFINE P(i) == \A j \in Steps(s, dir) : i <= j
           k == CHOOSE i \in Steps(s, dir) : P(i)
           w == CHOOSE v \in EntriesAt(s, k, dir) : TRUE
<1>1. MoveIconManager(s, dir) = Enter(s, w)
  BY DEF MoveIconManager
<1>2. \E i \in Steps(s, dir) : P(i)
  <2>1. Steps(s, dir) \in SUBSET Nat
    BY WindowCount DEF Steps
  <2>2. QED
    BY <2>1, NeighbourIsFound, LeastNat
<1> HIDE DEF P
<1>3. k \in Steps(s, dir)
  BY <1>2
<1> HIDE DEF k
<1>4. EntriesAt(s, k, dir) # {}
  BY <1>3 DEF Steps
<1>5. w \in EntriesAt(s, k, dir)
  BY <1>4
<1> HIDE DEF w
<1>6. w \in Range(s.im.list[s.im.Current[2]])
  BY <1>5 DEF EntriesAt
<1>7. s.im.list[s.im.Current[2]] \in Seq(Win)
  BY SoundIs, ImIs, EntryIs DEF Listed
<1>8. w \in Win
  BY <1>6, <1>7, RangeIs
<1>9. QED
  BY <1>1, <1>8, EnterIsSound

\* A place on a list that is counted round.
LEMMA PlaceIs ==
  ASSUME NEW n \in Nat \ {0}, NEW x \in Int
  PROVE  (x % n) + 1 \in 1 .. n
  OBVIOUS

\* Along goes to an entry of the same manager, or nowhere.
LEMMA AlongIsSound ==
  ASSUME NEW s, Sound(s), NEW e \in Entry, NEW step \in {1, -1}, NEW fit
  PROVE  Sound(Along(s, e, step, fit))
<1> DEFINE list == s.im.list[e[2]]
           n == Len(list)
           T == {i \in 1 .. n : list[i] = e[1]}
           at == IF T # {} THEN Min(T) ELSE 0
           good == {k \in 1 .. n : list[((at - 1 + k * step) % n) + 1] \in fit}
           P(k) == \A l \in good : k <= l
           m == CHOOSE k \in good : P(k)
           w == list[((at - 1 + step * m) % n) + 1]
<1>1. Along(s, e, step, fit) = IF good = {} THEN s ELSE Enter(s, w)
  BY Zenon DEF Along, SelectInSeq
<1>2. list \in Seq(Win) /\ n \in Nat
  BY SoundIs, ImIs, EntryIs, LenProperties
<1>3. at \in Int
  <2>1. T \in SUBSET Nat
    BY <1>2
  <2> HIDE DEF T
  <2>2. T # {} => Min(T) \in Nat
    BY <2>1, MinIsLeast
  <2>3. CASE T = {}
    BY <2>3
  <2>4. CASE T # {}
    <3>1. Min(T) \in Int
      BY <2>2, <2>4
    <3>2. QED
      BY <2>4, <3>1, Zenon
  <2>5. QED
    BY <2>3, <2>4
<1> HIDE DEF at, list, T
<1>4. good \in SUBSET (1 .. n)
  OBVIOUS
<1> HIDE DEF good, n
<1>5. CASE good = {}
  BY <1>1, <1>5
<1>6. CASE good # {}
  <2>1. \E k \in good : P(k)
    <3>1. good \in SUBSET Nat
      BY <1>2, <1>4
    <3>2. QED
      BY <1>6, <3>1, LeastNat
  <2> HIDE DEF P
  <2>2. m \in good
    BY <2>1
  <2> HIDE DEF m
  <2>3. m \in Int /\ n # 0
    BY <1>2, <1>4, <2>2
  <2>4. step * m \in Int
    BY <2>3
  <2> DEFINE x == at - 1 + step * m
  <2>5. x \in Int
    BY <1>3, <2>4
  <2> HIDE DEF x
  <2>6. (x % n) + 1 \in 1 .. n
    BY <1>2, <2>3, <2>5, PlaceIs
  <2>7. w \in Win
    BY <1>2, <2>6, ElementOfSeq DEF x, n
  <2> HIDE DEF w
  <2>8. QED
    BY <1>1, <1>6, <2>7, EnterIsSound
<1>7. QED
  BY <1>5, <1>6

\* Along the mapped ones, from the entry that is active should none be Current.
LEMMA MoveMappedIsSound ==
  ASSUME NEW s, Sound(s), s.im.Current # None \/ s.im.Active \in Entry, NEW step \in {1, -1}
  PROVE  Sound(MoveMappedIconManager(s, step))
<1> DEFINE a == s.im.Active
           u == [s EXCEPT !.im.Current = a]
           t == IF s.im.Current = None THEN u ELSE s
<1>1. MoveMappedIconManager(s, step) = Along(t, t.im.Current, step, s.wins.mapped)
  BY DEF MoveMappedIconManager
<1>2. CASE s.im.Current # None
  <2>1. t = s
    BY <1>2
  <2> HIDE DEF t
  <2>2. s.im.Current \in Entry
    BY <1>2, SoundIs DEF Listed
  <2>3. QED
    BY <1>1, <2>1, <2>2, AlongIsSound
<1>3. CASE s.im.Current = None
  <2>1. t = u
    BY <1>3
  <2>2. a \in Entry /\ Listed(s, a)
    BY <1>3, SoundIs
  <2> HIDE DEF t, a
  <2>3. Sound(u)
    BY <2>2, CurrentIsSound
  <2>4. u.im.Current = a
    <3>1. a \in EntryOrNull
      BY <2>2, EntryIs
    <3>2. QED
      BY <3>1, SoundIs, CurrentBecomes
  <2> HIDE DEF u
  <2>5. QED
    BY <1>1, <2>1, <2>2, <2>3, <2>4, AlongIsSound
<1>4. QED
  BY <1>2, <1>3

\* JumpIconManager goes to the highlighted entry of another manager.
LEMMA JumpIsSound ==
  ASSUME NEW s, Sound(s), NEW step
  PROVE  Sound(JumpIconManager(s, step))
<1>1. JumpIconManager(s, step) = s
      \/ \E to \in Entry : JumpIconManager(s, step) = Enter(s, to[1])
  BY Zenon DEF JumpIconManager
<1>2. \A to \in Entry : to[1] \in Win
  BY EntryIs
<1>3. QED
  BY <1>1, <1>2, EnterIsSound

(***************************************************************************)
(* The invariant, and the theorems.                                         *)
(***************************************************************************)

\* What a step makes of the state.
LEMMA BecomesIs ==
  ASSUME ManagersInv, NEW s, Sound(s), IcmBecomes(s)
  PROVE  ManagersInv'
<1>1. s = [wins |-> s.wins, im |-> s.im]
  BY SoundIs, StateIs
<1>2. wins' = s.wins /\ im' = s.im /\ uses' = uses
  BY DEF IcmBecomes
<1>3. [wins |-> wins', im |-> im'] = s
  BY <1>1, <1>2
<1>4. Sound([wins |-> wins', im |-> im'])
  BY <1>3
<1>5. QED
  BY <1>2, <1>4 DEF ManagersInv, Icm

\* It holds at first.
LEMMA ManagersInvAtFirst == ManagersInit => ManagersInv
<1> SUFFICES ASSUME ManagersInit PROVE ManagersInv
  OBVIOUS
<1> DEFINE n0 == CHOOSE n \in Name : TRUE
<1>1. n0 \in Name
  BY ManagersAssumption
<1>2. /\ 1 \in WorkSpace
      /\ \A E : <<>> \in Seq(E)
      /\ Len(<<>>) = 0 /\ Range(<<>>) = {} /\ IsInjective(<<>>)
  <2>1. 1 \in WorkSpace
    BY ManagersAssumption DEF WorkSpace
  <2>2. Len(<<>>) = 0 /\ Range(<<>>) = {} /\ IsInjective(<<>>)
    BY EmptySeq DEF Range, IsInjective
  <2>3. QED
    BY <2>1, <2>2, EmptySeq
<1> HIDE DEF n0
<1>3. wins = [name |-> [w \in Win |-> n0],
              occupation |-> [w \in Win |-> {}], mapped |-> {}, focus |-> None, ws |-> 1]
  BY DEF ManagersInit, n0
<1>4. wins \in WinsType
  BY <1>1, <1>2, <1>3 DEF WinsType
<1>5. /\ im.list = [ip \in IconMgr |-> <<>>] /\ im.count = [ip \in IconMgr |-> 0]
      /\ im.chain = [w \in Win |-> <<>>] /\ im.mapped = {}
      /\ im.Current = None /\ im.Active = None
  BY DEF ManagersInit
<1>6. im \in LooseIm
  <2>1. /\ [ip \in IconMgr |-> <<>>] \in [IconMgr -> Seq(Win)]
        /\ [w \in Win |-> <<>>] \in [Win -> Seq(IconMgr)]
    BY <1>2
  <2>2. /\ [e \in Entry |-> <<0, 0>>] \in [Entry -> Nat \X Nat]
        /\ [ip \in IconMgr |-> <<0, 0>>] \in [IconMgr -> Nat \X Nat]
        /\ [ip \in IconMgr |-> 0] \in [IconMgr -> Int]
    OBVIOUS
  <2>3. None \in EntryOrNull /\ [ip \in IconMgr |-> None] \in [IconMgr -> EntryOrNull]
    BY EntryIs
  <2>4. QED
    BY <2>1, <2>2, <2>3 DEF ManagersInit, LooseIm
<1> DEFINE s == [wins |-> wins, im |-> im]
<1>7. s \in ManagersState /\ s.wins = wins /\ s.im = im
  BY <1>4, <1>6 DEF ManagersState
<1> HIDE DEF s
<1>8. Linked(s)
  <2>1. /\ \A w \in Win : IsInjective(im.chain[w])
        /\ \A ip \in IconMgr : /\ IsInjective(im.list[ip]) /\ im.count[ip] = Len(im.list[ip])
                               /\ Len(im.list[ip]) = 0
        /\ \A ip \in IconMgr : \A w \in Win :
             w \in Range(im.list[ip]) <=> ip \in Range(im.chain[w])
    BY <1>2, <1>5
  <2>2. \A ip \in IconMgr : PackedAt(s, ip)
    BY <1>7, <2>1 DEF PackedAt
  <2>3. im.Active \notin Entry
    BY <1>5, EntryIs
  <2>4. QED
    BY <1>5, <1>7, <2>1, <2>2, <2>3 DEF Linked
<1>9. Homely(s)
  <2>1. SUFFICES ASSUME NEW w \in Win PROVE Placed(s, w) /\ FirstShown(s, w)
    BY DEF Homely
  <2>2. Range(im.chain[w]) = {} /\ wins.occupation[w] = {}
    BY <1>2, <1>3, <1>5
  <2>3. Homes(w, {}) = {}
    BY DEF Homes
  <2>4. QED
    BY <1>7, <2>2, <2>3 DEF Placed, FirstShown
<1>10. Sound(s) /\ uses \in ManagerSessions
  BY <1>7, <1>8, <1>9 DEF Sound, ManagersInit
<1>11. QED
  BY <1>10 DEF s, ManagersInv, Icm

\* Every step keeps it.
LEMMA ManagersInvIsKept == ManagersInv /\ [ManagersNext]_managerVars => ManagersInv'
<1> SUFFICES ASSUME ManagersInv, [ManagersNext]_managerVars PROVE ManagersInv'
  OBVIOUS
<1> DEFINE s == Icm
<1>0. Sound(s) /\ wins = s.wins /\ im = s.im
  BY DEF ManagersInv, Icm
<1> HIDE DEF s
<1>1. CASE UNCHANGED managerVars
  BY <1>1 DEF managerVars, ManagersInv, Icm
<1>2. CASE AddWindow
  <2>1. PICK w \in Win \ managed(s), occ \in SUBSET WorkSpace \ {{}} :
          IcmBecomes(AddIconManager([s EXCEPT !.wins.occupation[w] = occ,
                                              !.wins.mapped = @ \cup {w}], w, occ))
    BY <1>2 DEF AddWindow, s
  <2> DEFINE S == s.wins.mapped \cup {w}
             t == AddIconManager([s EXCEPT !.wins.occupation[w] = occ, !.wins.mapped = S], w, occ)
  <2>2. IcmBecomes(t)
    BY <2>1
  <2>3. s.wins.occupation[w] = {}
    BY DEF managed
  <2>4. S \in SUBSET Win
    BY <1>0, SoundIs, WinsAre
  <2> HIDE DEF S
  <2>5. Sound(t)
    BY <1>0, <2>3, <2>4, AddedIsSound
  <2> HIDE DEF t
  <2>6. QED
    BY <2>2, <2>5, BecomesIs
<1>3. CASE HandleDestroyNotify
  <2> DEFINE r(w) == IF w = wins.focus THEN SetFocus(s, None) ELSE s
  <2>1. PICK w \in managed(s) :
          IcmBecomes(RemoveIconManager([r(w) EXCEPT !.wins.occupation[w] = {},
                                                    !.wins.mapped = @ \ {w}], w))
    BY <1>3 DEF HandleDestroyNotify, s
  <2>2. w \in Win
    BY DEF managed
  <2> DEFINE a == r(w)
             S == a.wins.mapped \ {w}
             t == RemoveIconManager([a EXCEPT !.wins.occupation[w] = {}, !.wins.mapped = S], w)
  <2>3. IcmBecomes(t)
    BY <2>1
  <2>4. Sound(a)
    BY <1>0, SetFocusIsSound
  <2> HIDE DEF a
  <2>5. S \in SUBSET Win
    BY <2>4, SoundIs, WinsAre
  <2> HIDE DEF S
  <2>6. Sound(t)
    BY <2>2, <2>4, <2>5, DestroyedIsSound
  <2> HIDE DEF t
  <2>7. QED
    BY <2>3, <2>6, BecomesIs
<1>4. CASE Occupy
  <2>1. PICK w \in managed(s), occ \in SUBSET WorkSpace \ {{}} :
          IcmBecomes(ChangeOccupation(s, w, occ))
    BY <1>4 DEF Occupy, s
  <2>2. w \in Win
    BY DEF managed
  <2>3. QED
    BY <1>0, <2>1, <2>2, ChangeOccupationIsSound, BecomesIs
<1>5. CASE SwitchWorkSpace
  <2>1. PICK ws \in WorkSpace : IcmBecomes(GotoWorkSpace(s, ws))
    BY <1>5 DEF SwitchWorkSpace, s
  <2>2. QED
    BY <1>0, <2>1, GotoWorkSpaceIsSound, BecomesIs
<1>6. CASE Focus
  <2>1. PICK w \in Win \cup {None} : IcmBecomes(SetFocus(s, w))
    BY <1>6 DEF Focus, managed, s
  <2>2. QED
    BY <1>0, <2>1, SetFocusIsSound, BecomesIs
<1>7. CASE EnterNotify
  <2>1. PICK w \in Win : IcmBecomes(Enter(s, w))
    BY <1>7 DEF EnterNotify, managed, s
  <2>2. QED
    BY <1>0, <2>1, EnterIsSound, BecomesIs
<1>8. CASE Iconify
  <2>1. PICK w \in Win :
          IcmBecomes([s EXCEPT !.wins.mapped = IF w \in @ THEN @ \ {w} ELSE @ \cup {w}])
    BY <1>8 DEF Iconify, managed, s
  <2> DEFINE S == IF w \in s.wins.mapped THEN s.wins.mapped \ {w} ELSE s.wins.mapped \cup {w}
             t == [s EXCEPT !.wins.mapped = S]
  <2>2. IcmBecomes(t)
    BY <2>1
  <2>3. S \in SUBSET Win
    BY <1>0, SoundIs, WinsAre
  <2> HIDE DEF S
  <2>4. Sound(t)
    BY <1>0, <2>3, MappedWinsBecome
  <2> HIDE DEF t
  <2>5. QED
    BY <2>2, <2>4, BecomesIs
<1>9. CASE RedoIconName
  <2> DEFINE t(w, n) == [s EXCEPT !.wins.name[w] = n]
  <2>1. PICK w \in Win, n \in Name :
          IcmBecomes(IF s.im.chain[w] = <<>> \/ ~SortIconMgr THEN t(w, n)
                     ELSE SortIconManager(t(w, n), Head(s.im.chain[w])))
    BY <1>0, <1>9 DEF RedoIconName, managed, s
  <2> DEFINE u == t(w, n)
             ip == Head(s.im.chain[w])
  <2>2. Sound(u)
    BY <1>0, NameBecomes
  <2>3. s.im.chain[w] # <<>> => ip \in IconMgr
    BY <1>0, FirstEntryIs
  <2>4. IcmBecomes(u) \/ (ip \in IconMgr /\ IcmBecomes(SortIconManager(u, ip)))
    BY <2>1, <2>3
  <2> HIDE DEF u, ip
  <2>5. QED
    BY <2>2, <2>4, SortIsSound, BecomesIs
<1>10. CASE sorticonmgr
  <2>1. PICK ip \in IconMgr : IcmBecomes(SortIconManager(s, ip))
    BY <1>10 DEF sorticonmgr, s
  <2>2. QED
    BY <1>0, <2>1, SortIsSound, BecomesIs
<1>11. CASE Moves
  <2>1. s.im.Current # None
    BY <1>0, <1>11 DEF Moves
  <2>2. s.im.Current \in Entry
    BY <1>0, <2>1, SoundIs DEF Listed
  <2>3. CASE \E dir \in DOMAIN Step : IcmBecomes(MoveIconManager(s, dir))
    BY <1>0, <2>1, <2>3, MoveIsSound, BecomesIs
  <2>4. ASSUME NEW step \in {1, -1}, IcmBecomes(MoveAlong(s, step)) PROVE ManagersInv'
    <3>1. Sound(MoveAlong(s, step))
      BY <1>0, <2>2, AlongIsSound DEF MoveAlong
    <3>2. QED
      BY <2>4, <3>1, BecomesIs
  <2>5. ASSUME NEW step \in {1, -1}, IcmBecomes(JumpIconManager(s, step)) PROVE ManagersInv'
    BY <1>0, <2>5, JumpIsSound, BecomesIs
  <2>6. QED
    BY <1>11, <2>3, <2>4, <2>5 DEF Moves, s
<1>12. CASE MovesMapped
  <2>1. PICK step \in {1, -1} : IcmBecomes(MoveMappedIconManager(s, step))
    BY <1>12 DEF MovesMapped, s
  <2>2. s.im.Current # None \/ s.im.Active \in Entry
    BY <1>0, <1>12 DEF MovesMapped
  <2>3. Sound(MoveMappedIconManager(s, step))
    BY <1>0, <2>2, MoveMappedIsSound
  <2>4. QED
    BY <2>1, <2>3, BecomesIs
<1>13. CASE ShowHide
  <2>1. IcmBecomes(showiconmgr(s)) \/ IcmBecomes(HideIconManager(s))
    BY <1>13 DEF ShowHide, s
  <2>2. QED
    BY <1>0, <2>1, ShowHideAreSound, BecomesIs
<1>14. QED
  BY <1>1, <1>2, <1>3, <1>4, <1>5, <1>6, <1>7, <1>8, <1>9, <1>10, <1>11, <1>12, <1>13
     DEF ManagersNext

\* A window has at most one entry for each workspace.
LEMMA ChainIsShort ==
  ASSUME NEW s, Sound(s), NEW w \in Win
  PROVE  Len(s.im.chain[w]) \in 0 .. NWorkSpaces
<1> DEFINE chain == s.im.chain[w]
           n == Len(chain)
           q == [i \in 1 .. n |-> chain[i][2]]
           W == 1 .. NWorkSpaces
<1>1. /\ chain \in Seq(IconMgr) /\ IsInjective(chain)
      /\ n \in Nat /\ DOMAIN chain = 1 .. n
  BY SoundIs, ImIs, LenProperties
<1>2. Range(chain) = Homes(w, s.wins.occupation[w])
  BY SoundIs DEF Homely, Placed
<1>3. \A i \in 1 .. n : chain[i] \in IconMgr /\ chain[i] \in Range(chain)
  BY <1>1, RangeIs
<1>4. \A i \in 1 .. n : chain[i] = Home(w, chain[i][2]) /\ chain[i][2] \in W
  BY <1>2, <1>3, HomesAre, EntryIs DEF WorkSpace
<1>5. \A i, j \in 1 .. n : chain[i] = chain[j] => i = j
  BY <1>1 DEF IsInjective
<1> HIDE DEF chain, n
<1>6. q \in [1 .. n -> W] /\ \A i, j \in 1 .. n : q[i] = q[j] => i = j
  BY <1>4, <1>5
<1>7. q \in Seq(W) /\ Len(q) = n /\ DOMAIN q = 1 .. n
  <2> HIDE DEF q
  <2>1. DOMAIN q = 1 .. n
    BY <1>6
  <2>2. q \in Seq(W)
    <3> HIDE DEF W
    <3>1. q \in [1 .. n -> W]
      BY <1>6
    <3>2. QED
      BY <1>1, <3>1, SeqDef
  <2>3. Len(q) \in Nat /\ 1 .. Len(q) = 1 .. n
    BY <2>1, <2>2, LenProperties
  <2>4. \A a, b \in Nat : 1 .. a = 1 .. b => a = b
    <3>1. TAKE a, b \in Nat
    <3>2. HAVE 1 .. a = 1 .. b
    <3>3. (a = 0 \/ a \in 1 .. a) /\ (b = 0 \/ b \in 1 .. b)
      OBVIOUS
    <3>4. (a = 0 \/ a \in 1 .. b) /\ (b = 0 \/ b \in 1 .. a)
      BY <3>2, <3>3
    <3>5. QED
      BY <3>4
  <2>5. Len(q) = n
    BY <1>1, <2>3, <2>4
  <2>6. QED
    BY <2>1, <2>2, <2>5
<1> HIDE DEF q
<1>8. IsInjective(q)
  BY <1>6, <1>7 DEF IsInjective
<1>9. IsFiniteSet(W) /\ Cardinality(W) = NWorkSpaces
  <2>1. NWorkSpaces \in Nat /\ 1 \in Int
    BY ManagersAssumption
  <2>2. IsFiniteSet(W) /\ Cardinality(W) = IF 1 > NWorkSpaces THEN 0 ELSE NWorkSpaces - 1 + 1
    BY <2>1, FS_Interval
  <2>3. QED
    BY <2>1, <2>2, ManagersAssumption
<1> HIDE DEF W
<1>10. Len(q) \in 0 .. Cardinality(W)
  BY <1>7, <1>8, <1>9, InjectiveIsShort
<1>11. QED
  BY <1>7, <1>9, <1>10 DEF n, chain

\* A sequence that is short enough is one of the type invariant.
LEMMA ShortSeqIs ==
  ASSUME NEW E, NEW m \in Nat, NEW q \in Seq(E), Len(q) \in 0 .. m
  PROVE  q \in SeqOf(E, m)
<1>1. q \in [1 .. Len(q) -> E]
  BY LenProperties, ElementOfSeq
<1>2. QED
  BY <1>1 DEF SeqOf

\* The types, with the lengths of the lists.
LEMMA TypesAre ==
  ASSUME ManagersInv
  PROVE  ManagersTypeOK
<1> DEFINE s == Icm
<1>1. Sound(s) /\ s.wins = wins /\ s.im = im /\ uses \in ManagerSessions
  BY DEF ManagersInv, Icm
<1> HIDE DEF s
<1>2. s \in ManagersState /\ im \in LooseIm /\ wins \in WinsType
  BY <1>1, SoundIs, StateIs
<1>3. \A ip \in IconMgr : im.list[ip] \in SeqOf(Win, Cardinality(Win))
  <2>1. TAKE ip \in IconMgr
  <2>2. im.list[ip] \in Seq(Win) /\ IsInjective(im.list[ip]) /\ IsFiniteSet(Win)
    BY <1>1, SoundIs, ImIs, ManagersAssumption
  <2>3. Len(im.list[ip]) \in 0 .. Cardinality(Win)
    BY <2>2, InjectiveIsShort
  <2>4. QED
    BY <2>2, <2>3, WindowCount, ShortSeqIs
<1>4. \A w \in Win : im.chain[w] \in SeqOf(IconMgr, NWorkSpaces)
  <2>1. TAKE w \in Win
  <2>2. im.chain[w] \in Seq(IconMgr) /\ Len(im.chain[w]) \in 0 .. NWorkSpaces
    BY <1>1, SoundIs, ImIs, ChainIsShort
  <2>3. QED
    BY <2>2, ManagersAssumption, ShortSeqIs
<1>5. \A ip \in IconMgr : im.count[ip] \in Nat
  <2>1. TAKE ip \in IconMgr
  <2>2. im.list[ip] \in Seq(Win) /\ im.count[ip] = Len(im.list[ip])
    BY <1>1, SoundIs, ImIs DEF Linked
  <2>3. QED
    BY <2>2, LenProperties
<1>6. /\ im.list \in [IconMgr -> SeqOf(Win, Cardinality(Win))]
      /\ im.chain \in [Win -> SeqOf(IconMgr, NWorkSpaces)]
      /\ im.count \in [IconMgr -> Nat]
  BY <1>1, <1>2, <1>3, <1>4, <1>5, ImIs
<1>7. im \in ImType
  BY <1>2, <1>6 DEF ImType, LooseIm
<1>8. QED
  BY <1>1, <1>2, <1>7 DEF ManagersTypeOK

\* What is meant by the homes of a window.
LEMMA HomesMean ==
  ASSUME NEW w \in Win, NEW occ
  PROVE  Homes(w, occ) = IF IconMgrs[w] = None THEN {} ELSE {IconMgrs[w]} \X occ
<1>1. CASE IconMgrs[w] = None
  BY <1>1, HomesAre
<1>2. CASE IconMgrs[w] # None
  <2>1. Homes(w, occ) = {<<IconMgrs[w], i>> : i \in occ}
    BY <1>2 DEF Homes, Home
  <2>2. {<<IconMgrs[w], i>> : i \in occ} = {IconMgrs[w]} \X occ
    OBVIOUS
  <2>3. QED
    BY <1>2, <2>1, <2>2
<1>3. QED
  BY <1>1, <1>2

\* What a run checks follows from the invariant.
LEMMA EntriesAgreeAre ==
  ASSUME ManagersInv
  PROVE  EntriesAgree
<1> DEFINE s == Icm
<1>1. Sound(s) /\ s.wins = wins /\ s.im = im
  BY DEF ManagersInv, Icm
<1> HIDE DEF s
<1>2. s \in ManagersState /\ Linked(s) /\ Homely(s)
  BY <1>1, SoundIs
<1>3. \A w \in Win :
        /\ IsInjective(im.chain[w])
        /\ Range(im.chain[w]) = IF IconMgrs[w] = None THEN {}
                                ELSE {IconMgrs[w]} \X wins.occupation[w]
  BY <1>1, <1>2, HomesMean DEF Linked, Homely, Placed
<1>4. ASSUME NEW ip \in IconMgr
      PROVE  /\ IsInjective(im.list[ip]) /\ im.count[ip] = Len(im.list[ip])
             /\ Range(im.list[ip]) = {w \in Win : ip \in Range(im.chain[w])}
             /\ ip \in im.mapped => im.count[ip] > 0
  <2>1. im.list[ip] \in Seq(Win)
    BY <1>1, <1>2, ImIs
  <2>2. \A w \in Range(im.list[ip]) : w \in Win
    BY <2>1, RangeIs
  <2>3. \A w \in Win : w \in Range(im.list[ip]) <=> ip \in Range(im.chain[w])
    BY <1>1, <1>2 DEF Linked
  <2>4. Range(im.list[ip]) = {w \in Win : ip \in Range(im.chain[w])}
    BY <2>2, <2>3
  <2>5. QED
    BY <1>1, <1>2, <2>4 DEF Linked
<1>5. im.Current # None => im.Current[1] \in Range(im.list[im.Current[2]])
  BY <1>1, <1>2 DEF Linked, Listed
<1>6. EntriesAreOnce
  BY <1>3, <1>4, <1>5 DEF EntriesAreOnce
<1>7. FirstEntryIsShown
  <2>1. SUFFICES ASSUME NEW w \in Win, wins.ws \in wins.occupation[w], IconMgrs[w] # None
                 PROVE  visible(Head(im.chain[w]), wins.ws)
    BY DEF FirstEntryIsShown
  <2>2. Home(w, wins.ws) \in Range(im.chain[w])
    BY <1>1, <1>2, <2>1, HomesAre DEF Homely, Placed
  <2>3. Head(im.chain[w]) = Home(w, wins.ws)
    BY <1>1, <1>2, <2>2 DEF Homely, FirstShown
  <2>4. QED
    BY <2>3 DEF Home, visible
<1>8. QED
  BY <1>6, <1>7, TypesAre DEF EntriesAgree

\* In every session, after any events: one entry for every workspace a window
\* occupies, once on the list of its manager and once on that of the window,
\* where the one of the current workspace comes first; Current is an entry that
\* there is, the counts are right and no empty manager is shown (EntriesAgree).
THEOREM TheEntriesAgree == ManagersSpec => []EntriesAgree
<1>1. ManagersInit => ManagersInv
  BY ManagersInvAtFirst
<1>2. ManagersInv /\ [ManagersNext]_managerVars => ManagersInv'
  BY ManagersInvIsKept
<1>3. ManagersInv => EntriesAgree
  BY EntriesAgreeAre
<1>4. QED
  BY <1>1, <1>2, <1>3, PTL DEF ManagersSpec

\* The search of MoveIconManager for the entry above, below or beside the current
\* one, which has no limit, finds one in every direction: the rows and columns
\* were given to just the entries that are on the list (SearchesEnd).
THEOREM TheSearchesEnd == ManagersSpec => []SearchesEnd
<1>1. ManagersInit => ManagersInv
  BY ManagersInvAtFirst
<1>2. ManagersInv /\ [ManagersNext]_managerVars => ManagersInv'
  BY ManagersInvIsKept
<1>3. ManagersInv => SearchesEnd
  <2> SUFFICES ASSUME ManagersInv, im.Current # None, NEW dir \in DOMAIN Step
               PROVE  Steps(Icm, dir) # {}
    BY DEF SearchesEnd
  <2>1. Sound(Icm) /\ Icm.im.Current # None
    BY DEF ManagersInv, Icm
  <2> HIDE DEF Icm
  <2>2. QED
    BY <2>1, NeighbourIsFound
<1>4. QED
  BY <1>1, <1>2, <1>3, PTL DEF ManagersSpec

=============================================================================
