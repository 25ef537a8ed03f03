--------------------------- MODULE SequenceFacts ---------------------------
(***************************************************************************)
(* Facts about numbers, finite sets and sequences that the proofs about     *)
(* several components need: least elements, and what the operators of       *)
(* SequencesExt return.                                                     *)
(*                                                                          *)
(* The theorems of the library that state induction take a predicate as a   *)
(* parameter.  That the finite sets are well-founded does not: LeastNat     *)
(* follows, and a proof by induction becomes one by the least element for   *)
(* which the claim fails.                                                   *)
(***************************************************************************)
EXTENDS Integers, SequencesExt, FiniteSetTheorems, SequenceTheorems, TLAPS

\* A set of natural numbers that is not empty has a least element.
LEMMA LeastNat ==
  ASSUME NEW T \in SUBSET Nat, T # {}
  PROVE  \E m \in T : \A n \in T : m <= n
<1> DEFINE R == StrictSubsetOrdering(Nat)
           F == {0 .. n : n \in T}
<1>1. IsWellFoundedOn(R, FiniteSubsetsOf(Nat))
  BY FS_StrictSubsetOrderingWellFounded
<1>2. F \subseteq FiniteSubsetsOf(Nat) /\ F # {}
  <2>1. \A n \in T : 0 .. n \in SUBSET Nat /\ IsFiniteSet(0 .. n)
    BY FS_Interval
  <2>2. QED
    BY <2>1 DEF FiniteSubsetsOf
<1>3. PICK X \in F : \A Y \in F : <<Y, X>> \notin R
  <2> HIDE DEF F, R
  <2>1. QED
    BY <1>1, <1>2, WFMin
<1>4. PICK m \in T : X = 0 .. m
  OBVIOUS
<1>5. ASSUME NEW n \in T, n < m PROVE FALSE
  <2>1. m \in 0 .. m /\ m \notin 0 .. n /\ 0 .. n \subseteq 0 .. m
    BY <1>5
  <2>2. <<0 .. n, 0 .. m>> \in R
    BY <2>1 DEF StrictSubsetOrdering
  <2>3. QED
    BY <2>2, <1>3, <1>4
<1>6. QED
  BY <1>5

\* Min chooses it.
LEMMA MinIsLeast ==
  ASSUME NEW T \in SUBSET Nat, T # {}
  PROVE  Min(T) \in T /\ \A n \in T : Min(T) <= n
BY LeastNat DEF Min

\* SetToSeq lists a finite set.
LEMMA SetToSeqLists ==
  ASSUME NEW S, IsFiniteSet(S)
  PROVE  SetToSeq(S) \in [1 .. Cardinality(S) -> S] /\ IsInjective(SetToSeq(S))
<1>1. ExistsBijection(1 .. Cardinality(S), S)
  BY FS_CardinalityType
<1>2. PICK f : f \in Bijection(1 .. Cardinality(S), S)
  BY <1>1 DEF ExistsBijection
<1>3. f \in [1 .. Cardinality(S) -> S] /\ IsInjective(f)
  BY <1>2 DEF Bijection, Injection, IsInjective
<1>4. QED
  BY <1>3 DEF SetToSeq

\* What a sequence of known length holds.
LEMMA RangeIs ==
  ASSUME NEW E, NEW q \in Seq(E)
  PROVE  /\ Len(q) \in Nat
         /\ \A i \in 1 .. Len(q) : q[i] \in Range(q) /\ q[i] \in E
         /\ \A e \in Range(q) : e \in E /\ \E i \in 1 .. Len(q) : e = q[i]
<1>1. Len(q) \in Nat /\ DOMAIN q = 1 .. Len(q)
  BY LenProperties
<1>2. \A i \in 1 .. Len(q) : q[i] \in E
  BY <1>1, ElementOfSeq
<1>3. \A i \in 1 .. Len(q) : q[i] \in Range(q)
  BY <1>1, Zenon DEF Range
<1>4. \A e \in Range(q) : \E i \in 1 .. Len(q) : e = q[i]
  BY <1>1, Zenon DEF Range
<1>5. QED
  BY <1>1, <1>2, <1>3, <1>4

\* An event that is not the first one is still waiting when that is taken.
LEMMA TailRange ==
  ASSUME NEW E, NEW q \in Seq(E), q # <<>>
  PROVE  /\ Head(q) \in E /\ Tail(q) \in Seq(E)
         /\ \A e \in Range(q) : e # Head(q) => e \in Range(Tail(q))
         /\ Range(Tail(q)) \subseteq Range(q)
<1> DEFINE t == Tail(q)
<1>1. /\ Head(q) \in E /\ t \in Seq(E) /\ Len(t) = Len(q) - 1
      /\ \A i \in 1 .. Len(t) : t[i] = q[i + 1]
      /\ Len(q) \in Nat \ {0} /\ Head(q) = q[1]
  BY HeadTailProperties, LenProperties
<1> HIDE DEF t
<1>2. ASSUME NEW e \in Range(q), e # Head(q) PROVE e \in Range(t)
  <2>1. PICK i \in 1 .. Len(q) : e = q[i]
    BY RangeIs
  <2>2. i - 1 \in 1 .. Len(t) /\ t[i - 1] = e
    BY <1>1, <1>2, <2>1
  <2>3. QED
    BY <1>1, <2>2, RangeIs
<1>3. ASSUME NEW e \in Range(t) PROVE e \in Range(q)
  <2>1. PICK i \in 1 .. Len(t) : e = t[i]
    BY <1>1, RangeIs
  <2>2. i + 1 \in 1 .. Len(q) /\ q[i + 1] = e
    BY <1>1, <2>1
  <2>3. QED
    BY <2>2, RangeIs
<1>4. QED
  BY <1>1, <1>2, <1>3 DEF t

\* What is added to a sequence leaves what is there.
LEMMA ConcatRange ==
  ASSUME NEW E, NEW p \in Seq(E), NEW q \in Seq(E)
  PROVE  p \o q \in Seq(E) /\ Range(p \o q) = Range(p) \cup Range(q)
<1>1. p \o q \in Seq(E) /\ Len(p \o q) = Len(p) + Len(q)
  BY ConcatProperties
<1>2. \A i \in 1 .. Len(p) + Len(q) :
        (p \o q)[i] = IF i <= Len(p) THEN p[i] ELSE q[i - Len(p)]
  BY ConcatProperties
<1>3. /\ Len(p) \in Nat /\ DOMAIN p = 1 .. Len(p)
      /\ Len(q) \in Nat /\ DOMAIN q = 1 .. Len(q)
      /\ DOMAIN (p \o q) = 1 .. Len(p) + Len(q)
  BY <1>1, LenProperties
<1>4. Range(p) \subseteq Range(p \o q)
  BY <1>2, <1>3 DEF Range
<1>5. ASSUME NEW i \in 1 .. Len(q) PROVE q[i] \in Range(p \o q)
  <2>1. (p \o q)[i + Len(p)] = q[i] /\ i + Len(p) \in 1 .. Len(p) + Len(q)
    BY <1>2, <1>3
  <2>2. QED
    BY <2>1, <1>3 DEF Range
<1>6. Range(p \o q) \subseteq Range(p) \cup Range(q)
  BY <1>2, <1>3 DEF Range
<1>7. QED
  BY <1>1, <1>3, <1>4, <1>5, <1>6 DEF Range

\* What is removed from a sequence leaves the rest.
LEMMA RemoveAtRange ==
  ASSUME NEW E, NEW q \in Seq(E), NEW i \in 1 .. Len(q)
  PROVE  /\ RemoveAt(q, i) \in Seq(E)
         /\ \A e \in Range(q) : e # q[i] => e \in Range(RemoveAt(q, i))
         /\ Range(RemoveAt(q, i)) \subseteq Range(q)
<1> DEFINE n == Len(q)
           a == SubSeq(q, 1, i - 1)
           b == SubSeq(q, i + 1, n)
<1>1. n \in Nat /\ i \in Nat /\ i >= 1 /\ i <= n /\ \A j \in 1 .. n : q[j] \in E
  BY RangeIs
<1>2. /\ a \in Seq(E) /\ Len(a) = i - 1
      /\ \A j \in 1 .. i - 1 : a[j] = q[j]
  <2>1. \A j \in 1 .. i - 1 : q[j] \in E
    BY <1>1
  <2> HIDE DEF n
  <2>2. /\ a \in Seq(E) /\ Len(a) = (IF 1 <= i - 1 THEN i - 1 - 1 + 1 ELSE 0)
        /\ \A j \in 1 .. i - 1 - 1 + 1 : a[j] = q[1 + j - 1]
    BY <1>1, <2>1, SubSeqProperties
  <2> HIDE DEF a
  <2>3. QED
    BY <1>1, <2>2
<1>3. /\ b \in Seq(E) /\ Len(b) = n - i
      /\ \A j \in 1 .. n - i : b[j] = q[i + j]
  <2>1. (\A j \in i + 1 .. n : q[j] \in E) /\ i + 1 \in Int /\ n \in Int
    BY <1>1
  <2> HIDE DEF n
  <2>2. /\ b \in Seq(E) /\ Len(b) = (IF i + 1 <= n THEN n - (i + 1) + 1 ELSE 0)
        /\ \A j \in 1 .. n - (i + 1) + 1 : b[j] = q[(i + 1) + j - 1]
    BY <2>1, SubSeqProperties
  <2> HIDE DEF b
  <2>3. (\A j \in 1 .. n - i : (i + 1) + j - 1 = i + j) /\ n - (i + 1) + 1 = n - i
    BY <1>1
  <2>4. QED
    BY <1>1, <2>2, <2>3
<1>4. RemoveAt(q, i) \in Seq(E) /\ Range(RemoveAt(q, i)) = Range(a) \cup Range(b)
  BY <1>2, <1>3, ConcatRange DEF RemoveAt
<1> HIDE DEF a, b, n
<1>5. ASSUME NEW e \in Range(a) PROVE e \in Range(q)
  <2>1. PICK j \in 1 .. Len(a) : e = a[j]
    BY <1>2, RangeIs
  <2>2. j \in 1 .. i - 1
    BY <1>1, <1>2, <2>1
  <2>3. j \in 1 .. n /\ e = q[j]
    BY <1>1, <1>2, <2>1, <2>2
  <2>4. QED
    BY <2>3, RangeIs DEF n
<1>6. ASSUME NEW e \in Range(b) PROVE e \in Range(q)
  <2>1. PICK j \in 1 .. Len(b) : e = b[j]
    BY <1>3, RangeIs
  <2>2. j \in 1 .. n - i
    BY <1>1, <1>3, <2>1
  <2>3. i + j \in 1 .. n /\ e = q[i + j]
    BY <1>1, <1>3, <2>1, <2>2
  <2>4. QED
    BY <2>3, RangeIs DEF n
<1>7. ASSUME NEW e \in Range(q), e # q[i] PROVE e \in Range(a) \cup Range(b)
  <2>1. PICK j \in 1 .. n : e = q[j]
    BY RangeIs DEF n
  <2>2. CASE j < i
    <3>1. j \in 1 .. Len(a) /\ e = a[j]
      BY <1>1, <1>2, <2>1, <2>2
    <3>2. QED
      BY <3>1, <1>2, RangeIs
  <2>3. CASE j > i
    <3>1. j - i \in 1 .. Len(b) /\ i + (j - i) = j
      BY <1>1, <1>3, <2>1, <2>3
    <3>2. b[j - i] = e
      BY <1>3, <2>1, <3>1
    <3>3. QED
      BY <3>1, <3>2, <1>3, RangeIs
  <2>4. QED
    BY <1>1, <1>7, <2>1, <2>2, <2>3
<1>8. QED
  BY <1>4, <1>5, <1>6, <1>7

\* The same of the first place where a value is.
LEMMA RemoveFirstRange ==
  ASSUME NEW E, NEW q \in Seq(E), NEW e
  PROVE  /\ RemoveFirst(q, e) \in Seq(E)
         /\ \A f \in Range(q) : f # e => f \in Range(RemoveFirst(q, e))
         /\ Range(RemoveFirst(q, e)) \subseteq Range(q)
<1>1. CASE \E i \in 1 .. Len(q) : q[i] = e
  <2> DEFINE I == {i \in 1 .. Len(q) : q[i] = e}
  <2>1. I \in SUBSET Nat /\ I # {}
    <3>1. Len(q) \in Nat
      BY LenProperties
    <3>2. QED
      BY <1>1, <3>1
  <2>2. Min(I) \in I
    <3> HIDE DEF I
    <3>1. QED
      BY <2>1, MinIsLeast
  <2>3. RemoveFirst(q, e) = RemoveAt(q, Min(I))
    BY <1>1, <2>1, Zenon DEF RemoveFirst, SelectInSeq
  <2>4. PICK i \in 1 .. Len(q) : i = Min(I) /\ q[i] = e
    <3> HIDE DEF Min
    <3>1. QED
      BY <2>2
  <2>5. QED
    BY <2>3, <2>4, RemoveAtRange
<1>2. CASE ~ \E i \in 1 .. Len(q) : q[i] = e
  BY <1>2 DEF RemoveFirst
<1>3. QED
  BY <1>1, <1>2

\* f is defined by recursion on the numbers up to n: of its values, which are in
\* A, h gives the next from the one before and the number.
Recursion(f, n, A, base, h) ==
  f \in [0 .. n -> A] /\ f[0] = base /\ \A i \in 1 .. n : f[i] = h[<<f[i - 1], i>>]

\* There is such a function.
LEMMA RecursionExists ==
  ASSUME NEW n \in Nat, NEW A, NEW base \in A, NEW h \in [A \X (1 .. n) -> A]
  PROVE  \E f : Recursion(f, n, A, base, h)
<1> DEFINE Upto(m, f) ==
             f \in [0 .. m -> A] /\ f[0] = base /\ \A i \in 1 .. m : f[i] = h[<<f[i - 1], i>>]
           T == {m \in 0 .. n : ~ \E f : Upto(m, f)}
<1>1. SUFFICES ASSUME T # {} PROVE FALSE
  <2>1. n \in 0 .. n
    OBVIOUS
  <2>2. \E f : Upto(n, f)
    BY <1>1, <2>1
  <2>3. QED
    BY <2>2 DEF Recursion
<1>2. PICK m \in T : \A k \in T : m <= k
  <2>1. T \in SUBSET Nat
    OBVIOUS
  <2>2. QED
    BY <1>1, <2>1, LeastNat
<1>3. m \in 0 .. n /\ ~ \E f : Upto(m, f)
  BY <1>2
<1>4. m # 0
  <2>1. Upto(0, [i \in 0 .. 0 |-> base])
    OBVIOUS
  <2>2. QED
    BY <1>3, <2>1
<1>5. m - 1 \in 0 .. n /\ m - 1 \notin T
  BY <1>2, <1>3, <1>4
<1>6. PICK f : Upto(m - 1, f)
  BY <1>5
<1> DEFINE g == [i \in 0 .. m |-> IF i = m THEN h[<<f[m - 1], m>>] ELSE f[i]]
<1>7. f[m - 1] \in A /\ m \in 1 .. n /\ m - 1 \in 0 .. m - 1 /\ f \in [0 .. m - 1 -> A]
  BY <1>3, <1>4, <1>6
<1>8. h[<<f[m - 1], m>>] \in A
  BY <1>7
<1>9. g \in [0 .. m -> A]
  <2>1. \A i \in 0 .. m : i # m => i \in 0 .. m - 1
    BY <1>3
  <2>2. \A i \in 0 .. m : (IF i = m THEN h[<<f[m - 1], m>>] ELSE f[i]) \in A
    BY <1>7, <1>8, <2>1
  <2>3. QED
    BY <2>2
<1>10. g[0] = base
  BY <1>3, <1>4, <1>6
<1>11. \A i \in 1 .. m : g[i] = h[<<g[i - 1], i>>]
  <2>1. TAKE i \in 1 .. m
  <2>2. g[i - 1] = f[i - 1]
    BY <1>3
  <2>3. CASE i = m
    <3>1. g[m] = h[<<f[m - 1], m>>]
      BY <1>3
    <3>2. QED
      BY <2>2, <2>3, <3>1
  <2>4. CASE i # m
    <3>1. i \in 1 .. m - 1 /\ g[i] = f[i]
      BY <2>1, <2>4, <1>3
    <3>2. f[i] = h[<<f[i - 1], i>>]
      BY <3>1, <1>6
    <3>3. QED
      BY <2>2, <3>1, <3>2
  <2>5. QED
    BY <2>3, <2>4
<1>12. QED
  BY <1>3, <1>9, <1>10, <1>11

\* What is left out of an injective sequence: that element and no other.
LEMMA RemoveFirstInjective ==
  ASSUME NEW E, NEW q \in Seq(E), IsInjective(q), NEW e
  PROVE  /\ RemoveFirst(q, e) \in Seq(E) /\ IsInjective(RemoveFirst(q, e))
         /\ Range(RemoveFirst(q, e)) = Range(q) \ {e}
<1>1. CASE \E i \in 1 .. Len(q) : q[i] = e
  <2> DEFINE I == {i \in 1 .. Len(q) : q[i] = e}
             n == Len(q)
  <2>1. I \in SUBSET Nat /\ I # {}
    <3>1. Len(q) \in Nat
      BY LenProperties
    <3>2. QED
      BY <1>1, <3>1
  <2>2. Min(I) \in I
    <3> HIDE DEF I
    <3>1. QED
      BY <2>1, MinIsLeast
  <2>3. RemoveFirst(q, e) = RemoveAt(q, Min(I))
    BY <1>1, <2>1, Zenon DEF RemoveFirst, SelectInSeq
  <2>4. PICK k \in 1 .. Len(q) : k = Min(I) /\ q[k] = e
    <3> HIDE DEF Min
    <3>1. QED
      BY <2>2
  <2> DEFINE a == SubSeq(q, 1, k - 1)
             b == SubSeq(q, k + 1, n)
  <2>5. n \in Nat /\ k \in Nat /\ k >= 1 /\ k <= n
    BY <2>4, LenProperties
  <2>6. /\ a \in Seq(E) /\ Len(a) = k - 1
        /\ \A i \in 1 .. k - 1 : a[i] = q[i]
    <3>1. /\ \A j \in 1 .. k - 1 : j \in 1 .. n
          /\ k - 1 \in 0 .. n
      BY <2>5
    <3>2. QED
      BY <2>5, <3>1, SubSeqProperties
  <2>7. /\ b \in Seq(E) /\ Len(b) = n - k
        /\ \A i \in 1 .. n - k : b[i] = q[i + k]
    BY <2>5, SubSeqProperties
  <2> HIDE DEF a, b
  <2> DEFINE r == a \o b
  <2>8. /\ r \in Seq(E) /\ Len(r) = n - 1
        /\ \A i \in 1 .. n - 1 : r[i] = IF i < k THEN q[i] ELSE q[i + 1]
    <3>1. /\ r \in Seq(E) /\ Len(r) = Len(a) + Len(b)
          /\ \A i \in 1 .. Len(a) + Len(b) :
               r[i] = IF i <= Len(a) THEN a[i] ELSE b[i - Len(a)]
      BY <2>6, <2>7, ConcatProperties
    <3>2. \A i \in 1 .. n - 1 : r[i] = IF i <= k - 1 THEN a[i] ELSE b[i - (k - 1)]
      BY <2>5, <2>6, <2>7, <3>1
    <3>3. \A i \in 1 .. n - 1 : IF i <= k - 1 THEN a[i] = q[i] ELSE b[i - (k - 1)] = q[i + 1]
      BY <2>5, <2>6, <2>7
    <3>4. QED
      BY <2>5, <2>6, <2>7, <3>1, <3>2, <3>3
  <2>9. RemoveFirst(q, e) = r
    BY <2>3, <2>4 DEF RemoveAt, a, b
  <2> HIDE DEF r
  <2>10. \A i, j \in 1 .. n : q[i] = q[j] => i = j
    BY LenProperties DEF IsInjective
  <2>11. DOMAIN r = 1 .. n - 1 /\ DOMAIN q = 1 .. n
    BY <2>8, LenProperties
  <2>12. IsInjective(r)
    <3>1. \A i, j \in 1 .. n - 1 : r[i] = r[j] => i = j
      BY <2>5, <2>8, <2>10
    <3>2. QED
      BY <2>11, <3>1 DEF IsInjective
  <2>13. Range(r) = Range(q) \ {e}
    <3>1. \A i \in 1 .. n - 1 : r[i] # e /\ \E j \in 1 .. n : r[i] = q[j]
      BY <2>4, <2>5, <2>8, <2>10
    <3>2. \A j \in 1 .. n : q[j] # e => \E i \in 1 .. n - 1 : r[i] = q[j]
      <4>1. TAKE j \in 1 .. n
      <4>2. HAVE q[j] # e
      <4>3. CASE j < k
        <5>1. j \in 1 .. n - 1 /\ r[j] = q[j]
          BY <2>5, <2>8, <4>3
        <5>2. QED
          BY <5>1
      <4>4. CASE j > k
        <5>1. j - 1 \in 1 .. n - 1 /\ r[j - 1] = q[j]
          BY <2>5, <2>8, <4>4
        <5>2. QED
          BY <5>1
      <4>5. QED
        BY <2>4, <2>5, <4>2, <4>3, <4>4
    <3>3. Range(r) = {r[i] : i \in 1 .. n - 1} /\ Range(q) = {q[i] : i \in 1 .. n}
      BY <2>11 DEF Range
    <3>4. Range(r) \subseteq Range(q) \ {e}
      BY <3>1, <3>3
    <3>5. Range(q) \ {e} \subseteq Range(r)
      BY <3>2, <3>3
    <3>6. QED
      BY <3>4, <3>5
  <2>14. QED
    BY <2>8, <2>9, <2>12, <2>13
<1>2. CASE ~ \E i \in 1 .. Len(q) : q[i] = e
  <2>1. RemoveFirst(q, e) = q
    BY <1>2 DEF RemoveFirst
  <2>2. e \notin Range(q)
    BY <1>2, RangeIs
  <2>3. QED
    BY <2>1, <2>2
<1>3. QED
  BY <1>1, <1>2

\* A window is put in front of, or behind, others.
LEMMA ConcatInjective ==
  ASSUME NEW E, NEW p \in Seq(E), NEW q \in Seq(E), IsInjective(p), IsInjective(q),
         Range(p) \cap Range(q) = {}
  PROVE  IsInjective(p \o q)
<1>1. /\ Len(p) \in Nat /\ Len(q) \in Nat /\ Len(p \o q) = Len(p) + Len(q)
      /\ \A i \in 1 .. Len(p) + Len(q) :
           (p \o q)[i] = IF i <= Len(p) THEN p[i] ELSE q[i - Len(p)]
      /\ p \o q \in Seq(E)
  BY ConcatProperties, LenProperties
<1>2. /\ \A i, j \in 1 .. Len(p) : p[i] = p[j] => i = j
      /\ \A i, j \in 1 .. Len(q) : q[i] = q[j] => i = j
  BY LenProperties DEF IsInjective
<1>3. \A i \in 1 .. Len(p), j \in 1 .. Len(q) : p[i] # q[j]
  BY RangeIs
<1>4. DOMAIN (p \o q) = 1 .. Len(p) + Len(q)
  BY <1>1, LenProperties
<1> DEFINE r == p \o q
           m == Len(p)
           n == Len(q)
<1> HIDE DEF r, m, n
<1>5. /\ m \in Nat /\ n \in Nat
      /\ \A i \in 1 .. m + n : r[i] = IF i <= m THEN p[i] ELSE q[i - m]
      /\ \A i, j \in 1 .. m : p[i] = p[j] => i = j
      /\ \A i, j \in 1 .. n : q[i] = q[j] => i = j
      /\ \A i \in 1 .. m, j \in 1 .. n : p[i] # q[j]
  BY <1>1, <1>2, <1>3 DEF r, m, n
<1>6. \A i, j \in 1 .. m + n : r[i] = r[j] => i = j
  <2> SUFFICES ASSUME NEW i \in 1 .. m + n, NEW j \in 1 .. m + n, r[i] = r[j]
               PROVE  i = j
    OBVIOUS
  <2>1. CASE i <= m /\ j <= m
    BY <1>5, <2>1
  <2>2. CASE i > m /\ j > m
    <3>1. i - m \in 1 .. n /\ j - m \in 1 .. n /\ q[i - m] = q[j - m]
      BY <1>5, <2>2
    <3>2. QED
      BY <1>5, <3>1
  <2>3. CASE i <= m /\ j > m
    <3>1. i \in 1 .. m /\ j - m \in 1 .. n /\ p[i] = q[j - m]
      BY <1>5, <2>3
    <3>2. QED
      BY <1>5, <3>1
  <2>4. CASE i > m /\ j <= m
    <3>1. j \in 1 .. m /\ i - m \in 1 .. n /\ p[j] = q[i - m]
      BY <1>5, <2>4
    <3>2. QED
      BY <1>5, <3>1
  <2>5. QED
    BY <1>5, <2>1, <2>2, <2>3, <2>4
<1>7. QED
  BY <1>4, <1>6 DEF r, m, n, IsInjective

\* An injective sequence of members of a finite set is no longer than that.
LEMMA InjectiveIsShort ==
  ASSUME NEW E, IsFiniteSet(E), NEW q \in Seq(E), IsInjective(q)
  PROVE  Len(q) \in 0 .. Cardinality(E) /\ q \in [1 .. Len(q) -> E]
<1>1. Len(q) \in Nat /\ q \in [1 .. Len(q) -> E]
  BY LenProperties
<1>2. IsFiniteSet(1 .. Len(q)) /\ Cardinality(1 .. Len(q)) = Len(q)
  BY <1>1, FS_Interval
<1>3. q \in Injection(1 .. Len(q), E)
  BY <1>1 DEF Injection, IsInjective
<1>4. Cardinality(1 .. Len(q)) <= Cardinality(E)
  BY <1>3, FS_Injection DEF ExistsInjection
<1>5. Cardinality(E) \in Nat
  BY FS_CardinalityType
<1>6. QED
  BY <1>1, <1>2, <1>4, <1>5

=============================================================================
