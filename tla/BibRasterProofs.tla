-------------------------- MODULE BibRasterProofs --------------------------
(***************************************************************************)
(* Safety of raster mode, for a frame, a damage list and a scroll of any   *)
(* size.                                                                   *)
(*                                                                         *)
(* The damage list is built by loops, so the lemmas on its operators go by *)
(* induction; the provers get it from the least element of a set of        *)
(* naturals.  They say of each operator what it covers, point by point.    *)
(* The invariant then states MirrorsTracked for one pixel at a time, and   *)
(* adds that an idle engine owes nothing and that a posted box carries     *)
(* nothing outside itself.                                                 *)
(***************************************************************************)
EXTENDS BibRaster, SequenceLemmas

Point == Int \X Int
In(p, r) == r.left <= p[1] /\ p[1] < r.right /\ r.top <= p[2] /\ p[2] < r.bottom
Over(list, p) == \E i \in DOMAIN list : In(p, list[i])
Proper == {r \in Rect : ~IsEmpty(r)}

-----------------------------------------------------------------------------
(* Induction *)

\* Of N things to choose from by cost there is a first cheapest.
LEMMA Cheapest ==
  ASSUME NEW N \in Nat \ {0}, NEW cost \in [1..N -> Int]
  PROVE  \E i \in 1..N : \A j \in 1..N : cost[i] < cost[j] \/ (cost[i] = cost[j] /\ i <= j)
<1> DEFINE Best(i, m) == \A j \in 1..m : cost[i] < cost[j] \/ (cost[i] = cost[j] /\ i <= j)
           S == {m \in 0..(N - 1) : \E i \in 1..(m + 1) : Best(i, m + 1)}
<1>1. 0 \in S
  <2>1. Best(1, 1)
    OBVIOUS
  <2> QED
    BY <2>1
<1>2. ASSUME NEW n \in 0..((N - 1) - 1), n \in S PROVE n + 1 \in S
  <2>1. PICK i \in 1..(n + 1) : Best(i, n + 1)
    BY <1>2
  <2>2. n + 2 \in 1..N /\ (n + 1) + 1 = n + 2 /\ n + 1 \in 0..(N - 1)
        /\ i \in 1..N /\ i \in 1..(n + 2) /\ n + 2 \in 1..(n + 2) /\ ~(n + 2 <= i)
        /\ \A j \in 1..(n + 2) : j \in 1..N /\ (j = n + 2 \/ j \in 1..(n + 1))
    OBVIOUS
  <2>3. cost[i] \in Int /\ cost[n + 2] \in Int /\ \A j \in 1..(n + 2) : cost[j] \in Int
    BY <2>2
  <2>4. CASE cost[n + 2] < cost[i]
    <3>1. ASSUME NEW j \in 1..(n + 2) PROVE cost[n + 2] < cost[j] \/ (cost[n + 2] = cost[j] /\ n + 2 <= j)
      BY <2>1, <2>2, <2>3, <2>4
    <3> QED
      BY <3>1, <2>2
  <2>5. CASE ~(cost[n + 2] < cost[i])
    <3>1. ASSUME NEW j \in 1..(n + 2) PROVE cost[i] < cost[j] \/ (cost[i] = cost[j] /\ i <= j)
      BY <2>1, <2>2, <2>3, <2>5
    <3> QED
      BY <3>1, <2>2
  <2> QED
    BY <2>4, <2>5
<1>3. N - 1 \in S /\ (N - 1) + 1 = N
  <2> HIDE DEF S
  <2>1. N - 1 \in Nat
    OBVIOUS
  <2>2. 0..(N - 1) \subseteq S
    BY <1>1, <1>2, <2>1, Induction
  <2> QED
    BY <2>1, <2>2
<1> QED
  BY <1>3

-----------------------------------------------------------------------------
(* Rectangles *)

\* unite covers both rectangles, and intersect is what both have.
LEMMA UniteCovers ==
  ASSUME NEW r \in Rect, NEW s \in Rect
  PROVE  /\ Unite(r, s) \in Rect
         /\ r \in Proper \/ s \in Proper => Unite(r, s) \in Proper
         /\ \A p \in Point : In(p, r) \/ In(p, s) => In(p, Unite(r, s))
  BY DEF Unite, Rect, RectOf, Proper, IsEmpty, Width, Height, Point, In, Lower, Upper

LEMMA IntersectionIs ==
  ASSUME NEW r \in Rect, NEW s \in Rect
  PROVE  /\ Intersection(r, s) \in Rect
         /\ \A p \in Point : In(p, Intersection(r, s)) <=> In(p, r) /\ In(p, s)
  BY DEF Intersection, Overlaps, NoRect, Rect, RectOf, IsEmpty, Width, Height, Point, In, Lower, Upper

LEMMA EmptyHasNothing ==
  ASSUME NEW r \in Rect, IsEmpty(r), NEW p \in Point
  PROVE  ~In(p, r)
  BY DEF Rect, IsEmpty, Width, Height, Point, In

LEMMA CoversHolds ==
  ASSUME NEW r \in Rect, NEW s \in Rect, Covers(r, s), NEW p \in Point, In(p, s)
  PROVE  In(p, r)
  BY DEF Rect, Covers, Point, In

-----------------------------------------------------------------------------
(* The damage list *)

Lists == {s \in Seq(Proper) : Len(s) <= MaxRects}

\* Merging a rectangle into a slot, and appending it to a list with a free one.
LEMMA MergeCovers ==
  ASSUME NEW list \in Lists, NEW i \in DOMAIN list, NEW r \in Rect
  PROVE  /\ Merge(list, i, r) \in Lists
         /\ \A p \in Point : Over(list, p) \/ In(p, r) => Over(Merge(list, i, r), p)
<1> DEFINE u == Unite(list[i], r)
           m == Merge(list, i, r)
<1>1. list \in Seq(Proper) /\ Len(list) <= MaxRects /\ DOMAIN list = 1..Len(list)
      /\ Len(list) \in Nat /\ \A j \in DOMAIN list : list[j] \in Proper
  BY LenProperties, ElementOfSeq DEF Lists
<1>2. list[i] \in Proper /\ list[i] \in Rect
  BY <1>1 DEF Proper
<1>3. u \in Proper /\ \A p \in Point : In(p, list[i]) \/ In(p, r) => In(p, u)
  BY <1>2, UniteCovers
<1>4. m = [list EXCEPT ![i] = u]
  BY DEF Merge
<1> HIDE DEF u
<1>5. m \in Seq(Proper) /\ Len(m) = Len(list)
      /\ DOMAIN m = DOMAIN list /\ \A j \in DOMAIN list : m[j] = IF j = i THEN u ELSE list[j]
  BY <1>1, <1>3, <1>4, ExceptSeq
<1>6. m \in Lists
  BY <1>1, <1>5 DEF Lists
<1>7. ASSUME NEW p \in Point, Over(list, p) \/ In(p, r) PROVE Over(m, p)
  <2>1. CASE In(p, r)
    BY <2>1, <1>3, <1>5 DEF Over
  <2>2. CASE Over(list, p)
    <3>1. PICK j \in DOMAIN list : In(p, list[j])
      BY <2>2 DEF Over
    <3>2. In(p, m[j])
      BY <3>1, <1>3, <1>5
    <3> QED
      BY <3>1, <3>2, <1>5 DEF Over
  <2> QED
    BY <1>7, <2>1, <2>2
<1> QED
  BY <1>6, <1>7

LEMMA AppendCovers ==
  ASSUME NEW list \in Lists, Len(list) < MaxRects, NEW r \in Proper
  PROVE  /\ Append(list, r) \in Lists
         /\ \A p \in Point : Over(list, p) \/ In(p, r) => Over(Append(list, r), p)
<1> DEFINE m == Append(list, r)
<1>1. list \in Seq(Proper) /\ DOMAIN list = 1..Len(list) /\ Len(list) \in Nat
  BY LenProperties DEF Lists
<1>2. m \in Seq(Proper) /\ Len(m) = Len(list) + 1 /\ DOMAIN m = 1..(Len(list) + 1)
      /\ (\A j \in DOMAIN list : m[j] = list[j]) /\ m[Len(list) + 1] = r
  BY <1>1, AppendProperties, LenProperties
<1> HIDE DEF m
<1>3. m \in Lists
  BY <1>1, <1>2, MaxRectsAssumption DEF Lists
<1>4. ASSUME NEW p \in Point, Over(list, p) \/ In(p, r) PROVE Over(m, p)
  <2>1. CASE In(p, r)
    BY <2>1, <1>1, <1>2 DEF Over
  <2>2. CASE Over(list, p)
    <3>1. PICK j \in DOMAIN list : In(p, list[j])
      BY <2>2 DEF Over
    <3>2. j \in DOMAIN m /\ In(p, m[j])
      BY <3>1, <1>1, <1>2
    <3> QED
      BY <3>2 DEF Over
  <2> QED
    BY <1>4, <2>1, <2>2
<1> QED
  BY <1>3, <1>4 DEF m

\* There is a slot whose union grows least.
LEMMA BestSlotExists ==
  ASSUME NEW list \in Lists, Len(list) > 0, NEW r \in Rect
  PROVE  BestSlot(list, r) \in DOMAIN list
<1>1. DOMAIN list = 1..Len(list) /\ Len(list) \in Nat \ {0}
      /\ \A j \in DOMAIN list : list[j] \in Rect
  BY LenProperties, ElementOfSeq DEF Lists, Proper
<1>2. \A s \in Rect : Area(s) \in Int
  BY DEF Rect, Area, Width, Height
<1>3. \A j \in DOMAIN list : Growth(list[j], r) \in Int
  <2>1. \A j \in DOMAIN list : Unite(list[j], r) \in Rect
    BY <1>1, UniteCovers
  <2> QED
    BY <1>1, <1>2, <2>1 DEF Growth
<1> DEFINE cost == [j \in 1..Len(list) |-> Growth(list[j], r)]
<1>4. cost \in [1..Len(list) -> Int]
  BY <1>1, <1>3
<1>5. \E i \in 1..Len(list) : \A j \in 1..Len(list) :
        cost[i] < cost[j] \/ (cost[i] = cost[j] /\ i <= j)
  <2> HIDE DEF cost
  <2> QED
    BY <1>1, <1>4, Cheapest
<1>6. \E i \in DOMAIN list : \A j \in DOMAIN list :
        \/ Growth(list[i], r) < Growth(list[j], r)
        \/ Growth(list[i], r) = Growth(list[j], r) /\ i <= j
  BY <1>1, <1>5
<1> QED
  BY <1>6 DEF BestSlot

\* Whatever it merges, addDamage keeps the list in its bounds and forgets no pixel
\* that was in the list or in the new rectangle.
LEMMA AddDamageCovers ==
  ASSUME NEW list \in Lists, NEW r \in Rect
  PROVE  /\ AddDamage(list, r) \in Lists
         /\ \A p \in Point : Over(list, p) \/ In(p, r) => Over(AddDamage(list, r), p)
<1>1. DOMAIN list = 1..Len(list) /\ Len(list) \in Nat /\ list \in Seq(Proper)
      /\ Len(list) <= MaxRects /\ \A j \in DOMAIN list : list[j] \in Rect
  BY LenProperties, ElementOfSeq DEF Lists, Proper
<1>2. CASE IsEmpty(r)
  BY <1>2, EmptyHasNothing DEF AddDamage
<1>3. CASE ~IsEmpty(r) /\ Touching(list, r) # {}
  <2> DEFINE i == CHOOSE k \in Touching(list, r) : \A j \in Touching(list, r) : k <= j
  <2>1. Touching(list, r) \subseteq Nat /\ Touching(list, r) \subseteq DOMAIN list
    BY <1>1 DEF Touching
  <2>2. i \in DOMAIN list
    BY <1>3, <2>1, LeastElement
  <2>3. AddDamage(list, r) = IF Covers(list[i], r) THEN list ELSE Merge(list, i, r)
    BY <1>3 DEF AddDamage
  <2> HIDE DEF i
  <2>4. CASE Covers(list[i], r)
    <3>1. \A p \in Point : In(p, r) => In(p, list[i])
      BY <1>1, <2>2, <2>4, CoversHolds
    <3> QED
      BY <2>2, <2>3, <2>4, <3>1 DEF Over
  <2>5. CASE ~Covers(list[i], r)
    BY <2>2, <2>3, <2>5, MergeCovers
  <2> QED
    BY <2>4, <2>5
<1>4. CASE ~IsEmpty(r) /\ Touching(list, r) = {} /\ Len(list) < MaxRects
  <2>1. r \in Proper
    BY <1>4 DEF Proper
  <2>2. AddDamage(list, r) = Append(list, r)
    BY <1>4 DEF AddDamage
  <2> QED
    BY <1>4, <2>1, <2>2, AppendCovers
<1>5. CASE ~IsEmpty(r) /\ Touching(list, r) = {} /\ ~(Len(list) < MaxRects)
  <2>1. AddDamage(list, r) = Merge(list, BestSlot(list, r), r)
    BY <1>5 DEF AddDamage
  <2>2. Len(list) > 0
    BY <1>1, <1>5, MaxRectsAssumption
  <2> QED
    BY <2>1, <2>2, BestSlotExists, MergeCovers
<1> QED
  BY <1>2, <1>3, <1>4, <1>5

\* And so do any number of them, one after the other.
LEMMA AddAllCovers ==
  ASSUME NEW list \in Lists, NEW rects \in Seq(Rect)
  PROVE  /\ AddAll(list, rects) \in Lists
         /\ \A p \in Point : Over(list, p) \/ Over(rects, p) => Over(AddAll(list, rects), p)
<1> DEFINE N == Len(rects)
           Loop(g) == [n \in 0..N |-> IF n = 0 THEN list ELSE AddDamage(g[n - 1], rects[n])]
           after == CHOOSE g : g = Loop(g)
           step == [n \in 1..N |-> [l \in Lists |-> AddDamage(l, rects[n])]]
<1>1. DOMAIN rects = 1..N /\ N \in Nat /\ \A n \in 1..N : rects[n] \in Rect
  BY LenProperties, ElementOfSeq
<1>2. step \in [1..N -> [Lists -> Lists]]
  BY <1>1, AddDamageCovers
<1>3. PICK f : LoopRun(f, Lists, list, N, step)
  <2>1. N \in Nat /\ list \in Lists
    BY <1>1
  <2> HIDE DEF step, N
  <2> QED
    BY <1>2, <2>1, LoopRuns
<1>4. \A n \in 0..N : n # 0 => n \in 1..N /\ n - 1 \in 0..N /\ f[n - 1] \in Lists
  BY <1>1, <1>3 DEF LoopRun
<1>5. f = Loop(f)
  BY <1>3, <1>4 DEF LoopRun
<1>6. after = Loop(after)
  <2> HIDE DEF Loop
  <2> QED
    BY <1>5
<1>7. AddAll(list, rects) = after[N]
  BY DEF AddAll
<1> DEFINE S == {n \in 0..N : /\ after[n] \in Lists
                              /\ \A p \in Point :
                                   Over(list, p) \/ (\E i \in 1..n : In(p, rects[i]))
                                     => Over(after[n], p)}
<1> HIDE DEF after
<1>8. 0 \in S
  BY <1>1, <1>6
<1>9. ASSUME NEW n \in 0..(N - 1), n \in S PROVE n + 1 \in S
  <2>1. n + 1 \in 1..N /\ n + 1 \in 0..N /\ (n + 1) - 1 = n /\ n + 1 # 0
        /\ \A i \in 1..(n + 1) : i \in 1..n \/ i = n + 1
    BY <1>1
  <2>2. after[n + 1] = AddDamage(after[n], rects[n + 1])
    BY <1>6, <2>1
  <2>3. after[n] \in Lists /\ rects[n + 1] \in Rect
    BY <1>9, <1>1, <2>1
  <2>4. /\ after[n + 1] \in Lists
        /\ \A p \in Point : Over(after[n], p) \/ In(p, rects[n + 1]) => Over(after[n + 1], p)
    BY <2>2, <2>3, AddDamageCovers
  <2>5. ASSUME NEW p \in Point, Over(list, p) \/ \E i \in 1..(n + 1) : In(p, rects[i])
        PROVE  Over(after[n + 1], p)
    BY <1>9, <2>1, <2>4, <2>5
  <2> QED
    BY <2>1, <2>4, <2>5
<1>10. N \in S
  <2> HIDE DEF S, N
  <2>1. 0..N \subseteq S
    BY <1>1, <1>8, <1>9, Induction
  <2> QED
    BY <1>1, <2>1
<1> QED
  BY <1>1, <1>7, <1>10 DEF Over

\* All elements of t are in s.
HasAll(s, t) == \A i \in DOMAIN t : \E k \in DOMAIN s : s[k] = t[i]

LEMMA ConcatHas ==
  ASSUME NEW S, NEW s \in Seq(S), NEW t \in Seq(S)
  PROVE  s \o t \in Seq(S) /\ HasAll(s \o t, s) /\ HasAll(s \o t, t)
<1> DEFINE c == s \o t
<1>1. /\ c \in Seq(S) /\ DOMAIN c = 1..(Len(s) + Len(t)) /\ Len(s) \in Nat /\ Len(t) \in Nat
      /\ \A i \in 1..Len(s) : c[i] = s[i]
      /\ \A i \in 1..Len(t) : c[Len(s) + i] = t[i]
  BY ConcatElements
<1>2. DOMAIN s = 1..Len(s) /\ DOMAIN t = 1..Len(t)
  BY LenProperties
<1> HIDE DEF c
<1>3. ASSUME NEW i \in DOMAIN s PROVE i \in DOMAIN c /\ c[i] = s[i]
  BY <1>1, <1>2
<1>4. ASSUME NEW i \in DOMAIN t PROVE Len(s) + i \in DOMAIN c /\ c[Len(s) + i] = t[i]
  BY <1>1, <1>2
<1> QED
  BY <1>1, <1>3, <1>4 DEF c, HasAll

\* Flattened, a sequence of sequences has the elements of all of them.
LEMMA FlattenHolds ==
  ASSUME NEW S, NEW seqs \in Seq(Seq(S))
  PROVE  /\ FlattenSeq(seqs) \in Seq(S)
         /\ \A i \in DOMAIN seqs : HasAll(FlattenSeq(seqs), seqs[i])
<1> DEFINE N == Len(seqs)
           Loop(g) == [i \in 1..N |-> IF i = 1 THEN seqs[i] ELSE g[i - 1] \o seqs[i]]
           flatten == CHOOSE g : g = Loop(g)
           step == [n \in 1..N |-> [s \in Seq(S) |-> s \o seqs[n]]]
<1>1. DOMAIN seqs = 1..N /\ N \in Nat /\ \A n \in 1..N : seqs[n] \in Seq(S)
  BY LenProperties, ElementOfSeq
<1>2. CASE N = 0
  <2>1. seqs = <<>> /\ FlattenSeq(seqs) = seqs
    BY <1>1, <1>2, EmptySeq DEF FlattenSeq
  <2>2. <<>> \in Seq(S) /\ DOMAIN seqs = {}
    BY <1>1, <1>2
  <2> QED
    BY <2>1, <2>2
<1>3. CASE N # 0
  <2>1. step \in [1..N -> [Seq(S) -> Seq(S)]]
    <3>1. \A n \in 1..N : \A s \in Seq(S) : s \o seqs[n] \in Seq(S)
      BY <1>1, ConcatProperties
    <3> QED
      BY <3>1
  <2>2. PICK f : LoopRun(f, Seq(S), <<>>, N, step)
    <3>1. N \in Nat /\ <<>> \in Seq(S)
      BY <1>1
    <3> HIDE DEF step, N
    <3> QED
      BY <2>1, <3>1, LoopRuns
  <2> DEFINE g == [i \in 1..N |-> f[i]]
  <2>3. ASSUME NEW n \in 1..N
        PROVE  /\ n - 1 \in 0..N /\ (n # 1 => n - 1 \in 1..N) /\ f[n - 1] \in Seq(S)
               /\ f[n] = f[n - 1] \o seqs[n]
    <3>1. n - 1 \in 0..N /\ (n # 1 => n - 1 \in 1..N)
      BY <1>1
    <3>2. f[n - 1] \in Seq(S) /\ f[n] = step[n][f[n - 1]]
      BY <2>2, <3>1 DEF LoopRun
    <3> QED
      BY <3>1, <3>2
  <2>4. 1 \in 1..N /\ f[0] = <<>> /\ f[1] = seqs[1]
    <3>1. 1 \in 1..N /\ f[0] = <<>> /\ 1 - 1 = 0 /\ seqs[1] \in Seq(S)
      BY <1>1, <1>3, <2>2 DEF LoopRun
    <3>2. <<>> \o seqs[1] = seqs[1]
      BY <3>1, ConcatEmptySeq
    <3> QED
      BY <2>3, <3>1, <3>2
  <2>5. \A i \in 1..N : g[i] = IF i = 1 THEN seqs[i] ELSE g[i - 1] \o seqs[i]
    BY <2>3, <2>4
  <2>6. g = Loop(g)
    BY <2>5
  <2>7. flatten = Loop(flatten)
    <3> HIDE DEF Loop
    <3> QED
      BY <2>6
  <2>8. FlattenSeq(seqs) = flatten[N]
    BY <1>3 DEF FlattenSeq
  <2> DEFINE Has(n) == /\ flatten[n] \in Seq(S)
                       /\ \A i \in 1..n : HasAll(flatten[n], seqs[i])
             Good == {n \in 0..N : n # 0 => Has(n)}
  <2> HIDE DEF flatten
  <2>9. 0 \in Good
    BY <1>1
  <2>10. ASSUME NEW n \in 0..(N - 1), n \in Good PROVE n + 1 \in Good
    <3>1. n + 1 \in 1..N /\ (n + 1) - 1 = n /\ n + 1 \in 0..N
          /\ \A i \in 1..(n + 1) : i \in 1..n \/ i = n + 1
      BY <1>1
    <3>2. CASE n = 0
      <4>1. flatten[1] = seqs[1] /\ \A i \in 1..1 : i = 1
        BY <2>4, <2>7
      <4>2. Has(1)
        BY <1>1, <2>4, <4>1 DEF HasAll
      <4> QED
        BY <3>1, <3>2, <4>2
    <3>3. CASE n # 0
      <4>1. flatten[n + 1] = flatten[n] \o seqs[n + 1]
        <5>1. n + 1 # 1
          BY <3>3
        <5> QED
          BY <2>7, <3>1, <5>1
      <4>2. flatten[n] \in Seq(S) /\ seqs[n + 1] \in Seq(S) /\ Has(n)
        BY <1>1, <2>10, <3>1, <3>3
      <4>3. /\ flatten[n + 1] \in Seq(S)
            /\ HasAll(flatten[n + 1], flatten[n]) /\ HasAll(flatten[n + 1], seqs[n + 1])
        <5> DEFINE a == flatten[n]
                   b == seqs[n + 1]
        <5>1. a \in Seq(S) /\ b \in Seq(S) /\ flatten[n + 1] = a \o b
          BY <4>1, <4>2
        <5> HIDE DEF a, b
        <5>2. a \o b \in Seq(S) /\ HasAll(a \o b, a) /\ HasAll(a \o b, b)
          BY <5>1, ConcatHas
        <5> QED
          BY <5>1, <5>2 DEF a, b
      <4>4. ASSUME NEW i \in 1..(n + 1)
            PROVE  HasAll(flatten[n + 1], seqs[i])
        <5>1. CASE i \in 1..n
          <6>1. HasAll(flatten[n], seqs[i])
            BY <4>2, <5>1
          <6> QED
            BY <4>3, <6>1 DEF HasAll
        <5>2. CASE i = n + 1
          BY <4>3, <5>2
        <5> QED
          BY <3>1, <5>1, <5>2
      <4> QED
        BY <3>1, <4>3, <4>4
    <3> QED
      BY <3>2, <3>3
  <2>11. N \in Good
    <3> HIDE DEF Good, N
    <3>1. 0..N \subseteq Good
      BY <1>1, <2>9, <2>10, Induction
    <3> QED
      BY <1>1, <3>1
  <2> QED
    BY <1>1, <1>3, <2>8, <2>11
<1> QED
  BY <1>2, <1>3

LEMMA HasAllCovers ==
  ASSUME NEW s, NEW t, HasAll(s, t), NEW p, Over(t, p)
  PROVE  Over(s, p)
  BY DEF HasAll, Over

LEMMA SingleCovers ==
  ASSUME NEW r \in Rect, NEW p
  PROVE  /\ <<r>> \in Seq(Rect) /\ <<>> \in Seq(Rect)
         /\ Over(<<r>>, p) <=> In(p, r)
<1>1. <<r>> \in Seq(Rect) /\ <<>> \in Seq(Rect) /\ DOMAIN <<r>> = {1} /\ <<r>>[1] = r
  OBVIOUS
<1> QED
  BY <1>1 DEF Over

-----------------------------------------------------------------------------
(* Damage that rides along with a scroll *)

Shift(p, dx, dy) == <<p[1] - dx, p[2] - dy>>

\* A point is in the moved rectangle if what moves to it was in the old one.
LEMMA MovedIs ==
  ASSUME NEW r \in Rect, NEW dx \in Int, NEW dy \in Int
  PROVE  /\ Moved(r, dx, dy) \in Rect
         /\ \A p \in Point : /\ Shift(p, dx, dy) \in Point
                             /\ In(p, Moved(r, dx, dy)) <=> In(Shift(p, dx, dy), r)
  BY DEF Moved, RectOf, Rect, Point, In, Shift

\* What is under a pending rectangle stays covered where it does not move, and is
\* covered where it moves to.
LEMMA TranslatedCovers ==
  ASSUME NEW r \in Rect, NEW sr \in Rect, NEW dst \in Rect, NEW dx \in Int, NEW dy \in Int
  PROVE  /\ Translated(r, sr, dst, dx, dy) \in Seq(Rect)
         /\ \A p \in Point :
              /\ In(p, r) /\ ~In(p, sr) => Over(Translated(r, sr, dst, dx, dy), p)
              /\ In(Shift(p, dx, dy), r) /\ In(Shift(p, dx, dy), sr) /\ In(p, dst)
                   => Over(Translated(r, sr, dst, dx, dy), p)
<1> DEFINE moving == Intersection(r, sr)
           moved == Intersection(Moved(moving, dx, dy), dst)
           stays == IF moving # r THEN <<r>> ELSE <<>>
           moves == IF IsEmpty(moved) THEN <<>> ELSE <<moved>>
           t == Translated(r, sr, dst, dx, dy)
<1>1. moving \in Rect /\ \A p \in Point : In(p, moving) <=> In(p, r) /\ In(p, sr)
  BY IntersectionIs
<1> HIDE DEF moving
<1>2. Moved(moving, dx, dy) \in Rect
      /\ \A p \in Point : /\ Shift(p, dx, dy) \in Point
                          /\ In(p, Moved(moving, dx, dy)) <=> In(Shift(p, dx, dy), moving)
  BY <1>1, MovedIs
<1>3. moved \in Rect /\ \A p \in Point : In(p, moved) <=> In(p, Moved(moving, dx, dy)) /\ In(p, dst)
  BY <1>2, IntersectionIs
<1> HIDE DEF moved
<1>4. /\ stays \in Seq(Rect) /\ moves \in Seq(Rect)
      /\ \A p \in Point : In(p, r) /\ moving # r => Over(stays, p)
      /\ \A p \in Point : In(p, moved) => Over(moves, p)
  BY <1>3, SingleCovers, EmptyHasNothing
<1>5. CASE IsEmpty(moving)
  <2>1. t = <<r>>
    BY <1>5 DEF Translated, moving
  <2>2. \A p \in Point : ~In(p, moving)
    BY <1>1, <1>5, EmptyHasNothing
  <2> QED
    BY <1>1, <1>2, <2>1, <2>2, SingleCovers
<1>6. CASE ~IsEmpty(moving)
  <2>1. t = stays \o moves
    BY <1>6 DEF Translated, moving, moved
  <2> HIDE DEF t, stays, moves
  <2>2. t \in Seq(Rect) /\ HasAll(t, stays) /\ HasAll(t, moves)
    BY <1>4, <2>1, ConcatHas
  <2>3. ASSUME NEW p \in Point, In(p, r), ~In(p, sr) PROVE Over(t, p)
    <3>1. moving # r
      BY <1>1, <2>3
    <3> QED
      BY <1>4, <2>2, <2>3, <3>1, HasAllCovers
  <2>4. ASSUME NEW p \in Point, In(Shift(p, dx, dy), r), In(Shift(p, dx, dy), sr), In(p, dst)
        PROVE  Over(t, p)
    <3>1. In(p, moved)
      BY <1>1, <1>2, <1>3, <2>4
    <3> QED
      BY <1>4, <2>2, <3>1, HasAllCovers
  <2> QED
    BY <2>2, <2>3, <2>4 DEF t
<1> QED
  BY <1>5, <1>6

\* The same of the whole list, rebuilt by addDamage.
LEMMA TranslatedDamageCovers ==
  ASSUME NEW list \in Lists, NEW sr \in Rect, NEW dst \in Rect, NEW dx \in Int, NEW dy \in Int
  PROVE  /\ TranslatedDamage(list, sr, dst, dx, dy) \in Lists
         /\ \A p \in Point :
              /\ Over(list, p) /\ ~In(p, sr) => Over(TranslatedDamage(list, sr, dst, dx, dy), p)
              /\ Over(list, Shift(p, dx, dy)) /\ In(Shift(p, dx, dy), sr) /\ In(p, dst)
                   => Over(TranslatedDamage(list, sr, dst, dx, dy), p)
<1> DEFINE parts == [i \in DOMAIN list |-> Translated(list[i], sr, dst, dx, dy)]
           pending == FlattenSeq(parts)
           td == TranslatedDamage(list, sr, dst, dx, dy)
<1>1. DOMAIN list = 1..Len(list) /\ Len(list) \in Nat /\ \A j \in DOMAIN list : list[j] \in Rect
  BY LenProperties, ElementOfSeq DEF Lists, Proper
<1>2. \A i \in DOMAIN list : Translated(list[i], sr, dst, dx, dy) \in Seq(Rect)
  BY <1>1, TranslatedCovers
<1>3. parts \in Seq(Seq(Rect)) /\ DOMAIN parts = DOMAIN list
      /\ \A i \in DOMAIN list : parts[i] = Translated(list[i], sr, dst, dx, dy)
  BY <1>1, <1>2
<1> HIDE DEF parts
<1>4. pending \in Seq(Rect) /\ \A i \in DOMAIN list : HasAll(pending, parts[i])
  BY <1>3, FlattenHolds
<1>5. <<>> \in Lists
  BY MaxRectsAssumption DEF Lists
<1>6. td = AddAll(<<>>, pending)
  BY DEF TranslatedDamage, parts
<1> HIDE DEF pending, td
<1>7. td \in Lists /\ \A p \in Point : Over(pending, p) => Over(td, p)
  BY <1>4, <1>5, <1>6, AddAllCovers
<1>8. ASSUME NEW p \in Point, Over(list, p), ~In(p, sr) PROVE Over(td, p)
  <2>1. PICK i \in DOMAIN list : In(p, list[i])
    BY <1>8 DEF Over
  <2>2. Over(parts[i], p)
    BY <1>1, <1>3, <1>8, <2>1, TranslatedCovers
  <2> QED
    BY <1>4, <1>7, <2>2, HasAllCovers
<1>9. ASSUME NEW p \in Point, Over(list, Shift(p, dx, dy)), In(Shift(p, dx, dy), sr), In(p, dst)
      PROVE  Over(td, p)
  <2>1. PICK i \in DOMAIN list : In(Shift(p, dx, dy), list[i])
    BY <1>9 DEF Over
  <2>2. Over(parts[i], p)
    BY <1>1, <1>3, <1>9, <2>1, TranslatedCovers
  <2> QED
    BY <1>4, <1>7, <2>2, HasAllCovers
<1> QED
  BY <1>7, <1>8, <1>9 DEF td

\* A shift exposes nothing of the scrolled rectangle but its strips.
LEMMA StripsCover ==
  ASSUME NEW sr \in Rect, NEW dx \in Int, NEW dy \in Int
  PROVE  /\ ExposedStrips(sr, dx, dy) \in Seq(Rect)
         /\ \A p \in Point :
              In(p, sr) /\ ~In(p, Intersection(Moved(sr, dx, dy), sr))
                => Over(ExposedStrips(sr, dx, dy), p)
<1> DEFINE a == IF dy > 0 THEN <<RectOf(sr.left, sr.top, sr.right, sr.top + dy)>>
                ELSE IF dy < 0 THEN <<RectOf(sr.left, sr.bottom + dy, sr.right, sr.bottom)>>
                ELSE <<>>
           b == IF dx > 0 THEN <<RectOf(sr.left, sr.top, sr.left + dx, sr.bottom)>>
                ELSE IF dx < 0 THEN <<RectOf(sr.right + dx, sr.top, sr.right, sr.bottom)>>
                ELSE <<>>
<1>1. /\ RectOf(sr.left, sr.top, sr.right, sr.top + dy) \in Rect
      /\ RectOf(sr.left, sr.bottom + dy, sr.right, sr.bottom) \in Rect
      /\ RectOf(sr.left, sr.top, sr.left + dx, sr.bottom) \in Rect
      /\ RectOf(sr.right + dx, sr.top, sr.right, sr.bottom) \in Rect
  BY DEF RectOf, Rect
<1>2. /\ a \in Seq(Rect) /\ b \in Seq(Rect)
      /\ \A p \in Point : dy > 0 /\ In(p, RectOf(sr.left, sr.top, sr.right, sr.top + dy)) => Over(a, p)
      /\ \A p \in Point : dy < 0 /\ In(p, RectOf(sr.left, sr.bottom + dy, sr.right, sr.bottom)) => Over(a, p)
      /\ \A p \in Point : dx > 0 /\ In(p, RectOf(sr.left, sr.top, sr.left + dx, sr.bottom)) => Over(b, p)
      /\ \A p \in Point : dx < 0 /\ In(p, RectOf(sr.right + dx, sr.top, sr.right, sr.bottom)) => Over(b, p)
  <2>1. a \in Seq(Rect) /\ b \in Seq(Rect)
    BY <1>1, SingleCovers
  <2>2. CASE dy > 0
    BY <1>1, <2>2, SingleCovers
  <2>3. CASE dy < 0
    BY <1>1, <2>3, SingleCovers
  <2>4. CASE dx > 0
    BY <1>1, <2>4, SingleCovers
  <2>5. CASE dx < 0
    BY <1>1, <2>5, SingleCovers
  <2> HIDE DEF a, b
  <2> QED
    BY <2>1, <2>2, <2>3, <2>4, <2>5
<1>3. ExposedStrips(sr, dx, dy) = a \o b
  BY DEF ExposedStrips
<1> HIDE DEF a, b
<1>4. a \o b \in Seq(Rect) /\ HasAll(a \o b, a) /\ HasAll(a \o b, b)
  BY <1>2, ConcatHas
<1>5. ASSUME NEW p \in Point, In(p, sr), ~In(p, Intersection(Moved(sr, dx, dy), sr))
      PROVE  Over(a, p) \/ Over(b, p)
  <2>1. ~In(Shift(p, dx, dy), sr)
    <3>1. Moved(sr, dx, dy) \in Rect
      BY MovedIs
    <3> QED
      BY <1>5, <3>1, IntersectionIs, MovedIs
  <2>2. \/ dy > 0 /\ In(p, RectOf(sr.left, sr.top, sr.right, sr.top + dy))
        \/ dy < 0 /\ In(p, RectOf(sr.left, sr.bottom + dy, sr.right, sr.bottom))
        \/ dx > 0 /\ In(p, RectOf(sr.left, sr.top, sr.left + dx, sr.bottom))
        \/ dx < 0 /\ In(p, RectOf(sr.right + dx, sr.top, sr.right, sr.bottom))
    BY <1>5, <2>1 DEF RectOf, Rect, Point, In, Shift
  <2> QED
    BY <1>2, <2>2
<1> QED
  BY <1>3, <1>4, <1>5, HasAllCovers


-----------------------------------------------------------------------------
(* The inductive invariant *)

Posted == [box : Rect, stale : SUBSET Pixel]

Typed ==
  /\ damage \in Lists /\ upload \in Rect
  /\ firstFramePushed \in BOOLEAN
  /\ render \in [todo : Seq(Proper), painted : Rect, region : Rect,
                 probe : BOOLEAN, active : BOOLEAN]
  /\ surfaceStale \in SUBSET Pixel /\ blitStale \in SUBSET Pixel
  /\ screenStale \in SUBSET Pixel
  /\ transit \in Seq(Posted)
  /\ lost \in SUBSET Pixel
  /\ changes \in 0..MaxChanges /\ faults \in 0..MaxFaults

Idle == ~render.active => render = NoRender

\* A box carries nothing of the frame outside it.
StaleInBox == \A i \in DOMAIN transit : transit[i].stale \subseteq Pixels(transit[i].box)

\* Pixel p of the screen is wrong once the boxes of t are blitted over s: no box is
\* over p and s has it wrong, or the last box over p has.
WrongAfter(p, s, t) ==
  \/ p \in s /\ \A i \in DOMAIN t : ~In(p, t[i].box)
  \/ \E i \in DOMAIN t : /\ In(p, t[i].box) /\ p \in t[i].stale
                         /\ \A j \in DOMAIN t : In(p, t[j].box) => j <= i

Backed(p) == p \in surfaceStale \/ p \in blitStale => Over(damage, p) \/ Over(render.todo, p)

Awaited(p) == \/ Over(damage, p) \/ In(p, upload) \/ Over(render.todo, p)
              \/ In(p, render.painted) \/ In(p, render.region) \/ p \in lost
Shown(p) == WrongAfter(p, screenStale, transit) => Awaited(p)

Tracked == \A p \in Pixel : Backed(p) /\ Shown(p)

IInv == Typed /\ Idle /\ StaleInBox /\ Tracked

LEMMA PixelsAre ==
  ASSUME NEW p \in Pixel
  PROVE  p \in Point /\ In(p, Frame) /\ \A r : p \in Pixels(r) <=> In(p, r)
<1>1. p \in Point /\ p[1] \in 0..kWidth - 1 /\ p[2] \in 0..kHeight - 1
  BY FrameAssumption DEF Pixel, Point
<1>2. In(p, Frame)
  BY <1>1, FrameAssumption DEF In, Frame, RectOf
<1> QED
  BY <1>1, <1>2 DEF Pixels, In

LEMMA FrameProper ==
  /\ Frame \in Proper /\ Frame \in Rect /\ Everything \in Proper
  /\ NoRect \in Rect /\ \A p \in Point : ~In(p, NoRect) /\ ~Over(<<>>, p)
  /\ \A p \in Pixel : In(p, Everything)
<1>1. Frame \in Proper /\ Frame \in Rect /\ Everything \in Proper /\ NoRect \in Rect
  BY FrameAssumption DEF Frame, Everything, NoRect, RectOf, Rect, Proper, IsEmpty, Width, Height
<1>2. \A p : ~Over(<<>>, p)
  BY DEF Over
<1>3. \A p \in Point : ~In(p, NoRect)
  BY DEF In, NoRect, RectOf, Point
<1>4. ASSUME NEW p \in Pixel PROVE In(p, Everything)
  <2>1. p[1] \in 0..kWidth - 1 /\ p[2] \in 0..kHeight - 1
    BY DEF Pixel
  <2> QED
    BY <2>1, FrameAssumption DEF In, Everything, RectOf
<1> QED
  BY <1>1, <1>2, <1>3, <1>4

LEMMA GreatestElement ==
  ASSUME NEW n \in Nat, NEW T, T \subseteq 1..n, T # {}
  PROVE  Max(T) \in T /\ \A j \in T : j <= Max(T)
<1> DEFINE U == {n - x : x \in T}
<1>1. U \subseteq Nat /\ U # {}
  <2>1. \A x \in T : n - x \in Nat
    OBVIOUS
  <2> QED
    BY <2>1
<1>2. PICK m \in U : \A y \in U : m <= y
  <2> HIDE DEF U
  <2> QED
    BY <1>1, LeastElement
<1>3. PICK x \in T : m = n - x
  BY <1>2
<1>4. \A j \in T : x >= j
  <2>1. \A j \in T : n - j \in U
    OBVIOUS
  <2> QED
    BY <1>2, <1>3, <2>1
<1>5. Max(T) \in T /\ \A j \in T : Max(T) >= j
  BY <1>3, <1>4 DEF Max
<1> QED
  BY <1>5

\* WrongAfter is ScreenAfterTransit, told for one pixel.
LEMMA ScreenIs ==
  ASSUME Typed, NEW p \in Pixel
  PROVE  p \in ScreenAfterTransit <=> WrongAfter(p, screenStale, transit)
<1> DEFINE over == {i \in DOMAIN transit : p \in Pixels(transit[i].box)}
<1>1. over = {i \in DOMAIN transit : In(p, transit[i].box)}
  BY PixelsAre
<1>2. p \in ScreenAfterTransit <=>
        IF over = {} THEN p \in screenStale ELSE p \in transit[Max(over)].stale
  BY DEF ScreenAfterTransit
<1> HIDE DEF over
<1>3. CASE over = {}
  BY <1>1, <1>2, <1>3 DEF WrongAfter
<1>4. CASE over # {}
  <2>1. Len(transit) \in Nat /\ DOMAIN transit = 1..Len(transit)
    BY LenProperties DEF Typed
  <2>2. Max(over) \in over /\ \A j \in over : j <= Max(over)
    BY <1>1, <1>4, <2>1, GreatestElement
  <2>3. ASSUME NEW i \in over, \A j \in over : j <= i PROVE i = Max(over)
    <3>1. i <= Max(over) /\ Max(over) <= i /\ i \in Nat /\ Max(over) \in Nat
      BY <1>1, <2>1, <2>2, <2>3
    <3> QED
      BY <3>1
  <2> QED
    BY <1>1, <1>2, <1>4, <2>2, <2>3 DEF WrongAfter
<1> QED
  BY <1>3, <1>4

\* Point by point, Tracked is what the property says of the sets.
LEMMA TrackedIs ==
  ASSUME Typed
  PROVE  Tracked <=> MirrorsTracked
<1>1. ASSUME NEW p \in Pixel
      PROVE  /\ p \in PixelsOf(damage) <=> Over(damage, p)
             /\ p \in PixelsOf(render.todo) <=> Over(render.todo, p)
  BY PixelsAre DEF PixelsOf, Over
<1>2. ASSUME NEW p \in Pixel
      PROVE  p \in UNION {PixelsOf(damage), Pixels(upload), PixelsOf(render.todo),
                          Pixels(render.painted), Pixels(render.region), lost}
             <=> Awaited(p)
  BY <1>1, PixelsAre DEF Awaited
<1>3. ScreenAfterTransit \subseteq Pixel
  BY DEF ScreenAfterTransit
<1>4. ScreenTracked <=> \A p \in Pixel : Shown(p)
  BY <1>2, <1>3, ScreenIs DEF ScreenTracked, Shown
<1>5. BackingStoreTracked <=> \A p \in Pixel : Backed(p)
  BY <1>1 DEF BackingStoreTracked, Backed, Typed
<1> QED
  BY <1>4, <1>5 DEF Tracked, MirrorsTracked

LEMMA TypeOKIs ==
  ASSUME Typed PROVE TypeOK
<1>1. damage \in Seq(Rect) /\ Len(damage) <= MaxRects /\ \A i \in DOMAIN damage : ~IsEmpty(damage[i])
  <2>1. damage \in Seq(Proper) /\ DOMAIN damage = 1..Len(damage) /\ \A i \in DOMAIN damage : damage[i] \in Proper
    BY LenProperties, ElementOfSeq DEF Typed, Lists
  <2>2. damage \in Seq(Rect)
    BY <2>1, SeqNarrows DEF Proper
  <2> QED
    BY <2>1, <2>2 DEF Typed, Lists, Proper
<1>2. render \in [todo : Seq(Rect), painted : Rect, region : Rect, probe : BOOLEAN, active : BOOLEAN]
  <2>1. render.todo \in Seq(Proper) /\ \A i \in 1..Len(render.todo) : render.todo[i] \in Proper
    BY LenProperties, ElementOfSeq DEF Typed
  <2>2. render.todo \in Seq(Rect)
    BY <2>1, SeqNarrows DEF Proper
  <2> QED
    BY <2>2 DEF Typed
<1> QED
  BY <1>1, <1>2 DEF TypeOK, Typed, Posted


-----------------------------------------------------------------------------
(* What is on its way to the screen *)

\* A box posted last decides the pixels under it and no other.
LEMMA PostedLast ==
  ASSUME NEW t \in Seq(Posted), NEW e \in Posted, NEW s, NEW p,
         WrongAfter(p, s, Append(t, e))
  PROVE  IF In(p, e.box) THEN p \in e.stale ELSE WrongAfter(p, s, t)
<1> DEFINE u == Append(t, e)
<1>1. /\ Len(t) \in Nat /\ DOMAIN t = 1..Len(t) /\ DOMAIN u = 1..(Len(t) + 1)
      /\ (\A i \in 1..Len(t) : u[i] = t[i]) /\ u[Len(t) + 1] = e
  BY OneMore
<1> HIDE DEF u
<1>2. Len(t) + 1 \in DOMAIN u /\ \A i \in DOMAIN u : i \in DOMAIN t \/ i = Len(t) + 1
  BY <1>1
<1>3. WrongAfter(p, s, u)
  BY DEF u
<1>4. CASE In(p, e.box)
  <2>1. PICK i \in DOMAIN u : p \in u[i].stale /\ \A j \in DOMAIN u : In(p, u[j].box) => j <= i
    BY <1>1, <1>2, <1>3, <1>4 DEF WrongAfter
  <2>2. i = Len(t) + 1
    BY <1>1, <1>2, <1>4, <2>1
  <2> QED
    BY <1>1, <1>4, <2>1, <2>2
<1>5. CASE ~In(p, e.box)
  <2>1. CASE p \in s /\ \A i \in DOMAIN u : ~In(p, u[i].box)
    <3>1. \A i \in DOMAIN t : ~In(p, t[i].box)
      BY <1>1, <2>1
    <3> QED
      BY <1>5, <2>1, <3>1 DEF WrongAfter
  <2>2. CASE \E i \in DOMAIN u : /\ In(p, u[i].box) /\ p \in u[i].stale
                                 /\ \A j \in DOMAIN u : In(p, u[j].box) => j <= i
    <3>1. PICK i \in DOMAIN u : /\ In(p, u[i].box) /\ p \in u[i].stale
                                /\ \A j \in DOMAIN u : In(p, u[j].box) => j <= i
      BY <2>2
    <3>2. i \in DOMAIN t
      BY <1>1, <1>2, <1>5, <3>1
    <3>3. In(p, t[i].box) /\ p \in t[i].stale /\ \A j \in DOMAIN t : In(p, t[j].box) => j <= i
      BY <1>1, <3>1, <3>2
    <3> QED
      BY <1>5, <3>2, <3>3 DEF WrongAfter
  <2> QED
    BY <1>3, <2>1, <2>2 DEF WrongAfter
<1> QED
  BY <1>4, <1>5

\* Blitting the first box changes nothing of what the screen will be.
LEMMA BlittedFirst ==
  ASSUME NEW t \in Seq(Posted), t # <<>>, NEW s, NEW p \in Pixel,
         Head(t).stale \subseteq Pixels(Head(t).box),
         WrongAfter(p, (s \ Pixels(Head(t).box)) \cup Head(t).stale, Tail(t))
  PROVE  WrongAfter(p, s, t)
<1> DEFINE u == Tail(t)
           h == Head(t)
<1>1. /\ Len(t) \in Nat \ {0} /\ DOMAIN t = 1..Len(t) /\ DOMAIN u = 1..(Len(t) - 1)
      /\ (\A i \in 1..(Len(t) - 1) : u[i] = t[i + 1]) /\ h = t[1] /\ 1 \in DOMAIN t
  BY OneLess
<1> HIDE DEF u, h
<1>2. /\ \A i \in DOMAIN t : i = 1 \/ (i - 1 \in DOMAIN u /\ t[i] = u[i - 1])
      /\ \A i \in DOMAIN u : i + 1 \in DOMAIN t /\ t[i + 1] = u[i]
  <2>1. ASSUME NEW i \in DOMAIN t, i # 1 PROVE i - 1 \in DOMAIN u /\ t[i] = u[i - 1]
    <3>1. i - 1 \in 1..(Len(t) - 1) /\ (i - 1) + 1 = i
      BY <1>1, <2>1
    <3> QED
      BY <1>1, <3>1
  <2>2. ASSUME NEW i \in DOMAIN u PROVE i + 1 \in DOMAIN t /\ t[i + 1] = u[i]
    BY <1>1
  <2> QED
    BY <2>1, <2>2
<1>3. WrongAfter(p, (s \ Pixels(h.box)) \cup h.stale, u) /\ h.stale \subseteq Pixels(h.box)
  BY DEF u, h
<1>4. p \in Pixels(h.box) <=> In(p, h.box)
  BY PixelsAre
<1>5. CASE /\ p \in (s \ Pixels(h.box)) \cup h.stale
           /\ \A i \in DOMAIN u : ~In(p, u[i].box)
  <2>1. \A i \in DOMAIN t : In(p, t[i].box) => i = 1
    BY <1>2, <1>5
  <2>2. CASE p \in h.stale
    <3>1. In(p, t[1].box) /\ p \in t[1].stale /\ \A j \in DOMAIN t : In(p, t[j].box) => j <= 1
      BY <1>1, <1>3, <1>4, <2>1, <2>2
    <3> QED
      BY <1>1, <3>1 DEF WrongAfter
  <2>3. CASE p \in s /\ ~In(p, h.box)
    <3>1. \A i \in DOMAIN t : ~In(p, t[i].box)
      BY <1>1, <2>1, <2>3
    <3> QED
      BY <2>3, <3>1 DEF WrongAfter
  <2> QED
    BY <1>4, <1>5, <2>2, <2>3
<1>6. CASE \E i \in DOMAIN u : /\ In(p, u[i].box) /\ p \in u[i].stale
                               /\ \A j \in DOMAIN u : In(p, u[j].box) => j <= i
  <2>1. PICK i \in DOMAIN u : /\ In(p, u[i].box) /\ p \in u[i].stale
                              /\ \A j \in DOMAIN u : In(p, u[j].box) => j <= i
    BY <1>6
  <2>2. i + 1 \in DOMAIN t /\ In(p, t[i + 1].box) /\ p \in t[i + 1].stale
    BY <1>2, <2>1
  <2>3. ASSUME NEW j \in DOMAIN t, In(p, t[j].box) PROVE j <= i + 1
    <3>1. CASE j = 1
      BY <1>1, <3>1
    <3>2. CASE j # 1
      <4>1. j - 1 \in DOMAIN u /\ In(p, u[j - 1].box)
        BY <1>2, <2>3, <3>2
      <4>2. j - 1 <= i
        BY <2>1, <4>1
      <4> QED
        BY <1>1, <4>1, <4>2
    <3> QED
      BY <3>1, <3>2
  <2> QED
    BY <2>2, <2>3 DEF WrongAfter
<1> QED
  BY <1>3, <1>5, <1>6 DEF WrongAfter

\* The picture changing at ps makes no other pixel of the screen wrong.
LEMMA PushedChange ==
  ASSUME Typed, StaleInBox, NEW ps, PushedCopiesChange(ps), ps \subseteq Pixel
  PROVE  /\ screenStale' \in SUBSET Pixel /\ transit' \in Seq(Posted) /\ StaleInBox'
         /\ \A p \in Pixel : WrongAfter(p, screenStale', transit')
                               => p \in ps \/ WrongAfter(p, screenStale, transit)
<1> DEFINE e(i) == [transit[i] EXCEPT !.stale = @ \cup (ps \cap Pixels(transit[i].box))]
<1>1. /\ transit \in Seq(Posted) /\ DOMAIN transit = 1..Len(transit) /\ Len(transit) \in Nat
      /\ \A i \in DOMAIN transit : transit[i] \in Posted
  BY LenProperties, ElementOfSeq DEF Typed
<1>2. transit' = [i \in DOMAIN transit |-> e(i)] /\ screenStale' = screenStale \cup ps
  BY DEF PushedCopiesChange
<1>3. ASSUME NEW i \in DOMAIN transit
      PROVE  /\ e(i) \in Posted /\ e(i).box = transit[i].box
             /\ e(i).stale = transit[i].stale \cup (ps \cap Pixels(transit[i].box))
  <2>1. transit[i] \in Posted
    BY <1>1
  <2> QED
    BY <2>1 DEF Posted
<1> HIDE DEF e
<1>4. transit' \in Seq(Posted) /\ DOMAIN transit' = DOMAIN transit
      /\ \A i \in DOMAIN transit : transit'[i] = e(i)
  BY <1>1, <1>2, <1>3
<1>5. screenStale' \in SUBSET Pixel
  BY <1>2 DEF Typed
<1>6. StaleInBox'
  BY <1>3, <1>4 DEF StaleInBox
<1>7. ASSUME NEW p \in Pixel, WrongAfter(p, screenStale', transit'), p \notin ps
      PROVE  WrongAfter(p, screenStale, transit)
  <2>1. \A i \in DOMAIN transit : /\ transit'[i].box = transit[i].box
                                  /\ p \in transit'[i].stale <=> p \in transit[i].stale
    BY <1>3, <1>4, <1>7
  <2>2. p \in screenStale' <=> p \in screenStale
    BY <1>2, <1>7
  <2> QED
    BY <1>4, <1>7, <2>1, <2>2 DEF WrongAfter
<1> QED
  BY <1>4, <1>5, <1>6, <1>7


-----------------------------------------------------------------------------
(* The steps *)

LEMMA InitHolds == Init => IInv
<1> SUFFICES ASSUME Init PROVE IInv
  OBVIOUS
<1>1. /\ damage = <<Everything>> /\ upload = NoRect /\ firstFramePushed = FALSE
      /\ render = NoRender /\ surfaceStale = Pixel /\ blitStale = Pixel /\ screenStale = Pixel
      /\ transit = <<>> /\ lost = {} /\ changes = 0 /\ faults = 0
  BY DEF Init
<1>2. damage \in Lists /\ DOMAIN damage = {1} /\ damage[1] = Everything
  <2>1. <<Everything>> \in Seq(Proper) /\ Len(<<Everything>>) = 1
        /\ DOMAIN <<Everything>> = {1} /\ <<Everything>>[1] = Everything
    BY FrameProper
  <2> QED
    BY <1>1, <2>1, MaxRectsAssumption DEF Lists
<1>3. NoRender \in [todo : Seq(Proper), painted : Rect, region : Rect,
                    probe : BOOLEAN, active : BOOLEAN]
  BY FrameProper DEF NoRender
<1>4. Typed
  <2>1. transit \in Seq(Posted)
    BY <1>1
  <2>2. upload \in Rect /\ changes \in 0..MaxChanges /\ faults \in 0..MaxFaults
    BY <1>1, FrameProper, BoundAssumption
  <2> QED
    BY <1>1, <1>2, <1>3, <2>1, <2>2 DEF Typed
<1>5. Idle /\ StaleInBox
  BY <1>1 DEF Idle, StaleInBox
<1>6. \A p \in Pixel : Over(damage, p)
  BY <1>2, FrameProper DEF Over
<1> QED
  BY <1>4, <1>5, <1>6 DEF IInv, Tracked, Backed, Shown, Awaited

\* Nothing is painted or owed by a frame that is not under way.
LEMMA IdleOwesNothing ==
  ASSUME render = NoRender, NEW p \in Point
  PROVE  ~Over(render.todo, p) /\ ~In(p, render.painted) /\ ~In(p, render.region)
  BY FrameProper DEF NoRender

LEMMA NoRenderTyped ==
  NoRender \in [todo : Seq(Proper), painted : Rect, region : Rect,
                probe : BOOLEAN, active : BOOLEAN]
  BY FrameProper DEF NoRender

\* The guest's picture changes under a rectangle that is queued in full.
LEMMA PictureChangesStep ==
  ASSUME IInv, NEW ps \in SUBSET Pixel, PictureChanges(ps),
         damage' \in Lists, upload' \in Rect,
         \A p \in Point : Over(damage, p) => Over(damage', p),
         \A p \in ps : Over(damage', p),
         \A p \in Point : In(p, upload) => In(p, upload'),
         changes' \in 0..MaxChanges,
         UNCHANGED <<firstFramePushed, render, lost, faults>>
  PROVE  IInv'
<1>1. Typed /\ Idle /\ StaleInBox /\ Tracked
  BY DEF IInv
<1>2. /\ surfaceStale' = surfaceStale \cup ps /\ blitStale' = blitStale \cup ps
      /\ PushedCopiesChange(ps)
  BY DEF PictureChanges
<1>3. /\ screenStale' \in SUBSET Pixel /\ transit' \in Seq(Posted) /\ StaleInBox'
      /\ \A p \in Pixel : WrongAfter(p, screenStale', transit')
                            => p \in ps \/ WrongAfter(p, screenStale, transit)
  BY <1>1, <1>2, PushedChange
<1>4. Typed'
  BY <1>1, <1>2, <1>3 DEF Typed
<1>5. Idle'
  BY <1>1 DEF Idle
<1>6. ASSUME NEW p \in Pixel PROVE Backed(p)' /\ Shown(p)'
  <2>1. Backed(p) /\ Shown(p) /\ p \in Point
    BY <1>1, PixelsAre DEF Tracked
  <2>2. Backed(p)'
    BY <1>2, <2>1 DEF Backed
  <2>3. Shown(p)'
    BY <1>3, <2>1 DEF Shown, Awaited
  <2> QED
    BY <2>2, <2>3
<1> QED
  BY <1>3, <1>4, <1>5, <1>6 DEF IInv, Tracked

LEMMA InvalidateStep ==
  ASSUME IInv, NEW r \in Rect, Invalidate(r)
  PROVE  IInv'
<1>1. /\ changes < MaxChanges /\ changes' = changes + 1
      /\ PictureChanges(Pixels(r)) /\ damage' = AddDamage(damage, r)
      /\ UNCHANGED <<upload, firstFramePushed, render, lost, faults>>
  BY DEF Invalidate, Change
<1>2. damage \in Lists /\ upload \in Rect /\ changes' \in 0..MaxChanges
  BY <1>1, BoundAssumption DEF IInv, Typed
<1>3. damage' \in Lists /\ \A p \in Point : Over(damage, p) \/ In(p, r) => Over(damage', p)
  BY <1>1, <1>2, AddDamageCovers
<1>4. Pixels(r) \in SUBSET Pixel /\ \A p \in Pixels(r) : p \in Point /\ In(p, r)
  BY PixelsAre DEF Pixels
<1> QED
  BY <1>1, <1>2, <1>3, <1>4, PictureChangesStep

\* A scroll that is repainted: repainted covers what scrolled.
LEMMA ScrollByDamageStep ==
  ASSUME IInv, NEW r \in Rect, NEW repainted \in Rect, Change, ScrollByDamage(r, repainted),
         \A p \in Point : In(p, ScrollRect(r)) => In(p, repainted)
  PROVE  IInv'
<1>1. /\ changes < MaxChanges /\ changes' = changes + 1
      /\ PictureChanges(Pixels(ScrollRect(r))) /\ damage' = AddDamage(damage, repainted)
      /\ upload' = Unite(upload, r)
      /\ UNCHANGED <<firstFramePushed, render, lost, faults>>
  BY DEF ScrollByDamage, Change, InvalidateRootView
<1>2. damage \in Lists /\ upload \in Rect /\ changes' \in 0..MaxChanges
  BY <1>1, BoundAssumption DEF IInv, Typed
<1>3. damage' \in Lists /\ \A p \in Point : Over(damage, p) \/ In(p, repainted) => Over(damage', p)
  BY <1>1, <1>2, AddDamageCovers
<1>4. upload' \in Rect /\ \A p \in Point : In(p, upload) => In(p, upload')
  BY <1>1, <1>2, UniteCovers
<1> DEFINE ps == Pixels(ScrollRect(r))
<1>5. ps \in SUBSET Pixel /\ \A p \in ps : p \in Point /\ In(p, ScrollRect(r))
  BY PixelsAre DEF Pixels
<1>6. \A p \in ps : Over(damage', p)
  BY <1>3, <1>5
<1>7. PictureChanges(ps)
  BY <1>1
<1> HIDE DEF ps
<1> QED
  BY <1>1, <1>2, <1>3, <1>4, <1>5, <1>6, <1>7, PictureChangesStep

LEMMA ScrollUnsafeStep ==
  ASSUME IInv, NEW r \in Rect, ScrollUnsafe(r)
  PROVE  IInv'
<1>1. Change /\ ScrollByDamage(r, r)
  BY DEF ScrollUnsafe
<1>2. \A p \in Point : In(p, ScrollRect(r)) => In(p, r)
  BY FrameProper, IntersectionIs DEF ScrollRect
<1> QED
  BY <1>1, <1>2, ScrollByDamageStep

LEMMA ScrollRepaintsStep ==
  ASSUME IInv, NEW r \in Rect, NEW dx, NEW dy, ScrollRepaints(r, dx, dy)
  PROVE  IInv'
<1>1. Change /\ ScrollByDamage(r, ScrollRect(r))
  BY DEF ScrollRepaints
<1>2. ScrollRect(r) \in Rect
  BY FrameProper, IntersectionIs DEF ScrollRect
<1> QED
  BY <1>1, <1>2, ScrollByDamageStep


\* The blit: pending damage has moved along, and what it exposes is queued, so both
\* copies stay covered.
LEMMA ScrollBlitStep ==
  ASSUME IInv, NEW r \in Rect, NEW dx \in Int, NEW dy \in Int, ScrollBlit(r, dx, dy)
  PROVE  IInv'
<1> DEFINE sr == ScrollRect(r)
           dst == ScrollDst(r, dx, dy)
           pending == TranslatedDamage(damage, sr, dst, dx, dy)
           exposed == Pixels(sr) \ Pixels(dst)
           Mirrored == /\ surfaceStale' = (surfaceStale \ Pixels(dst)) \cup exposed
                                          \cup (Pixels(dst) \cap blitStale')
                       /\ upload' = Unite(Unite(upload, r), sr)
                       /\ damage' = AddAll(pending, ExposedStrips(sr, dx, dy))
                       /\ UNCHANGED faults
           Diverged == /\ Fault
                       /\ surfaceStale' = surfaceStale \cup Pixels(sr)
                       /\ upload' = Unite(upload, r)
                       /\ damage' = AddDamage(pending, Frame)
<1>1. /\ changes < MaxChanges /\ changes' = changes + 1 /\ ~render.active
      /\ PushedCopiesChange(Pixels(sr))
      /\ blitStale' = Shifted(blitStale, sr, dst, dx, dy)
      /\ Mirrored \/ Diverged
      /\ UNCHANGED <<firstFramePushed, render, lost>>
  BY DEF ScrollBlit, Change, InvalidateRootView
<1>2. sr \in Rect /\ Moved(sr, dx, dy) \in Rect /\ dst \in Rect
      /\ dst = Intersection(Moved(sr, dx, dy), sr)
      /\ \A p \in Point : /\ Shift(p, dx, dy) \in Point
                          /\ In(p, dst) <=> In(Shift(p, dx, dy), sr) /\ In(p, sr)
  <2>1. sr \in Rect
    BY FrameProper, IntersectionIs DEF ScrollRect
  <2>2. Moved(sr, dx, dy) \in Rect
        /\ \A p \in Point : /\ Shift(p, dx, dy) \in Point
                            /\ In(p, Moved(sr, dx, dy)) <=> In(Shift(p, dx, dy), sr)
    BY <2>1, MovedIs
  <2>3. dst = Intersection(Moved(sr, dx, dy), sr)
    BY DEF ScrollDst
  <2> HIDE DEF sr, dst
  <2> QED
    BY <2>1, <2>2, <2>3, IntersectionIs
<1> HIDE DEF sr, dst
<1>3. Typed /\ Idle /\ StaleInBox /\ Tracked /\ render = NoRender /\ damage \in Lists
      /\ upload \in Rect
  BY <1>1 DEF IInv, Idle, Typed
<1>4. /\ pending \in Lists
      /\ \A p \in Point :
           /\ Over(damage, p) /\ ~In(p, sr) => Over(pending, p)
           /\ Over(damage, Shift(p, dx, dy)) /\ In(Shift(p, dx, dy), sr) /\ In(p, dst)
                => Over(pending, p)
  BY <1>2, <1>3, TranslatedDamageCovers
<1>5. /\ ExposedStrips(sr, dx, dy) \in Seq(Rect)
      /\ \A p \in Point : In(p, sr) /\ ~In(p, dst) => Over(ExposedStrips(sr, dx, dy), p)
  BY <1>2, StripsCover
<1> HIDE DEF pending
<1>6. Pixels(sr) \in SUBSET Pixel /\ Pixels(dst) \in SUBSET Pixel
      /\ blitStale' \in SUBSET Pixel
  BY <1>1, <1>3 DEF Pixels, Shifted, Typed
<1>7. /\ screenStale' \in SUBSET Pixel /\ transit' \in Seq(Posted) /\ StaleInBox'
      /\ \A p \in Pixel : WrongAfter(p, screenStale', transit')
                            => p \in Pixels(sr) \/ WrongAfter(p, screenStale, transit)
  BY <1>1, <1>3, <1>6, PushedChange
<1>8. changes' \in 0..MaxChanges
  BY <1>1, <1>3, BoundAssumption DEF Typed
<1>9. ASSUME NEW p \in Pixel, p \in blitStale'
      PROVE  Over(pending, p) \/ Over(ExposedStrips(sr, dx, dy), p)
  <2>1. p \in Point /\ (p \in Pixels(sr) <=> In(p, sr)) /\ (p \in Pixels(dst) <=> In(p, dst))
    BY PixelsAre
  <2>2. \A q \in Pixel : q \in blitStale => Over(damage, q)
    BY <1>3, IdleOwesNothing, PixelsAre DEF Tracked, Backed
  <2>3. CASE p \in blitStale /\ ~In(p, sr)
    BY <1>4, <2>1, <2>2, <2>3
  <2>4. CASE In(p, sr) /\ ~In(p, dst)
    BY <1>5, <2>1, <2>4
  <2>5. CASE In(p, dst) /\ Shift(p, dx, dy) \in blitStale
    <3>1. Shift(p, dx, dy) \in Pixel
      BY <1>3, <2>5 DEF Typed
    <3>2. In(Shift(p, dx, dy), sr)
      BY <1>2, <2>1, <2>5
    <3> QED
      BY <1>4, <2>1, <2>2, <2>5, <3>1, <3>2
  <2>6. \/ p \in blitStale /\ ~In(p, sr)
        \/ In(p, sr) /\ ~In(p, dst)
        \/ In(p, dst) /\ Shift(p, dx, dy) \in blitStale
    BY <1>1, <1>9, <2>1 DEF Shifted, Shift
  <2> QED
    BY <2>3, <2>4, <2>5, <2>6
<1>10. ASSUME NEW p \in Pixel
       PROVE  /\ p \in surfaceStale => Over(damage, p)
              /\ WrongAfter(p, screenStale, transit)
                   => Over(damage, p) \/ In(p, upload) \/ p \in lost
  BY <1>3, IdleOwesNothing, PixelsAre DEF Tracked, Backed, Shown, Awaited
<1>11. CASE Mirrored
  <2>1. damage' \in Lists /\ \A p \in Point : Over(pending, p) \/ Over(ExposedStrips(sr, dx, dy), p)
                                                => Over(damage', p)
    BY <1>4, <1>5, <1>11, AddAllCovers
  <2>2. upload' \in Rect /\ \A p \in Point : In(p, upload) \/ In(p, sr) => In(p, upload')
    <3>1. Unite(upload, r) \in Rect /\ \A p \in Point : In(p, upload) => In(p, Unite(upload, r))
      BY <1>3, UniteCovers
    <3> QED
      BY <1>2, <1>11, <3>1, UniteCovers
  <2>3. surfaceStale' \in SUBSET Pixel /\ faults' = faults
    BY <1>3, <1>6, <1>11 DEF Typed
  <2>4. Typed'
    BY <1>1, <1>3, <1>6, <1>7, <1>8, <2>1, <2>2, <2>3 DEF Typed
  <2>5. Idle'
    BY <1>1, <1>3 DEF Idle
  <2>6. ASSUME NEW p \in Pixel PROVE Backed(p)' /\ Shown(p)'
    <3>1. p \in Point /\ (p \in Pixels(sr) <=> In(p, sr)) /\ (p \in Pixels(dst) <=> In(p, dst))
      BY PixelsAre
    <3>2. p \in blitStale' => Over(damage', p)
      BY <1>9, <2>1, <3>1
    <3>3. p \in surfaceStale' => Over(damage', p)
      <4>1. CASE In(p, sr) /\ ~In(p, dst)
        BY <1>5, <2>1, <3>1, <4>1
      <4>2. CASE p \in surfaceStale /\ ~In(p, sr)
        BY <1>4, <1>10, <2>1, <3>1, <4>2
      <4>3. p \in surfaceStale' =>
              \/ p \in blitStale'
              \/ In(p, sr) /\ ~In(p, dst)
              \/ p \in surfaceStale /\ ~In(p, sr)
        BY <1>11, <3>1
      <4> QED
        BY <3>2, <4>1, <4>2, <4>3
    <3>4. Backed(p)'
      BY <3>2, <3>3 DEF Backed
    <3>5. WrongAfter(p, screenStale', transit') => Over(damage', p) \/ In(p, upload') \/ p \in lost'
      <4>1. CASE In(p, sr)
        BY <2>2, <3>1, <4>1
      <4>2. CASE ~In(p, sr)
        <5>1. Over(damage, p) => Over(damage', p)
          BY <1>4, <2>1, <3>1, <4>2
        <5> QED
          BY <1>1, <1>7, <1>10, <2>2, <3>1, <4>2, <5>1
      <4> QED
        BY <4>1, <4>2
    <3>6. Shown(p)'
      BY <3>5 DEF Shown, Awaited
    <3> QED
      BY <3>4, <3>6
  <2> QED
    BY <1>7, <2>4, <2>5, <2>6 DEF IInv, Tracked
<1>12. CASE Diverged
  <2>1. damage' \in Lists /\ \A p \in Point : In(p, Frame) => Over(damage', p)
    BY <1>4, <1>12, FrameProper, AddDamageCovers
  <2>2. upload' \in Rect
    BY <1>3, <1>12, UniteCovers
  <2>3. surfaceStale' \in SUBSET Pixel /\ faults' \in 0..MaxFaults
    BY <1>3, <1>6, <1>12, BoundAssumption DEF Typed, Fault
  <2>4. Typed'
    BY <1>1, <1>3, <1>6, <1>7, <1>8, <2>1, <2>2, <2>3 DEF Typed
  <2>5. Idle'
    BY <1>1, <1>3 DEF Idle
  <2>6. \A p \in Pixel : Over(damage', p)
    BY <2>1, PixelsAre
  <2>7. Tracked'
    BY <2>6 DEF Tracked, Backed, Shown, Awaited
  <2> QED
    BY <1>7, <2>4, <2>5, <2>7 DEF IInv
<1> QED
  BY <1>1, <1>11, <1>12


\* Clipped to the frame, the damage still has all that the frame has of it.
LEMMA ClampedCovers ==
  ASSUME damage \in Lists
  PROVE  /\ ClampedDamage \in Seq(Proper)
         /\ \A p \in Pixel : Over(damage, p) => Over(ClampedDamage, p)
<1> DEFINE parts == [i \in DOMAIN damage |-> Clamped(damage[i])]
<1>1. DOMAIN damage = 1..Len(damage) /\ Len(damage) \in Nat
      /\ \A i \in DOMAIN damage : damage[i] \in Rect
  BY LenProperties, ElementOfSeq DEF Lists, Proper
<1>2. ASSUME NEW r \in Rect
      PROVE  /\ Clamped(r) \in Seq(Proper)
             /\ \A p \in Pixel : In(p, r) => Over(Clamped(r), p)
  <2> DEFINE s == Intersection(r, Frame)
  <2>1. s \in Rect /\ \A p \in Pixel : In(p, r) => In(p, s)
    BY FrameProper, IntersectionIs, PixelsAre
  <2>2. Clamped(r) = IF IsEmpty(s) THEN <<>> ELSE <<s>>
    BY DEF Clamped
  <2> HIDE DEF s
  <2>3. CASE IsEmpty(s)
    <3>1. \A p \in Pixel : ~In(p, s)
      BY <2>1, <2>3, EmptyHasNothing, PixelsAre
    <3> QED
      BY <2>1, <2>2, <2>3, <3>1
  <2>4. CASE ~IsEmpty(s)
    <3>1. s \in Proper
      BY <2>1, <2>4 DEF Proper
    <3>2. <<s>> \in Seq(Proper)
      BY <3>1
    <3> QED
      BY <2>1, <2>2, <2>4, <3>2, SingleCovers
  <2> QED
    BY <2>3, <2>4
<1>3. parts \in Seq(Seq(Proper)) /\ DOMAIN parts = DOMAIN damage
      /\ \A i \in DOMAIN damage : parts[i] = Clamped(damage[i])
  BY <1>1, <1>2
<1>4. ClampedDamage = FlattenSeq(parts)
  BY DEF ClampedDamage
<1> HIDE DEF parts
<1>5. ClampedDamage \in Seq(Proper) /\ \A i \in DOMAIN damage : HasAll(ClampedDamage, parts[i])
  BY <1>3, <1>4, FlattenHolds
<1>6. ASSUME NEW p \in Pixel, Over(damage, p) PROVE Over(ClampedDamage, p)
  <2>1. PICK i \in DOMAIN damage : In(p, damage[i])
    BY <1>6 DEF Over
  <2>2. Over(parts[i], p)
    BY <1>1, <1>2, <1>3, <2>1
  <2> QED
    BY <1>5, <2>2, HasAllCovers
<1> QED
  BY <1>5, <1>6

\* A frame takes all the damage and the upload region over, or paints everything.
LEMMA BeginRenderStep ==
  ASSUME IInv, NEW probe \in BOOLEAN, BeginRender(probe)
  PROVE  IInv'
<1> DEFINE force == probe \/ ~firstFramePushed
           todo == IF force THEN <<Frame>> ELSE ClampedDamage
           region == IF force THEN NoRect ELSE Intersection(upload, Frame)
           started == [todo |-> todo, painted |-> NoRect, region |-> region,
                       probe |-> probe, active |-> TRUE]
<1>1. /\ ~render.active /\ damage' = <<>> /\ upload' = NoRect
      /\ render' = IF todo = <<>> /\ IsEmpty(region) THEN NoRender ELSE started
      /\ UNCHANGED <<firstFramePushed, surfaceStale, blitStale, screenStale, transit,
                     lost, changes, faults>>
  BY DEF BeginRender, copies
<1>2. Typed /\ Idle /\ StaleInBox /\ Tracked /\ render = NoRender /\ damage \in Lists
      /\ upload \in Rect
  BY <1>1 DEF IInv, Idle, Typed
<1>3. ClampedDamage \in Seq(Proper) /\ \A p \in Pixel : Over(damage, p) => Over(ClampedDamage, p)
  BY <1>2, ClampedCovers
<1>4. todo \in Seq(Proper) /\ region \in Rect
      /\ \A p \in Pixel : \/ Over(todo, p)
                          \/ (Over(damage, p) => Over(todo, p)) /\ (In(p, upload) => In(p, region))
  <2>1. CASE force
    <3>1. <<Frame>> \in Seq(Proper)
      BY FrameProper
    <3>2. \A p \in Pixel : Over(<<Frame>>, p)
      BY FrameProper, SingleCovers, PixelsAre
    <3> QED
      BY <2>1, <3>1, <3>2, FrameProper
  <2>2. CASE ~force
    <3>1. Intersection(upload, Frame) \in Rect
          /\ \A p \in Pixel : In(p, upload) => In(p, Intersection(upload, Frame))
      BY <1>2, FrameProper, IntersectionIs, PixelsAre
    <3> QED
      BY <1>3, <2>2, <3>1
  <2> QED
    BY <2>1, <2>2
<1> HIDE DEF todo, region
<1>5. started \in [todo : Seq(Proper), painted : Rect, region : Rect,
                   probe : BOOLEAN, active : BOOLEAN]
  BY <1>4, FrameProper
<1>6. Typed'
  <2>1. <<>> \in Lists /\ NoRect \in Rect
    BY MaxRectsAssumption, FrameProper DEF Lists
  <2>2. render' \in [todo : Seq(Proper), painted : Rect, region : Rect,
                     probe : BOOLEAN, active : BOOLEAN]
    BY <1>1, <1>5, NoRenderTyped
  <2> QED
    BY <1>1, <1>2, <2>1, <2>2 DEF Typed
<1>7. Idle'
  BY <1>1 DEF Idle
<1>8. StaleInBox'
  BY <1>1, <1>2 DEF StaleInBox
<1>9. ASSUME NEW p \in Pixel PROVE Backed(p)' /\ Shown(p)'
  <2>1. /\ p \in surfaceStale \/ p \in blitStale => Over(damage, p)
        /\ WrongAfter(p, screenStale, transit) => Over(damage, p) \/ In(p, upload) \/ p \in lost
    BY <1>2, IdleOwesNothing, PixelsAre DEF Tracked, Backed, Shown, Awaited
  <2>2. CASE todo = <<>> /\ IsEmpty(region)
    <3>1. ~Over(todo, p) /\ ~In(p, region)
      BY <1>4, <2>2, FrameProper, EmptyHasNothing, PixelsAre
    <3>2. ~Over(damage, p) /\ ~In(p, upload)
      BY <1>4, <3>1
    <3> QED
      BY <1>1, <2>1, <3>2 DEF Backed, Shown, Awaited
  <2>3. CASE ~(todo = <<>> /\ IsEmpty(region))
    <3>1. render'.todo = todo /\ render'.region = region
      BY <1>1, <2>3
    <3>2. Backed(p)'
      BY <1>1, <1>4, <2>1, <3>1 DEF Backed
    <3>3. Shown(p)'
      BY <1>1, <1>4, <2>1, <3>1 DEF Shown, Awaited
    <3> QED
      BY <3>2, <3>3
  <2> QED
    BY <2>2, <2>3
<1> QED
  BY <1>6, <1>7, <1>8, <1>9 DEF IInv, Tracked

\* What a sequence covers, its first rectangle or the rest does.
LEMMA HeadOrTail ==
  ASSUME NEW t \in Seq(Proper), t # <<>>
  PROVE  /\ Head(t) \in Rect /\ Tail(t) \in Seq(Proper)
         /\ \A p : Over(t, p) => In(p, Head(t)) \/ Over(Tail(t), p)
<1>1. /\ Len(t) \in Nat \ {0} /\ DOMAIN t = 1..Len(t)
      /\ Tail(t) \in Seq(Proper) /\ DOMAIN Tail(t) = 1..(Len(t) - 1)
      /\ \A i \in 1..(Len(t) - 1) : Tail(t)[i] = t[i + 1]
      /\ Head(t) = t[1] /\ Head(t) \in Proper
  BY OneLess
<1>2. ASSUME NEW p, Over(t, p), ~In(p, Head(t)) PROVE Over(Tail(t), p)
  <2>1. PICK i \in DOMAIN t : In(p, t[i])
    BY <1>2 DEF Over
  <2>2. i - 1 \in 1..(Len(t) - 1) /\ (i - 1) + 1 = i
    BY <1>1, <1>2, <2>1
  <2>3. In(p, Tail(t)[i - 1])
    BY <1>1, <2>1, <2>2
  <2> QED
    BY <1>1, <2>2, <2>3 DEF Over
<1> QED
  BY <1>1, <1>2 DEF Proper


LEMMA RenderTyped ==
  ASSUME Typed
  PROVE  /\ render.todo \in Seq(Proper) /\ render.todo \in Seq(Rect)
         /\ render.painted \in Rect /\ render.region \in Rect
<1>1. render.todo \in Seq(Proper) /\ \A i \in 1..Len(render.todo) : render.todo[i] \in Proper
  BY LenProperties, ElementOfSeq DEF Typed
<1>2. render.todo \in Seq(Rect)
  BY <1>1, SeqNarrows DEF Proper
<1> QED
  BY <1>1, <1>2 DEF Typed

LEMMA PaintRectStep ==
  ASSUME IInv, PaintRect
  PROVE  IInv'
<1> DEFINE h == Head(render.todo)
           t == Tail(render.todo)
           u == Unite(render.painted, h)
<1>1. /\ render.todo # <<>>
      /\ surfaceStale' = surfaceStale \ Pixels(h) /\ blitStale' = blitStale \ Pixels(h)
      /\ render' = [render EXCEPT !.todo = t, !.painted = u]
      /\ UNCHANGED <<damage, upload, firstFramePushed, screenStale, transit, lost,
                     changes, faults>>
  BY DEF PaintRect
<1>2. Typed /\ Idle /\ StaleInBox /\ Tracked
  BY DEF IInv
<1>3. h \in Rect /\ t \in Seq(Proper)
      /\ \A p : Over(render.todo, p) => In(p, h) \/ Over(t, p)
  BY <1>1, <1>2, RenderTyped, HeadOrTail
<1> HIDE DEF h, t
<1>4. u \in Rect /\ \A p \in Point : In(p, render.painted) \/ In(p, h) => In(p, u)
  BY <1>2, <1>3, RenderTyped, UniteCovers
<1> HIDE DEF u
<1>5. /\ render' \in [todo : Seq(Proper), painted : Rect, region : Rect,
                      probe : BOOLEAN, active : BOOLEAN]
      /\ render'.todo = t /\ render'.painted = u /\ render'.region = render.region
      /\ render'.active = render.active
  BY <1>1, <1>2, <1>3, <1>4 DEF Typed
<1>6. Typed'
  BY <1>1, <1>2, <1>5 DEF Typed
<1>7. Idle'
  <2>1. render.active
    BY <1>1, <1>2 DEF Idle, NoRender
  <2> QED
    BY <1>5, <2>1 DEF Idle
<1>8. StaleInBox'
  BY <1>1, <1>2 DEF StaleInBox
<1>9. ASSUME NEW p \in Pixel PROVE Backed(p)' /\ Shown(p)'
  <2>1. p \in Point /\ (p \in Pixels(h) <=> In(p, h)) /\ Backed(p) /\ Shown(p)
    BY <1>2, PixelsAre DEF Tracked
  <2>2. Backed(p)'
    BY <1>1, <1>3, <1>5, <2>1 DEF Backed
  <2>3. Awaited(p) => Awaited(p)'
    BY <1>1, <1>3, <1>4, <1>5, <2>1 DEF Awaited
  <2>4. Shown(p)'
    BY <1>1, <2>1, <2>3 DEF Shown
  <2> QED
    BY <2>2, <2>4
<1> QED
  BY <1>6, <1>7, <1>8, <1>9 DEF IInv, Tracked

\* A failed frame leaves what it had not painted in the damage again, and what it had
\* in the upload region.
LEMMA PaintFailsStep ==
  ASSUME IInv, PaintFails
  PROVE  IInv'
<1>1. /\ faults < MaxFaults /\ faults' = faults + 1
      /\ surfaceStale' \subseteq surfaceStale
      /\ damage' = AddAll(damage, render.todo)
      /\ upload' = Unite(Unite(upload, render.region), render.painted)
      /\ render' = NoRender
      /\ UNCHANGED <<firstFramePushed, blitStale, screenStale, transit, lost, changes>>
  BY DEF PaintFails, Fault, UploadAfterFailure
<1>2. Typed /\ StaleInBox /\ Tracked /\ damage \in Lists /\ upload \in Rect
  BY DEF IInv, Typed
<1>3. damage' \in Lists
      /\ \A p \in Point : Over(damage, p) \/ Over(render.todo, p) => Over(damage', p)
  BY <1>1, <1>2, RenderTyped, AddAllCovers
<1>4. upload' \in Rect
      /\ \A p \in Point : In(p, upload) \/ In(p, render.region) \/ In(p, render.painted)
                            => In(p, upload')
  <2> DEFINE w == Unite(upload, render.region)
  <2>1. w \in Rect /\ \A p \in Point : In(p, upload) \/ In(p, render.region) => In(p, w)
    BY <1>2, RenderTyped, UniteCovers
  <2>2. upload' = Unite(w, render.painted)
    BY <1>1
  <2> HIDE DEF w
  <2> QED
    BY <1>2, <2>1, <2>2, RenderTyped, UniteCovers
<1>5. Typed'
  <2>1. faults' \in 0..MaxFaults
    BY <1>1, <1>2, BoundAssumption DEF Typed
  <2> QED
    BY <1>1, <1>2, <1>3, <1>4, <2>1, NoRenderTyped DEF Typed
<1>6. Idle' /\ StaleInBox'
  BY <1>1, <1>2 DEF Idle, StaleInBox
<1>7. ASSUME NEW p \in Pixel PROVE Backed(p)' /\ Shown(p)'
  <2>1. p \in Point /\ Backed(p) /\ Shown(p)
    BY <1>2, PixelsAre DEF Tracked
  <2>2. Backed(p)'
    BY <1>1, <1>3, <2>1 DEF Backed
  <2>3. Awaited(p) => Awaited(p)'
    BY <1>1, <1>3, <1>4, <2>1 DEF Awaited
  <2>4. Shown(p)'
    BY <1>1, <2>1, <2>3 DEF Shown
  <2> QED
    BY <2>2, <2>4
<1> QED
  BY <1>5, <1>6, <1>7 DEF IInv, Tracked

-----------------------------------------------------------------------------
(* The frame is pushed *)

\* All that a rendered frame still owes is under its box, in the list or lost.
LEMMA RenderedOwes ==
  ASSUME IInv, Rendered
  PROVE  /\ DirtyBox \in Rect
         /\ \A p \in Pixel : /\ p \in surfaceStale \/ p \in blitStale => Over(damage, p)
                             /\ Awaited(p) => \/ Over(damage, p) \/ In(p, upload)
                                              \/ In(p, DirtyBox) \/ p \in lost
<1>1. Typed /\ Tracked /\ render.todo = <<>>
  BY DEF IInv, Rendered
<1>2. DirtyBox \in Rect
      /\ \A p \in Point : In(p, render.painted) \/ In(p, render.region) => In(p, DirtyBox)
  BY <1>1, RenderTyped, UniteCovers DEF DirtyBox
<1>3. \A p : ~Over(render.todo, p)
  BY <1>1 DEF Over
<1> QED
  BY <1>1, <1>2, <1>3, PixelsAre DEF Tracked, Backed, Awaited

LEMMA PushStep ==
  ASSUME IInv, Push
  PROVE  IInv'
<1> DEFINE e == [box |-> DirtyBox, stale |-> blitStale \cap Pixels(DirtyBox)]
<1>1. /\ Rendered /\ transit' = Append(transit, e) /\ lost' = lost \ Pixels(DirtyBox)
      /\ firstFramePushed' = TRUE /\ render' = NoRender
      /\ UNCHANGED <<damage, upload, surfaceStale, blitStale, screenStale, changes, faults>>
  BY DEF Push
<1>2. Typed /\ StaleInBox /\ Tracked /\ transit \in Seq(Posted)
  BY DEF IInv, Typed
<1>3. /\ DirtyBox \in Rect
      /\ \A p \in Pixel : /\ p \in surfaceStale \/ p \in blitStale => Over(damage, p)
                          /\ Awaited(p) => \/ Over(damage, p) \/ In(p, upload)
                                           \/ In(p, DirtyBox) \/ p \in lost
  BY <1>1, RenderedOwes
<1>4. e \in Posted /\ e.box = DirtyBox /\ e.stale = blitStale \cap Pixels(DirtyBox)
  BY <1>2, <1>3 DEF Posted, Typed
<1> HIDE DEF e
<1>5. /\ Len(transit) \in Nat /\ DOMAIN transit = 1..Len(transit)
      /\ transit' \in Seq(Posted) /\ DOMAIN transit' = 1..(Len(transit) + 1)
      /\ \A i \in 1..Len(transit) : transit'[i] = transit[i]
      /\ transit'[Len(transit) + 1] = e
  BY <1>1, <1>2, <1>4, OneMore
<1>6. Typed'
  BY <1>1, <1>2, <1>5, NoRenderTyped DEF Typed
<1>7. Idle'
  BY <1>1 DEF Idle
<1>8. StaleInBox'
  <2>1. ASSUME NEW i \in DOMAIN transit' PROVE transit'[i].stale \subseteq Pixels(transit'[i].box)
    <3>1. CASE i \in 1..Len(transit)
      BY <1>2, <1>5, <3>1 DEF StaleInBox
    <3>2. CASE i = Len(transit) + 1
      BY <1>4, <1>5, <3>2
    <3> QED
      BY <1>5, <3>1, <3>2
  <2> QED
    BY <2>1 DEF StaleInBox
<1>9. ASSUME NEW p \in Pixel PROVE Backed(p)' /\ Shown(p)'
  <2>1. p \in Point /\ (p \in Pixels(DirtyBox) <=> In(p, DirtyBox)) /\ Shown(p)
    BY <1>2, PixelsAre DEF Tracked
  <2>2. Backed(p)'
    BY <1>1, <1>3 DEF Backed
  <2>3. WrongAfter(p, screenStale, Append(transit, e)) =>
          IF In(p, DirtyBox) THEN p \in blitStale ELSE WrongAfter(p, screenStale, transit)
    BY <1>2, <1>4, PostedLast
  <2>4. WrongAfter(p, screenStale', transit') => Over(damage, p) \/ In(p, upload) \/ p \in lost'
    BY <1>1, <1>3, <2>1, <2>3 DEF Shown
  <2>5. Shown(p)'
    BY <1>1, <2>4 DEF Shown, Awaited
  <2> QED
    BY <2>2, <2>5
<1> QED
  BY <1>6, <1>7, <1>8, <1>9 DEF IInv, Tracked

\* A frame that is not pushed: no memory for its box, or the page's probe.
LEMMA NotPushedStep ==
  ASSUME IInv, PushNoMemory \/ Probe
  PROVE  IInv'
<1>1. /\ Rendered /\ render' = NoRender /\ firstFramePushed' \in BOOLEAN
      /\ lost \cup Pixels(DirtyBox) \subseteq lost' /\ lost' \subseteq Pixel
      /\ faults' \in 0..MaxFaults
      /\ UNCHANGED <<damage, upload, surfaceStale, blitStale, screenStale, transit, changes>>
  <2>1. /\ Pixels(DirtyBox) \subseteq Pixel /\ lost \subseteq Pixel
        /\ firstFramePushed \in BOOLEAN /\ faults \in 0..MaxFaults
    BY DEF IInv, Typed, Pixels
  <2>2. CASE PushNoMemory
    BY <2>1, <2>2, BoundAssumption DEF PushNoMemory, Fault, copies
  <2>3. CASE Probe
    <3>1. /\ Rendered /\ render' = NoRender /\ lost' = lost \cup Pixel
          /\ UNCHANGED <<damage, upload, firstFramePushed, surfaceStale, blitStale,
                         screenStale, transit, changes, faults>>
      BY <2>3 DEF Probe, copies
    <3> QED
      BY <2>1, <3>1
  <2> QED
    BY <2>2, <2>3
<1>2. Typed /\ StaleInBox /\ Tracked
  BY DEF IInv
<1>3. \A p \in Pixel : /\ p \in surfaceStale \/ p \in blitStale => Over(damage, p)
                       /\ Awaited(p) => \/ Over(damage, p) \/ In(p, upload)
                                        \/ In(p, DirtyBox) \/ p \in lost
  BY <1>1, RenderedOwes
<1>4. Typed'
  BY <1>1, <1>2, NoRenderTyped DEF Typed
<1>5. Idle' /\ StaleInBox'
  BY <1>1, <1>2 DEF Idle, StaleInBox
<1>6. ASSUME NEW p \in Pixel PROVE Backed(p)' /\ Shown(p)'
  <2>1. p \in Point /\ (p \in Pixels(DirtyBox) <=> In(p, DirtyBox)) /\ Shown(p)
    BY <1>2, PixelsAre DEF Tracked
  <2>2. Backed(p)'
    BY <1>1, <1>3 DEF Backed
  <2>3. Awaited(p) => Awaited(p)'
    BY <1>1, <1>3, <2>1 DEF Awaited
  <2>4. Shown(p)'
    BY <1>1, <2>1, <2>3 DEF Shown
  <2> QED
    BY <2>2, <2>4
<1> QED
  BY <1>4, <1>5, <1>6 DEF IInv, Tracked

LEMMA BlitStep ==
  ASSUME IInv, Blit
  PROVE  IInv'
<1> DEFINE h == Head(transit)
           s == (screenStale \ Pixels(h.box)) \cup h.stale
<1>1. /\ transit # <<>> /\ screenStale' = s /\ transit' = Tail(transit)
      /\ UNCHANGED <<damage, upload, firstFramePushed, render, surfaceStale, blitStale,
                     lost, changes, faults>>
  BY DEF Blit
<1>2. Typed /\ Idle /\ StaleInBox /\ Tracked /\ transit \in Seq(Posted)
  BY DEF IInv, Typed
<1>3. /\ DOMAIN transit = 1..Len(transit) /\ Len(transit) \in Nat \ {0}
      /\ Tail(transit) \in Seq(Posted) /\ DOMAIN Tail(transit) = 1..(Len(transit) - 1)
      /\ \A i \in 1..(Len(transit) - 1) : Tail(transit)[i] = transit[i + 1]
      /\ 1 \in DOMAIN transit /\ h = transit[1] /\ h \in Posted
  BY <1>1, <1>2, OneLess
<1>4. h.stale \subseteq Pixels(h.box) /\ h.stale \subseteq Pixel
  BY <1>2, <1>3 DEF StaleInBox, Posted
<1>5. Typed'
  BY <1>1, <1>2, <1>3, <1>4 DEF Typed
<1>6. Idle'
  BY <1>1, <1>2 DEF Idle
<1>7. StaleInBox'
  <2>1. \A i \in 1..(Len(transit) - 1) : i + 1 \in DOMAIN transit
    BY <1>3
  <2> QED
    BY <1>1, <1>2, <1>3, <2>1 DEF StaleInBox
<1>8. ASSUME NEW p \in Pixel PROVE Backed(p)' /\ Shown(p)'
  <2>1. Backed(p) /\ Shown(p)
    BY <1>2 DEF Tracked
  <2>2. Backed(p)'
    BY <1>1, <2>1 DEF Backed
  <2>3. WrongAfter(p, s, Tail(transit)) => WrongAfter(p, screenStale, transit)
    BY <1>1, <1>2, <1>4, BlittedFirst
  <2>4. Awaited(p)' <=> Awaited(p)
    BY <1>1 DEF Awaited
  <2> HIDE DEF s
  <2>5. Shown(p)'
    BY <1>1, <2>1, <2>3, <2>4 DEF Shown
  <2> QED
    BY <2>2, <2>5
<1> QED
  BY <1>5, <1>6, <1>7, <1>8 DEF IInv, Tracked

-----------------------------------------------------------------------------

LEMMA InputsAreRects ==
  /\ Reported \subseteq Rect /\ Views \subseteq Rect
  /\ \A d \in Deltas : d[1] \in Int /\ d[2] \in Int
<1>1. Reported \subseteq Rect
  BY FrameAssumption DEF Reported, Rect, RectOf
<1>2. Views \subseteq Rect
  BY FrameAssumption DEF Views, Frame, Rect, RectOf
<1>3. \A d \in Deltas : d[1] \in Int /\ d[2] \in Int
  BY BoundAssumption DEF Deltas
<1> QED
  BY <1>1, <1>2, <1>3

LEMMA StepHolds == IInv /\ [Next]_vars => IInv'
<1> SUFFICES ASSUME IInv, [Next]_vars PROVE IInv'
  OBVIOUS
<1>1. ASSUME NEW r \in Reported, Invalidate(r) PROVE IInv'
  BY <1>1, InputsAreRects, InvalidateStep
<1>2. ASSUME NEW v \in Views, ScrollUnsafe(v) PROVE IInv'
  BY <1>2, InputsAreRects, ScrollUnsafeStep
<1>3. ASSUME NEW v \in Views, NEW d \in Deltas, ScrollRepaints(v, d[1], d[2]) PROVE IInv'
  BY <1>3, InputsAreRects, ScrollRepaintsStep
<1>4. ASSUME NEW v \in Views, NEW d \in Deltas, ScrollBlit(v, d[1], d[2]) PROVE IInv'
  BY <1>4, InputsAreRects, ScrollBlitStep
<1>5. ASSUME BeginPush \/ BeginProbe PROVE IInv'
  BY <1>5, BeginRenderStep DEF BeginPush, BeginProbe
<1>6. CASE PaintRect
  BY <1>6, PaintRectStep
<1>7. CASE PaintFails
  BY <1>7, PaintFailsStep
<1>8. CASE Push
  BY <1>8, PushStep
<1>9. CASE PushNoMemory \/ Probe
  BY <1>9, NotPushedStep
<1>10. CASE Blit
  BY <1>10, BlitStep
<1>11. CASE UNCHANGED vars
  BY <1>11 DEF vars, copies, IInv, Typed, Idle, StaleInBox, Tracked, Backed, Shown, Awaited
<1> QED
  BY <1>1, <1>2, <1>3, <1>4, <1>5, <1>6, <1>7, <1>8, <1>9, <1>10, <1>11 DEF Next

\* The invariant the theorems rest on holds in every behaviour of bib_render, the
\* scroll blit and the page's canvas.
THEOREM Invariance == Spec => []IInv
<1>1. Init => IInv
  BY InitHolds
<1>2. IInv /\ [Next]_vars => IInv'
  BY StepHolds
<1> QED
  BY <1>1, <1>2, PTL DEF Spec

\* The damage list never outgrows g_damageRects, and every rectangle in it is one to
\* paint.
THEOREM TypeCorrect == Spec => []TypeOK
<1>1. IInv => TypeOK
  BY TypeOKIs DEF IInv
<1> QED
  BY <1>1, Invariance, PTL

\* No pixel that the surface, g_blitPixels or #screen has wrong is forgotten: whatever
\* the damage list merges, the scroll blit moves and a failed frame drops, it is queued,
\* being painted or on its way.
THEOREM MirrorsTrackedHolds == Spec => []MirrorsTracked
<1>1. IInv => MirrorsTracked
  BY TrackedIs DEF IInv
<1> QED
  BY <1>1, Invariance, PTL
=============================================================================
