----------------------------- MODULE DamageList -----------------------------
(***************************************************************************)
(* The damage list of BibPageClients.h and its translation by a scroll.    *)
(*                                                                         *)
(* A rectangle is half-open, left <= x < right and top <= y < bottom, and  *)
(* the empty one is NoRect.  The list holds at most MaxRects rectangles    *)
(* and may only ever repaint too much: covering what it was told is what   *)
(* everything on screen depends on.                                        *)
(***************************************************************************)
EXTENDS Integers, SequencesExt

CONSTANT MaxRects   \* kMaxDamageRects

ASSUME MaxRectsAssumption == MaxRects \in Nat \ {0}

Rect == [left : Int, top : Int, right : Int, bottom : Int]

RectOf(l, t, r, b) == [left |-> l, top |-> t, right |-> r, bottom |-> b]
NoRect == RectOf(0, 0, 0, 0)

Width(r) == r.right - r.left
Height(r) == r.bottom - r.top
Area(r) == Width(r) * Height(r)
IsEmpty(r) == Width(r) <= 0 \/ Height(r) <= 0

Covers(r, s) ==
  /\ r.left <= s.left /\ s.right <= r.right
  /\ r.top <= s.top /\ s.bottom <= r.bottom

Overlaps(r, s) ==
  /\ ~IsEmpty(r) /\ ~IsEmpty(s)
  /\ r.left < s.right /\ s.left < r.right
  /\ r.top < s.bottom /\ s.top < r.bottom

Lower(a, b) == IF a <= b THEN a ELSE b
Upper(a, b) == IF a <= b THEN b ELSE a

Intersection(r, s) ==
  IF Overlaps(r, s)
  THEN RectOf(Upper(r.left, s.left), Upper(r.top, s.top),
              Lower(r.right, s.right), Lower(r.bottom, s.bottom))
  ELSE NoRect

\* IntRect::unite: the bounding box, an empty rectangle adding nothing.
Unite(r, s) ==
  IF IsEmpty(s) THEN r
  ELSE IF IsEmpty(r) THEN s
  ELSE RectOf(Lower(r.left, s.left), Lower(r.top, s.top),
              Upper(r.right, s.right), Upper(r.bottom, s.bottom))

Moved(r, dx, dy) ==
  RectOf(r.left + dx, r.top + dy, r.right + dx, r.bottom + dy)

-----------------------------------------------------------------------------
\* The slots a rectangle overlaps, or is covered by.
Touching(list, rect) ==
  {i \in DOMAIN list : Covers(list[i], rect) \/ Overlaps(list[i], rect)}

Growth(r, rect) == Area(Unite(r, rect)) - Area(r)

\* The first slot whose union with the rectangle grows least.
BestSlot(list, rect) ==
  CHOOSE i \in DOMAIN list :
    \A j \in DOMAIN list : \/ Growth(list[i], rect) < Growth(list[j], rect)
                           \/ Growth(list[i], rect) = Growth(list[j], rect) /\ i <= j

Merge(list, i, rect) == [list EXCEPT ![i] = Unite(list[i], rect)]

AddDamageOneTooMany(list, rect) ==
  IF IsEmpty(rect) \/ Touching(list, rect) # {} THEN list ELSE Append(list, rect)
\* addDamage: merge into the first slot that touches, else take a free slot,
\* else merge where it costs least.
AddDamage(list, rect) ==
  IF IsEmpty(rect) THEN list
  ELSE IF Touching(list, rect) # {}
       THEN LET i == CHOOSE k \in Touching(list, rect) :
                       \A j \in Touching(list, rect) : k <= j
            IN IF Covers(list[i], rect) THEN list ELSE Merge(list, i, rect)
  ELSE IF Len(list) < MaxRects THEN Append(list, rect)
  ELSE Merge(list, BestSlot(list, rect), rect)

AddAll(list, rects) ==
  LET after[n \in 0..Len(rects)] ==
        IF n = 0 THEN list ELSE AddDamage(after[n - 1], rects[n])
  IN after[Len(rects)]

-----------------------------------------------------------------------------
TranslatedOnly(r, scrollRect, dst, dx, dy) ==
  LET moving == Intersection(r, scrollRect)
      moved  == Intersection(Moved(moving, dx, dy), dst)
  IN IF IsEmpty(moving) THEN <<r>>
     ELSE IF IsEmpty(moved) THEN <<>> ELSE <<moved>>
\* bibScrollBlit, for one pending rectangle while scrollRect moves by (dx, dy)
\* into dst: outside it stays, inside it moves along, and where it straddles
\* the edge it does both.
Translated(r, scrollRect, dst, dx, dy) ==
  LET moving == Intersection(r, scrollRect)
      moved  == Intersection(Moved(moving, dx, dy), dst)
  IN IF IsEmpty(moving) THEN <<r>>
     ELSE (IF moving # r THEN <<r>> ELSE <<>>)
          \o (IF IsEmpty(moved) THEN <<>> ELSE <<moved>>)

TranslatedDamage(list, scrollRect, dst, dx, dy) ==
  AddAll(<<>>, FlattenSeq([i \in DOMAIN list |->
                             Translated(list[i], scrollRect, dst, dx, dy)]))

\* The strips of scrollRect a shift by (dx, dy) exposes.
ExposedStrips(r, dx, dy) ==
  (IF dy > 0 THEN <<RectOf(r.left, r.top, r.right, r.top + dy)>>
   ELSE IF dy < 0 THEN <<RectOf(r.left, r.bottom + dy, r.right, r.bottom)>>
   ELSE <<>>)
  \o
  (IF dx > 0 THEN <<RectOf(r.left, r.top, r.left + dx, r.bottom)>>
   ELSE IF dx < 0 THEN <<RectOf(r.right + dx, r.top, r.right, r.bottom)>>
   ELSE <<>>)
=============================================================================
