----------------------------- MODULE Arrangement -----------------------------
(***************************************************************************)
(* Where the outputs are in the global space (arrangement.rs): a display   *)
(* dragged is placed beside the others (Snap), and when one changes size   *)
(* or goes, the others keep their places against those they touched        *)
(* (Reflow), the whole moved so that its corner is the origin (Normalize). *)
(* A rectangle is [x, y, w, h] in logical pixels.                          *)
(***************************************************************************)
EXTENDS Integers, Sequences, FiniteSets, TLC

CONSTANTS
  MIN_SHARED,   \* the shortest stretch of edge two displays touching share
  ALIGN         \* how near an edge a display dragged is drawn to it

EdgesAssumption == {MIN_SHARED, ALIGN} \subseteq Nat

Least(s) == CHOOSE n \in s : \A k \in s : n <= k
Most(s) == CHOOSE n \in s : \A k \in s : n >= k
Clamp(n, lo, hi) == IF n < lo THEN lo ELSE IF n > hi THEN hi ELSE n
\* Rust's division of a signed number by two.
Half(n) == IF n < 0 THEN -((-n) \div 2) ELSE n \div 2

Right(r) == r.x + r.w
Bottom(r) == r.y + r.h
At(x, y, size) == [x |-> x, y |-> y, w |-> size[1], h |-> size[2]]

Overlap(a, b) ==
  a.x < Right(b) /\ b.x < Right(a) /\ a.y < Bottom(b) /\ b.y < Bottom(a)

\* Whether two rectangles touch along an edge, sharing a stretch of it.
Touch(a, b) ==
  LET Shared(a0, a1, b0, b1) == Least({a1, b1}) - Most({a0, b0}) > 0
  IN \/ /\ Right(a) = b.x \/ Right(b) = a.x
        /\ Shared(a.y, Bottom(a), b.y, Bottom(b))
     \/ /\ Bottom(a) = b.y \/ Bottom(b) = a.y
        /\ Shared(a.x, Right(a), b.x, Right(b))

\* Where along an edge from start to end a display `length` long is, wanted at
\* `want`: over enough of it, aligned when near.
DrawnTo(free, aligned) ==
  LET near == {i \in DOMAIN aligned :
                 free - aligned[i] <= ALIGN /\ aligned[i] - free <= ALIGN}
  IN IF near = {} THEN free ELSE aligned[Least(near)]
Along(want, start, end, length) ==
  LET shared == Least({MIN_SHARED, length, end - start})
  IN DrawnTo(Clamp(want, start - length + shared, end - shared),
             <<start, end - length, start + Half(end - start - length)>>)

\* The four places beside another display, in the order they are tried.
FourPlaces(other, size, x, y) ==
  <<<<Right(other), y>>, <<other.x - size[1], y>>, <<x, Bottom(other)>>, <<x, other.y - size[2]>>>>
Beside(other, size, wanted) ==
  FourPlaces(other, size, Along(wanted[1], other.x, Right(other), size[1]),
             Along(wanted[2], other.y, Bottom(other), size[2]))

\* The nearest place to the one wanted beside one of the others and over none;
\* the first found of two as near.
Nearest(all, clear, wanted) ==
  LET Far(k) == (all[k][1] - wanted[1]) * (all[k][1] - wanted[1])
                  + (all[k][2] - wanted[2]) * (all[k][2] - wanted[2])
      nearest == {k \in clear : \A j \in clear : Far(k) <= Far(j)}
  IN IF nearest = {} THEN wanted ELSE all[Least(nearest)]
NearestClear(others, size, wanted, all) ==
  Nearest(all, {k \in DOMAIN all : \A i \in DOMAIN others :
                  ~Overlap(others[i], At(all[k][1], all[k][2], size))}, wanted)
Snap(others, size, wanted) ==
  NearestClear(others, size, wanted,
    [k \in 1 .. 4 * Len(others) |->
       Beside(others[(k + 3) \div 4], size, wanted)[((k - 1) % 4) + 1]])

\* Along one axis, with the anchor's span before, the moved one's, and the
\* anchor's now: aligned as it was (start, end, centre), else at its offset.
Keep(a, m, n, length) ==
  IF m[1] = a[1] THEN n[1]
  ELSE IF m[2] = a[2] THEN n[2] - length
  ELSE IF m[1] + m[2] = a[1] + a[2] THEN Half(n[1] + n[2] - length)
  ELSE n[1] + (m[1] - a[1])

\* Where `moved` (of `size` now) goes against `anchor` (now `now`): on the side
\* it was.
OnItsSide(anchor, moved, now, size, x, y) ==
  CASE moved.x = Right(anchor) -> <<Right(now), y>>
    [] moved.x # Right(anchor) /\ Right(moved) = anchor.x -> <<now.x - size[1], y>>
    [] moved.x # Right(anchor) /\ Right(moved) # anchor.x
         /\ moved.y = Bottom(anchor) -> <<x, Bottom(now)>>
    [] OTHER -> <<x, now.y - size[2]>>
Against(anchor, moved, now, size) ==
  LET Rows(r) == <<r.y, Bottom(r)>>
      Columns(r) == <<r.x, Right(r)>>
  IN OnItsSide(anchor, moved, now, size,
               Keep(Columns(anchor), Columns(moved), Columns(now), size[1]),
               Keep(Rows(anchor), Rows(moved), Rows(now), size[2]))

\* From the primary (the first) outwards: each display touching one already
\* placed keeps its place against the first such.
Anchors(made, before, j) == {k \in DOMAIN made.order : Touch(before[made.order[k]], before[j])}
PutAt(made, j, to, size) ==
  [order |-> Append(made.order, j),
   placed |-> [k \in DOMAIN made.placed \cup {j} |->
                 IF k = j THEN At(to[1], to[2], size) ELSE made.placed[k]]]
PutAgainst(made, before, sizes, j, i) ==
  PutAt(made, j, Against(before[i], before[j], made.placed[i], sizes[j]), sizes[j])
PutNext(made, before, sizes, next) ==
  IF next = {} THEN made
  ELSE PutAgainst(made, before, sizes, Least(next),
                  made.order[Least(Anchors(made, before, Least(next)))])
Outwards(before, sizes) ==
  LET made[n \in 0 .. Len(before)] ==
        IF n = 0 THEN [order |-> <<1>>,
                       placed |-> [k \in {1} |-> At(before[1].x, before[1].y, sizes[1])]]
        ELSE PutNext(made[n - 1], before, sizes,
               {j \in DOMAIN before \ DOMAIN made[n - 1].placed : Anchors(made[n - 1], before, j) # {}})
  IN made[Len(before)]

\* Where outputs go once their sizes change: one that would cover another, or
\* touched none, is placed beside the others.
ClearOf(others, rect) == \A k \in DOMAIN others : ~Overlap(others[k], rect)
PlaceNear(done, size, to) == Append(done, At(to[1], to[2], size))
Place(done, kept, at, size) ==
  IF done = <<>> \/ (kept /\ ClearOf(done, At(at.x, at.y, size)))
  THEN PlaceNear(done, size, <<at.x, at.y>>)
  ELSE PlaceNear(done, size, Snap(done, size, <<at.x, at.y>>))
PlaceInOrder(before, sizes, placed, order) ==
  LET done[n \in 0 .. Len(order)] ==
        IF n = 0 THEN <<>>
        ELSE Place(done[n - 1], order[n] \in DOMAIN placed,
                   (placed @@ before)[order[n]], sizes[order[n]])
  IN [j \in DOMAIN before |-> done[Len(order)][CHOOSE k \in DOMAIN order : order[k] = j]]
ReflowOutwards(before, sizes, made) ==
  PlaceInOrder(before, sizes, made.placed,
    made.order \o SelectSeq([k \in DOMAIN before |-> k], LAMBDA k : k \notin DOMAIN made.placed))
Reflow(before, sizes) == ReflowOutwards(before, sizes, Outwards(before, sizes))

\* The same rectangles with the arrangement's top-left corner at the origin.
Normalize(rects) ==
  LET left == Least({rects[i].x : i \in DOMAIN rects})
      top == Least({rects[i].y : i \in DOMAIN rects})
  IN [i \in DOMAIN rects |-> [rects[i] EXCEPT !.x = @ - left, !.y = @ - top]]
=============================================================================
