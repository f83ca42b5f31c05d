---------------------------- MODULE ZoneGeometry ----------------------------
(***************************************************************************)
(* How much of a box a drawn zone covers (security/geometry.py): the       *)
(* shoelace area of the zone's ring clipped to the box, side by side, with *)
(* a ray cast for points and the plain box arithmetic for rectangles.      *)
(*                                                                         *)
(* Corners lie on a small grid.  Coordinates are in twelfths of a grid step, *)
(* so that every crossing of an edge with a grid line is exact.            *)
(***************************************************************************)
EXTENDS Integers, Sequences, FiniteSets, FiniteSetsExt, Functions

Step == 12
Magnitude(n) == IF n < 0 THEN -n ELSE n
Scaled(ring) == [i \in DOMAIN ring |-> <<Step * ring[i][1], Step * ring[i][2]>>]
Corner(x, y) == <<Step * x, Step * y>>
BoxAt(x1, y1, x2, y2) == <<Step * x1, Step * y1, Step * x2, Step * y2>>

Before(ring, i) == ring[IF i = 1 THEN Len(ring) ELSE i - 1]
Cross(p, q) == p[1] * q[2] - q[1] * p[2]

(* Twice the area: the sign, which is the winding, is dropped.             *)
PolygonArea2(ring) ==
    IF Len(ring) < 3 THEN 0
    ELSE Magnitude(MapThenSumSet(LAMBDA i : Cross(Before(ring, i), ring[i]), DOMAIN ring))

(* Where an edge whose ends are on opposite sides meets the line.          *)
EdgeCrossing(a, b, axis, limit) ==
    LET low == IF a[axis] < b[axis] THEN a ELSE b
        high == IF a[axis] < b[axis] THEN b ELSE a
        at(k) == low[k] + ((high[k] - low[k]) * (limit - low[axis])) \div (high[axis] - low[axis])
    IN <<at(1), at(2)>>

(* One Sutherland-Hodgman pass.                                            *)
ClipToHalfPlane(ring, axis, limit, greater) ==
    LET inside(p) == IF greater THEN p[axis] >= limit ELSE p[axis] <= limit
        kept(i) ==
            (IF inside(Before(ring, i)) # inside(ring[i])
               THEN <<EdgeCrossing(Before(ring, i), ring[i], axis, limit)>> ELSE <<>>)
            \o (IF inside(ring[i]) THEN <<ring[i]>> ELSE <<>>)
        first[i \in 0..Len(ring)] == IF i = 0 THEN <<>> ELSE first[i - 1] \o kept(i)
    IN first[Len(ring)]

ClipPolygonToBox(ring, box) ==
    IF box[3] <= box[1] \/ box[4] <= box[2] \/ Len(ring) < 3 THEN <<>>
    ELSE ClipToHalfPlane(ClipToHalfPlane(ClipToHalfPlane(ClipToHalfPlane(
             ring, 1, box[1], TRUE), 1, box[3], FALSE), 2, box[2], TRUE), 2, box[4], FALSE)

Crosses(p, a, b) == (a[2] > p[2]) # (b[2] > p[2])

(* The parity of the edges a ray to the right of the point meets.          *)
PointInPolygon(p, ring) ==
    LET meets(a, b) ==
            /\ Crosses(p, a, b)
            /\ IF b[2] > a[2] THEN (p[1] - a[1]) * (b[2] - a[2]) < (b[1] - a[1]) * (p[2] - a[2])
               ELSE (p[1] - a[1]) * (b[2] - a[2]) > (b[1] - a[1]) * (p[2] - a[2])
    IN Cardinality({i \in DOMAIN ring : meets(ring[i], Before(ring, i))}) % 2 = 1

Positive(n) == IF n > 0 THEN n ELSE 0
BoxArea(box) == Positive(box[3] - box[1]) * Positive(box[4] - box[2])
BoxIntersectionArea(a, b) ==
    Positive(Min({a[3], b[3]}) - Max({a[1], b[1]})) * Positive(Min({a[4], b[4]}) - Max({a[2], b[2]}))

(* A zone: a ring, or the bounds of a rectangle; a ring that measures as   *)
(* nothing falls back to its bounds.                                       *)
Rectangle(box) == [points |-> <<>>, bounds |-> box]
BoundsOf(ring) ==
    LET side(k) == {ring[i][k] : i \in DOMAIN ring}
    IN <<Min(side(1)), Min(side(2)), Max(side(1)), Max(side(2))>>
Lasso(ring) == [points |-> ring, bounds |-> BoundsOf(ring)]
Traced(zone) == zone.points # <<>> /\ PolygonArea2(zone.points) > 0

(* Twice the part of the box inside the zone.                              *)
Covered2(zone, box) ==
    IF Traced(zone) THEN PolygonArea2(ClipPolygonToBox(zone.points, box))
    ELSE 2 * BoxIntersectionArea(box, zone.bounds)

(* Fractions <<part, whole>>, at most one.                                 *)
CappedShare(part, whole) == IF whole <= 0 THEN <<0, 1>> ELSE <<Min({part, whole}), whole>>
CoveredShareOf(zone, box) == CappedShare(Covered2(zone, box), 2 * BoxArea(box))
OverlapWithBox(zone, box) ==
    LET own == IF Traced(zone) THEN PolygonArea2(zone.points) ELSE 2 * BoxArea(zone.bounds)
    IN CappedShare(Covered2(zone, box), Min({2 * BoxArea(box), own}))

-----------------------------------------------------------------------------
(* Simple rings: triangles and quadrilaterals whose opposite sides do not  *)
(* meet.                                                                   *)
Grid == (0..3) \X (0..2)
Triangles == {r \in [1..3 -> Grid] : PolygonArea2(r) > 0}
Side(p, q, r) == (q[1] - p[1]) * (r[2] - p[2]) - (q[2] - p[2]) * (r[1] - p[1])
Meet(p, q, r, s) ==
    /\ Side(p, q, r) * Side(p, q, s) <= 0 /\ Side(r, s, p) * Side(r, s, q) <= 0
Quadrilaterals ==
    {r \in [1..4 -> {g \in Grid : g[1] <= 2}] :
        ~Meet(r[1], r[2], r[3], r[4]) /\ ~Meet(r[2], r[3], r[4], r[1])}
Rings == Triangles \cup Quadrilaterals

(* However a box is cut in two, the parts of the zone in the halves add up *)
(* to the part in the whole: no area is lost or counted twice.             *)
SharesAddUp(ring) ==
    LET in(x1, y1, x2, y2) == Covered2(Lasso(Scaled(ring)), BoxAt(x1, y1, x2, y2))
    IN /\ in(0, 0, 3, 2) = PolygonArea2(Scaled(ring))
       /\ \A cut \in 1..2 : in(0, 0, cut, 2) + in(cut, 0, 3, 2) = in(0, 0, 3, 2)
       /\ \A x \in 0..2 : in(x, 0, x + 1, 1) + in(x, 1, x + 1, 2) = in(x, 0, x + 1, 2)

(* The two readings of one outline agree: a square that is covered         *)
(* altogether has its middle inside, one that is not covered at all has    *)
(* not, and the middle may be level with a corner of the zone.             *)
InsideMeansCovered(ring) ==
    \A x \in 0..4, y \in 0..2 :
        LET half == Step \div 2
            share == CoveredShareOf(Lasso(Scaled(ring)),
                                    <<half * x, half * y, half * x + Step, half * y + Step>>)
            inside == PointInPolygon(<<half * (x + 1), half * (y + 1)>>, Scaled(ring))
        IN (share[1] = share[2] => inside) /\ (share[1] = 0 => ~inside)

(* A traced rectangle is measured exactly as a drawn one.                  *)
Rectangles == {b \in (0..2) \X (0..1) \X (1..3) \X (1..2) : b[1] < b[3] /\ b[2] < b[4]}
Trace(b, first, back) ==
    LET corners == <<Corner(b[1], b[2]), Corner(b[3], b[2]), Corner(b[3], b[4]), Corner(b[1], b[4])>>
    IN [i \in 1..4 |-> corners[(((IF back THEN 4 - i ELSE i) + first) % 4) + 1]]
TracedOrDrawn(b) ==
    LET drawn == Rectangle(BoxAt(b[1], b[2], b[3], b[4]))
    IN \A other \in Rectangles, first \in 0..3, back \in BOOLEAN :
        LET traced == Lasso(Trace(b, first, back))
            box == BoxAt(other[1], other[2], other[3], other[4])
        IN /\ CoveredShareOf(traced, box) = CoveredShareOf(drawn, box)
           /\ OverlapWithBox(traced, box) = OverlapWithBox(drawn, box)
=============================================================================
