------------------------------- MODULE Tracks -------------------------------
(***************************************************************************)
(* The geometry of boxes (security/geometry.py) and the tracks of the      *)
(* subjects of a clip (security/tracks.py).                                *)
(*                                                                         *)
(* A box is <<x1, y1, x2, y2>> in whole pixels, y downwards.  Distances are*)
(* kept as squares, in quarter pixels where depth is weighed by 2.5.       *)
(***************************************************************************)
EXTENDS Integers, Sequences, FiniteSets, FiniteSetsExt, SequencesExt

FrameWidth == 40
FrameHeight == 24

Foot(box) == <<(box[1] + box[3]) \div 2, box[4]>>
Area(box) == Max({0, box[3] - box[1]}) * Max({0, box[4] - box[2]})
Height(box) == box[4] - box[2]

LOCAL Apart(a1, a2, b1, b2) == Max({b1 - a2, a1 - b2, 0})
LOCAL Shared(a1, a2, b1, b2) == Min({a2, b2}) - Max({a1, b1})

(* Minus the depth of the overlap, or the squared distance.                *)
BoxGap(a, b) ==
    LET dx == Apart(a[1], a[3], b[1], b[3])
        dy == Apart(a[2], a[4], b[2], b[4])
    IN IF dx = 0 /\ dy = 0
         THEN -Min({Shared(a[1], a[3], b[1], b[3]), Shared(a[2], a[4], b[2], b[4])})
         ELSE dx * dx + dy * dy

Intersection(a, b) ==
    Max({0, Shared(a[1], a[3], b[1], b[3])}) * Max({0, Shared(a[2], a[4], b[2], b[4])})

(* Where the feet are from the asset's base, four times the square.        *)
GroundGap(subject, asset) ==
    LET f  == Foot(subject)
        dx == Max({asset[1] - f[1], f[1] - asset[3], 0})
        dy == f[2] - asset[4]
    IN 4 * dx * dx + 25 * dy * dy

TouchesFrameEdge(box) ==
    \/ 100 * box[1] <= FrameWidth
    \/ 100 * box[3] >= 99 * FrameWidth
    \/ 100 * box[4] >= 99 * FrameHeight

(* A rectangular zone: the feet in it, or a quarter of the body.           *)
InZone(box, zone) ==
    \/ Foot(box)[1] \in zone[1]..zone[3] /\ Foot(box)[2] \in zone[2]..zone[4]
    \/ 4 * Intersection(box, zone) >= Area(box)

-----------------------------------------------------------------------------
(* A track is a label, an id, whether the tracker gave it that id, and its *)
(* points in the order of their frames; an offset is frame * interval.     *)
Boxes(t) == [i \in DOMAIN t.points |-> t.points[i].box]
FrameOf(t, i) == t.points[i].frame
LastPoint(t) == t.points[Len(t.points)]
Offset(t, i, interval) == FrameOf(t, i) * interval
Dwell(t, interval) == (LastPoint(t).frame - t.points[1].frame) * interval
Sightings(t) == Cardinality({FrameOf(t, i) : i \in DOMAIN t.points})

Membership(t, zone) == [i \in DOMAIN t.points |-> InZone(t.points[i].box, zone)]
EverInZone(t, zone) == \E i \in DOMAIN t.points : Membership(t, zone)[i]
Inside(t, zone) == {i \in DOMAIN t.points : Membership(t, zone)[i]}
ZoneDwell(t, zone, interval) ==
    IF Inside(t, zone) = {} THEN 0
    ELSE (FrameOf(t, Max(Inside(t, zone))) - FrameOf(t, Min(Inside(t, zone)))) * interval

(* Runs of consecutive sightings inside.                                   *)
Entries(t, zone) ==
    Cardinality({i \in Inside(t, zone) : i = 1 \/ ~Membership(t, zone)[i - 1]})

(* approach_to: the closest the feet came, the closest the outline came,   *)
(* and whether a quarter of the distance was closed or opened.             *)
Profile(ground, box) ==
    LET least   == Min(Range(ground))
        last    == ground[Len(ground)]
        closest == CHOOSE i \in DOMAIN box :
                       /\ \A j \in DOMAIN box : box[i] <= box[j]
                       /\ \A j \in 1..(i - 1) : box[i] < box[j]
    IN [minGap     |-> least,
        minAt      |-> Min({i \in DOMAIN ground : ground[i] = least}),
        approached |-> ground[1] > 0 /\ 16 * least <= 9 * ground[1],
        retreated  |-> last > 0 /\ 16 * least <= 9 * last,
        boxGap     |-> box[closest],
        closest    |-> closest]

ApproachTo(t, target) ==
    Profile([i \in 1..Len(t.points) |-> GroundGap(t.points[i].box, target)],
            [i \in 1..Len(t.points) |-> BoxGap(t.points[i].box, target)])

(* The length of a leg in whole pixels, rounded down.                      *)
Leg(t, i) ==
    LET a == Foot(t.points[i].box)  b == Foot(t.points[i + 1].box)
        square == (b[1] - a[1]) * (b[1] - a[1]) + (b[2] - a[2]) * (b[2] - a[2])
    IN CHOOSE n \in 0..(FrameWidth + FrameHeight) : n * n <= square /\ square < (n + 1) * (n + 1)

(* A sharp acceleration at the target: 1.2 heights a second faster than on *)
(* the leg before.                                                         *)
SharpAt(t, target, interval) ==
    \E k \in 2..(Len(t.points) - 1) :
        LET dt(i) == (FrameOf(t, i + 1) - FrameOf(t, i)) * interval
            tall  == Max({Height(t.points[i].box) : i \in DOMAIN t.points})
        IN /\ \E i \in {k - 1, k, k + 1} : BoxGap(t.points[i].box, target) <= 0
           /\ 10 * (Leg(t, k) * dt(k - 1) - Leg(t, k - 1) * dt(k))
                >= 12 * tall * dt(k) * dt(k - 1)

(* 0.35 of the frame's width, all legs together.                           *)
Stationary(t) ==
    100 * MapThenSumSet(LAMBDA i : Leg(t, i), 1..(Len(t.points) - 1)) <= 35 * FrameWidth

-----------------------------------------------------------------------------
(* build_tracks.  A detection is a label, a box, a frame and the tracker's *)
(* id, 0 when it gave none: those are chained by overlap, to the best of   *)
(* the open tracks of their label last seen one or two frames ago.         *)
MaxFrameGap == 2

LOCAL Open(chains, d) == {k \in DOMAIN chains : chains[k][1].label = d.label}

Candidates(chains, d) ==
    {k \in Open(chains, d) : d.frame - Last(chains[k]).frame \in 1..MaxFrameGap}

(* Intersection over union of two boxes, compared as a fraction.           *)
LOCAL Union(a, b) == Area(a) + Area(b) - Intersection(a, b)
Overlaps(a, b) == 10 * Intersection(a, b) >= 3 * Union(a, b)
Better(d, a, b) ==
    Intersection(d, a) * Union(d, b) >= Intersection(d, b) * Union(d, a)

Chain(chains, d) ==
    LET fits == {k \in Candidates(chains, d) : Overlaps(d.box, Last(chains[k]).box)}
        best == CHOOSE k \in fits :
                    \A j \in fits \ {k} :
                        /\ Better(d.box, Last(chains[k]).box, Last(chains[j]).box)
                        /\ Better(d.box, Last(chains[j]).box, Last(chains[k]).box) => j < k
    IN IF fits = {} THEN Append(chains, <<d>>)
       ELSE [chains EXCEPT ![best] = Append(@, d)]

AssociateUntracked(detections) == FoldLeft(Chain, <<>>, detections)

BuildTracks(detections) ==
    {[tracked |-> TRUE, points |-> SelectSeq(detections, LAMBDA d : <<d.id, d.label>> = key)] :
        key \in {<<d.id, d.label>> : d \in {d \in ToSet(detections) : d.id # 0}}}
    \cup {[tracked |-> FALSE, points |-> c] :
        c \in ToSet(AssociateUntracked(SelectSeq(detections, LAMBDA d : d.id = 0)))}

-----------------------------------------------------------------------------
(* Three detections in up to four frames, in the order of their frames;    *)
(* the tracker gives an id to one object of a label in a frame, and the    *)
(* detector reports no box twice.                                          *)
Sighting(label, at, frame, id) ==
    [label |-> label, box |-> <<at, 8, at + 4, 16>>, frame |-> frame, id |-> id]

Footage ==
    {s \in [1..3 -> {Sighting(l, at, f, id) :
                        l \in {"person", "dog"}, at \in {4, 5, 7}, f \in {0, 1, 3},
                        id \in {0, 1}}] :
        /\ \A i \in 1..2 : s[i].frame <= s[i + 1].frame
        /\ \A i, j \in 1..3 :
              /\ s[i].frame = s[j].frame
              /\ s[i].id = s[j].id
              /\ s[i].label = s[j].label
              /\ s[i].id = 0 => s[i].box = s[j].box
              => i = j}

(* Every detection is in one track, a track is of one label, and no track  *)
(* made by overlap is two places at once or skips more than a frame.       *)
OneSubjectPerTrack(s) ==
    LET tracks == BuildTracks(s) IN
    /\ \A i \in DOMAIN s : Cardinality({t \in tracks : s[i] \in ToSet(t.points)}) = 1
    /\ \A t \in tracks :
          /\ Cardinality({d.label : d \in ToSet(t.points)}) = 1
          /\ t.tracked \/ \A i \in 1..(Len(t.points) - 1) :
                t.points[i + 1].frame - t.points[i].frame \in 1..MaxFrameGap
=============================================================================
