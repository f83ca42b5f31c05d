---------------------------- MODULE FacePicking ----------------------------
(***************************************************************************)
(* What the Biometrics tab makes of the faces a scan found                 *)
(* (face_enrollment.py): near-identical shots are hidden, the rest grouped *)
(* by apparent person, each is matched against the people already enrolled,*)
(* and the enrolled photos are reviewed for the two mistakes worth showing.*)
(*                                                                         *)
(* An embedding is one of a few unit vectors of the plane, in 25ths, whose *)
(* cosines fall between all the thresholds of the code.                    *)
(***************************************************************************)
EXTENDS Integers, Sequences, FiniteSets, SequencesExt

Vectors == {<<25, 0>>, <<20, 15>>, <<15, 20>>, <<7, 24>>, <<0, 25>>}
Dot(a, b) == a[1] * b[1] + a[2] * b[2]
Plus(a, b) == <<a[1] + b[1], a[2] + b[2]>>

NearDuplicate == 2375   \* _NEAR_DUPLICATE_SIMILARITY, in 2500ths
Group         == 1800   \* _GROUP_SIMILARITY
Match         == 1875   \* _FACE_MATCH_THRESHOLD

Similarity(a, b) == 4 * Dot(a, b)

(* sorted(..., key=-quality): best first, equals in their order.           *)
BestFirst(faces) ==
    SetToSortSeq(DOMAIN faces, LAMBDA i, j :
        \/ faces[i].quality > faces[j].quality
        \/ faces[i].quality = faces[j].quality /\ i < j)

-----------------------------------------------------------------------------

SuppressNearDuplicates(faces) ==
    FoldLeft(LAMBDA kept, i :
        IF \E k \in ToSet(kept) : Similarity(faces[k].vector, faces[i].vector) >= NearDuplicate
          THEN kept ELSE Append(kept, i), <<>>, BestFirst(faces))

-----------------------------------------------------------------------------
(* Groups.  A face's cosine with a group's sum s is Dot(v, s) / (25 |s|):  *)
(* it is compared with Group by squares, 0.72 being 18/25.                                           *)
SumOf(faces, group) == FoldLeft(LAMBDA s, i : Plus(s, faces[i].vector), <<0, 0>>, group)

Closer(v, s, t) ==   \* v is at least as close to s as to t
    Dot(v, s) * Dot(v, s) * Dot(t, t) >= Dot(v, t) * Dot(v, t) * Dot(s, s)

Joins(faces, group, i) ==
    LET s == SumOf(faces, group)
        d == Dot(faces[i].vector, s)
    IN d >= 0 /\ d * d >= 18 * 18 * Dot(s, s)

(* The closest group, the later one of two equally close.                  *)
Place(faces, groups, i) ==
    LET s(g) == SumOf(faces, groups[g])
        v    == faces[i].vector
        best == CHOOSE g \in DOMAIN groups :
                   \A h \in DOMAIN groups \ {g} :
                      Closer(v, s(g), s(h)) /\ (Closer(v, s(h), s(g)) => h <= g)
    IN IF groups # <<>> /\ Joins(faces, groups[best], i)
         THEN [groups EXCEPT ![best] = Append(@, i)]
         ELSE Append(groups, <<i>>)

GroupsInOrder(faces) ==
    FoldLeft(LAMBDA gs, i : Place(faces, gs, i), <<>>, BestFirst(faces))

(* Biggest first; equal ones in their order.                               *)
GroupCandidates(faces) ==
    LET gs == GroupsInOrder(faces)
        order == SetToSortSeq(DOMAIN gs, LAMBDA g, h :
                    \/ Len(gs[g]) > Len(gs[h])
                    \/ Len(gs[g]) = Len(gs[h]) /\ g < h)
    IN [k \in DOMAIN order |-> gs[order[k]]]

-----------------------------------------------------------------------------
(* Matching a face against the enrolled photos: the loop clip analysis uses*)
(* (vision/faces.py) and the picker's row maximum.  0 is nobody.           *)
ClosestInLoop(face, photos) ==
    FoldLeft(LAMBDA best, j :
        IF Similarity(face, photos[j].vector)
             >= (IF best = 0 THEN Match ELSE Similarity(face, photos[best].vector))
          THEN j ELSE best, 0, [j \in DOMAIN photos |-> j])

Best(face, photos, js) ==
    {j \in js : \A k \in js : Similarity(face, photos[j].vector)
                                >= Similarity(face, photos[k].vector)}

\* Mutant: numpy's argmax of the row as it is.
FirstOfEqual(face, photos) ==
    IF photos = <<>> THEN 0
    ELSE LET j == CHOOSE j \in Best(face, photos, DOMAIN photos) :
                      \A k \in Best(face, photos, DOMAIN photos) : j <= k
         IN IF Similarity(face, photos[j].vector) >= Match THEN j ELSE 0

MatchCandidate(face, photos) ==
    IF photos = <<>> THEN 0
    ELSE LET j == CHOOSE j \in Best(face, photos, DOMAIN photos) :
                      \A k \in Best(face, photos, DOMAIN photos) : k <= j
         IN IF Similarity(face, photos[j].vector) >= Match THEN j ELSE 0

(* The review of photo i.                                                  *)
Other(photos, i) == {j \in DOMAIN photos : photos[j].name # photos[i].name}

AlsoMatches(photos, i) ==
    {j \in Best(photos[i].vector, photos, Other(photos, i)) :
        Similarity(photos[i].vector, photos[j].vector) >= Match}

-----------------------------------------------------------------------------
(* A scan of three faces; a photo to review or a face to match with up to  *)
(* three photos.                                                           *)
Scans  == [1..3 -> [vector : Vectors, quality : {1, 2}]]
Photo  == [vector : Vectors, name : {"amy", "bob"}]
Albums == UNION {[1..n -> Photo] : n \in 0..3}

(* The best face is always shown, what is hidden has a twin at least as    *)
(* good that is shown, and no two shown faces are twins                    *)
(* (suppress_near_duplicates).                                             *)
HiddenHaveTwins(scan) ==
    LET kept == ToSet(SuppressNearDuplicates(scan))
        twins(i, j) == Similarity(scan[i].vector, scan[j].vector) >= NearDuplicate IN
    /\ \A i \in DOMAIN scan \ kept : \E k \in kept :
          twins(i, k) /\ scan[k].quality >= scan[i].quality
    /\ \A i, j \in kept : twins(i, j) => i = j

(* "one blurry frame cannot bridge two different people": every face is in *)
(* one group, and no third face brings together two whose similarity is    *)
(* below 0.4.                                                              *)
NoBridge(scan) ==
    LET groups == ToSet(GroupCandidates(scan)) IN
    /\ \A i \in DOMAIN scan : Cardinality({g \in groups : i \in ToSet(g)}) = 1
    /\ \A g \in groups : \A i, j \in ToSet(g) :
          Similarity(scan[i].vector, scan[j].vector) >= 1000

(* "The same answer as match_enrollment gives one face ... a tie going to  *)
(* the later one": what the picker says is what clip analysis would do.    *)
PickerAgrees(album) ==
    \A v \in Vectors : MatchCandidate(v, album) = ClosestInLoop(v, album)

(* A photo is said to match someone else exactly when it would be taken for*)
(* someone else had its own person no photo.                               *)
WarningIsTrue(album) ==
    \A i \in DOMAIN album :
        LET others == SelectSeq(album, LAMBDA p : p.name # album[i].name)
        IN AlsoMatches(album, i) # {} <=> ClosestInLoop(album[i].vector, others) # 0
=============================================================================
