-------------------------- MODULE FaceRecognition --------------------------
(***************************************************************************)
(* From the faces of a clip to its verdict: who was recognized, whether a  *)
(* face that matched nobody may be put down to someone recognized beside   *)
(* it (vision/faces.py), whether the clip's flag may be cleared            *)
(* (analyzer/base.py) and what the Biometrics tab says about it            *)
(* (face_outcomes.py).                                                     *)
(*                                                                         *)
(* A face is what those rules tell apart: it matches an enrolled person,   *)
(* is too small to judge, is a poor look, or is sharp and resembles some.  *)
(***************************************************************************)
EXTENDS Integers, Sequences, FiniteSets, TLC

People == {"amy", "bob"}
Order  == <<"amy", "bob">>

Small      == [look |-> "small", like |-> {}]
Poor       == [look |-> "poor",  like |-> {}]
Sharp(l)   == [look |-> "sharp", like |-> l]
Looks      == {Small, Poor} \cup {Sharp(l) : l \in SUBSET People}
Unexamined == [examined |-> FALSE, matches |-> {}, unmatched |-> <<>>]
Frame(m, u) == [examined |-> TRUE, matches |-> m, unmatched |-> u]

-----------------------------------------------------------------------------
(* Who a face could be.                                                    *)

(* The recognized people seen in the frame before, itself or the one after,*)
(* and not already in the frame.                                           *)
Available(frames, i) ==
    UNION {frames[j].matches : j \in {i - 1, i, i + 1} \cap DOMAIN frames}
        \ frames[i].matches

ClearLook(face, available) ==
    face.look = "sharp" /\ face.like \cap available = {}

CouldBe(face, available) ==
    CASE face.look = "small" -> {}
      [] face.look = "poor"  -> available
      [] face.look = "sharp" -> face.like \cap available

(* A bipartite matching, one face after the other, moving an earlier face  *)
(* to someone else when it has to.                                         *)
RECURSIVE TryEach(_, _, _, _)
Place(options, face, st) == TryEach(options, face, Order, st)
TryEach(options, face, names, st) ==
    IF names = <<>> THEN [st EXCEPT !.ok = FALSE]
    ELSE LET n == Head(names)
             s == [st EXCEPT !.tried = @ \cup {n}]
             moved == IF n \in DOMAIN st.owner THEN Place(options, st.owner[n], s)
                                               ELSE [s EXCEPT !.ok = TRUE]
         IN IF n \notin options[face] \/ n \in st.tried
              THEN TryEach(options, face, Tail(names), st)
            ELSE IF moved.ok THEN [moved EXCEPT !.owner = (n :> face) @@ @]
            ELSE TryEach(options, face, Tail(names), moved)

RECURSIVE PlaceFrom(_, _, _)
PlaceFrom(options, face, owner) ==
    \/ face > Len(options)
    \/ LET st == Place(options, face, [ok |-> TRUE, tried |-> {}, owner |-> owner]) IN
       st.ok /\ PlaceFrom(options, face + 1, st.owner)

EachHasTheirOwn(options) == PlaceFrom(options, 1, <<>>)

Options(frames, i) ==
    [k \in DOMAIN frames[i].unmatched |->
        CouldBe(frames[i].unmatched[k], Available(frames, i))]

SetAside(frames, i) ==
    /\ \A k \in DOMAIN frames[i].unmatched : Options(frames, i)[k] # {}
    /\ EachHasTheirOwn(Options(frames, i))

-----------------------------------------------------------------------------
(* The clip's accounting.                                                  *)
Faces(frames) == {<<i, k>> \in (DOMAIN frames) \X (1..2) :
                    k \in DOMAIN frames[i].unmatched}

Count(frames, P(_, _)) ==
    Cardinality({f \in Faces(frames) : P(f[1], frames[f[1]].unmatched[f[2]])})

Recognize(clip, ignoreUnclear) ==
    LET frames  == clip.frames
        seen    == UNION {frames[i].matches : i \in DOMAIN frames}
        unmatched == Cardinality(Faces(frames))
        missed  == Cardinality({i \in DOMAIN frames : ~frames[i].examined})
        blocked == \E i \in DOMAIN frames :
                      frames[i].unmatched # <<>> /\ ~SetAside(frames, i)
        unrecognized == missed > 0 \/ (IF ignoreUnclear THEN blocked ELSE unmatched > 0)
    IN [approved     |-> seen \cap clip.approved,
        other        |-> seen \ clip.approved,
        unrecognized |-> unrecognized,
        unclearFaces |-> IF ignoreUnclear /\ ~unrecognized THEN unmatched ELSE 0,
        seen         |-> unmatched + Cardinality({<<i, n>> \in (DOMAIN frames) \X People :
                                                    n \in frames[i].matches}),
        matched      |-> Cardinality({<<i, n>> \in (DOMAIN frames) \X People :
                                                    n \in frames[i].matches}),
        unclear      |-> Count(frames, LAMBDA i, f : ~ClearLook(f, Available(frames, i))),
        small        |-> Count(frames, LAMBDA i, f : f.look = "small"),
        unexamined   |-> missed,
        wouldClear   |-> missed = 0 /\ ~blocked]

-----------------------------------------------------------------------------
(* What the clip's verdict makes of it.                                    *)

FacesAllApproved(r) == r.approved # {} /\ r.other = {} /\ ~r.unrecognized

Unaccounted(clip, r) == clip.people > Cardinality(r.approved)

Unambiguous(clip, r) == FacesAllApproved(r) /\ ~Unaccounted(clip, r)

(* Two kinds of events no face accounts for: an impact, a break.           *)
BypassApplies(clip, r) == Unambiguous(clip, r) /\ ~clip.blocking

(* The summary may name people only when nobody else was about.            *)
PersonalizationNames(clip, r) ==
    IF r.unrecognized \/ clip.people > Cardinality(r.approved \cup r.other)
      THEN {} ELSE r.approved \cup r.other

ClearStrangers(r) == r.seen - r.matched - r.unclear

ClassifyOutcome(r, recognized, extra) ==
    IF r.seen = 0 /\ r.unexamined = 0 THEN "no_faces"
    ELSE IF recognized THEN IF r.unclearFaces > 0 THEN "set_aside" ELSE "recognized"
    ELSE IF ClearStrangers(r) > 0 THEN "unfamiliar"
    ELSE IF r.other # {} THEN "not_approved"
    ELSE IF r.unexamined > 0 THEN "unexamined"
    ELSE IF r.small > 0 THEN "too_small"
    ELSE IF r.unrecognized /\ ~r.wouldClear THEN "unclear"
    ELSE IF r.unrecognized /\ ~extra THEN "unclear_ignorable"
    ELSE "extra_people"

Outcome(clip, ignoreUnclear) ==
    LET r == Recognize(clip, ignoreUnclear) IN
    ClassifyOutcome(r, Unambiguous(clip, r), Unaccounted(clip, r))

Recognized(clip, ignoreUnclear) ==
    Unambiguous(clip, Recognize(clip, ignoreUnclear))

FaceEvidence(r) ==
    IF r.other # {} \/ r.unexamined > 0 \/ ClearStrangers(r) > 0 THEN "contradicts"
    ELSE IF r.approved # {} THEN "confirms" ELSE "none"

-----------------------------------------------------------------------------
(* Clips: two frames with up to two faces that match nobody in each, or    *)
(* three with such faces in the middle.                                    *)
Unmatched == {<<>>} \cup {<<f>> : f \in Looks} \cup {<<f, g>> : f, g \in Looks}
Full  == {Unexamined} \cup {Frame(m, u) : m \in SUBSET People, u \in Unmatched}
Plain == {Unexamined} \cup {Frame(m, <<>>) : m \in SUBSET People}
FaceClips ==
    [frames : {<<a, b>> : a \in Full, b \in Plain}
              \cup {<<a, b, c>> : a \in Plain, b \in Full, c \in Plain},
     approved : {{"amy"}, People}, people : {0, 2, 3}, blocking : BOOLEAN]

(* What the set-aside rule promises: each face that matched nobody can be  *)
(* someone recognized a frame away at most and not matched in its own, each*)
(* a different one.                                                        *)
HasAnExcuse(frames, i) ==
    \E who \in [DOMAIN frames[i].unmatched -> People] :
        /\ \A k \in DOMAIN who :
             /\ who[k] \in Available(frames, i)
             /\ frames[i].unmatched[k].look # "small"
             /\ frames[i].unmatched[k].look = "sharp" =>
                  who[k] \in frames[i].unmatched[k].like
        /\ \A j, k \in DOMAIN who : j # k => who[j] # who[k]

(* "A stranger beside a resident has nobody left to be": with the option   *)
(* on, a clip is recognized only if every face in it matched an approved   *)
(* person or has its own excuse, and no more people were seen than         *)
(* recognized; with it off, only if every face matched.  An impact or a    *)
(* break is never excused.                                                 *)
StrangersCount(clip) ==
    \A ignore \in BOOLEAN :
        BypassApplies(clip, Recognize(clip, ignore)) =>
            /\ ~clip.blocking
            /\ \A i \in DOMAIN clip.frames :
                 /\ clip.frames[i].examined
                 /\ clip.frames[i].matches \subseteq clip.approved
                 /\ clip.frames[i].unmatched # <<>> =>
                      ignore /\ HasAnExcuse(clip.frames, i)
            /\ clip.people <= Cardinality(UNION {clip.frames[i].matches :
                                                   i \in DOMAIN clip.frames})

(* "the panel never promises more than turning it on delivers": the outcome*)
(* "unclear, ignorable" is given exactly to the clips that the option would*)
(* have made recognized, and "extra people" only when there were some.     *)
PanelKeepsItsPromise(clip) ==
    /\ Outcome(clip, FALSE) = "unclear_ignorable"
         <=> ~Recognized(clip, FALSE) /\ Recognized(clip, TRUE)
    /\ \A ignore \in BOOLEAN :
         Outcome(clip, ignore) = "extra_people" =>
            Unaccounted(clip, Recognize(clip, ignore))

(* What faces say about a resident does not depend on the option, and a    *)
(* stranger's clear look is never taken for a recognized clip.             *)
EvidenceAgrees(clip) ==
    LET off == Recognize(clip, FALSE)
        on  == Recognize(clip, TRUE) IN
    /\ FaceEvidence(off) = FaceEvidence(on)
    /\ Recognized(clip, TRUE) => FaceEvidence(on) = "confirms"
    /\ Outcome(clip, TRUE) = "unfamiliar" => FaceEvidence(on) = "contradicts"

(* A summary that names people names everyone a face was found of, but for *)
(* faces with an excuse; a clip cleared by its faces names them.           *)
NamesAreWhole(clip) ==
    \A ignore \in BOOLEAN :
        LET r     == Recognize(clip, ignore)
            names == PersonalizationNames(clip, r) IN
        /\ BypassApplies(clip, r) => names = r.approved
        /\ names # {} =>
             \A i \in DOMAIN clip.frames :
                /\ clip.frames[i].matches \subseteq names
                /\ clip.frames[i].unmatched # <<>> => ignore /\ HasAnExcuse(clip.frames, i)

=============================================================================
