------------------------------- MODULE Faces -------------------------------
(***************************************************************************)
(* Enrolling faces (face_enrollment.py, media_server/faces.py,             *)
(* database/faces.py): a scan offers faces that are held in memory under an*)
(* id until they are picked, evicted or too old; an enrol request reads the*)
(* person's approval and then takes and inserts one face after the other,  *)
(* while another enrol request, an approve-or-rename request and deletions *)
(* run between its awaits.                                                 *)
(***************************************************************************)
EXTENDS Integers, Sequences, FiniteSets

CONSTANTS
    People,      \* the names in use
    MaxEnrols,   \* bound on the enrol requests, which may overlap
    Capacity,    \* CANDIDATE_CAPACITY
    Ttl,         \* how long a face may be picked
    MaxFaces,    \* bound on the faces scans find
    MaxEdits,    \* bound on the approve-or-rename and delete requests
    MaxTime      \* bound on the clock

VARIABLES
    clock,     \* the monotonic clock of the store
    held,      \* FaceCandidateStore._items; faces are numbered as they were found
    found,     \* when each face was found, over every scan
    taken,     \* the faces an enrol request has taken
    photos,    \* the rows of face_enrollments
    enrolling, \* each enrol request under way
    patch,     \* the approve-or-rename request under way
    edits      \* how many of those and of deletions there were

vars == <<clock, held, found, taken, photos, enrolling, patch, edits>>

Requests == 1..MaxEnrols
None   == "none"
Idle     == [at |-> None, name |-> None, approved |-> FALSE, ids |-> {}, face |-> 0]
Answered == [Idle EXCEPT !.at = "answered"]
NoPatch  == [at |-> None, name |-> None, new |-> None, choice |-> None]

Init ==
    /\ clock = 0 /\ held = {} /\ found = <<>> /\ taken = {} /\ photos = {}
    /\ enrolling = [r \in Requests |-> Idle]
    /\ patch = NoPatch /\ edits = 0

-----------------------------------------------------------------------------
(* The candidate store.                                                    *)

(* What is left of a store once the faces past their time are dropped.     *)
Expire(s) == {f \in s : found[f] >= clock - Ttl}

(* The oldest go first: a face stays while fewer than Capacity came later. *)
Evict(s) == {f \in s : Cardinality({g \in s : g > f}) < Capacity}

(* A scan offers the faces it found, in one go after its last await.       *)
Offer(k) ==
    /\ Len(found) + k <= MaxFaces
    /\ held' = Evict(Expire(held) \cup {Len(found) + i : i \in 1..k})
    /\ found' = found \o [i \in 1..k |-> clock]
    /\ UNCHANGED <<clock, taken, photos, enrolling, patch, edits>>

Tick ==
    /\ clock < MaxTime
    /\ clock' = clock + 1
    /\ UNCHANGED <<held, found, taken, photos, enrolling, patch, edits>>

-----------------------------------------------------------------------------
(* The people, by their photos.                                            *)

Of(name)       == {p \in photos : p.name = name}
Approvals(name) == {p.approved : p \in Of(name)}

(* BOOL_AND over the person's photos; the request's own choice for someone *)
(* with none.                                                              *)
Approval(name, choice) == IF Of(name) = {} THEN choice ELSE FALSE \notin Approvals(name)

-----------------------------------------------------------------------------
(* POST /api/ai/faces.                                                     *)

Step(r) == enrolling[r].at
Set(r, v) == enrolling' = [enrolling EXCEPT ![r] = v]

(* The ids are ones a scan has shown.  Requests are numbered as they come. *)
Enrol(r) ==
    /\ Step(r) = None /\ \A q \in 1..(r - 1) : Step(q) # None
    /\ \E name \in People, choice \in BOOLEAN, ids \in SUBSET (DOMAIN found) :
         /\ ids # {}
         /\ Set(r, [Idle EXCEPT !.at = "reads", !.name = name, !.approved = choice, !.ids = ids])
    /\ UNCHANGED <<clock, held, found, taken, photos, patch, edits>>

ReadsApproval(r) ==
    /\ Step(r) = "reads"
    /\ Set(r, [enrolling[r] EXCEPT !.at = "takes",
                                   !.approved = Approval(enrolling[r].name, @)])
    /\ UNCHANGED <<clock, held, found, taken, photos, patch, edits>>

\* Mutant: the face is only looked up.
LookedUp(r, f) ==
    /\ held' = Expire(held)
    /\ taken' = taken \cup {f}
    /\ Set(r, [enrolling[r] EXCEPT !.at = "inserts", !.ids = @ \ {f}, !.face = f])

(* A face leaves the store before its insert is awaited.                   *)
Taken(r, f) ==
    /\ held' = Expire(held) \ {f}
    /\ taken' = taken \cup {f}
    /\ Set(r, [enrolling[r] EXCEPT !.at = "inserts", !.ids = @ \ {f}, !.face = f])

(* The ids are tried in turn and those no longer held are passed over; when*)
(* none is left the request answers.                                       *)
Take(r) ==
    /\ Step(r) = "takes"
    /\ LET here == enrolling[r].ids \cap Expire(held)
       IN \/ \E f \in here : Taken(r, f)
          \/ /\ here = {}
             /\ held' = Expire(held)
             /\ taken' = taken
             /\ Set(r, Answered)
    /\ UNCHANGED <<clock, found, photos, patch, edits>>

(* The row's id is its place in the table's sequence; a face is stored as  *)
(* often as it is inserted.                                                *)
Insert(r) ==
    /\ Step(r) = "inserts"
    /\ LET e == enrolling[r]
       IN photos' = photos \cup {[id |-> Cardinality(photos) + 1, face |-> e.face,
                                  name |-> e.name, approved |-> e.approved]}
    /\ Set(r, [enrolling[r] EXCEPT !.at = "takes", !.face = 0])
    /\ UNCHANGED <<clock, held, found, taken, patch, edits>>

-----------------------------------------------------------------------------
(* PATCH and DELETE /api/ai/faces/people.                                  *)

(* Approval first, the new name after another await; either may be absent. *)
Patch ==
    /\ patch = NoPatch /\ edits < MaxEdits
    /\ edits' = edits + 1
    /\ \E name \in People, new \in People \cup {None}, choice \in {"yes", "no", None} :
         /\ new # None \/ choice # None
         /\ patch' = [at |-> IF choice = None THEN "renames" ELSE "approves",
                      name |-> name, new |-> new, choice |-> choice]
    /\ UNCHANGED <<clock, held, found, taken, photos, enrolling>>

PatchApproves ==
    /\ patch.at = "approves"
    /\ photos' = {[p EXCEPT !.approved = IF p.name = patch.name THEN patch.choice = "yes"
                                               ELSE @] : p \in photos}
    /\ patch' = IF patch.new = None THEN NoPatch ELSE [patch EXCEPT !.at = "renames"]
    /\ UNCHANGED <<clock, held, found, taken, enrolling, edits>>

(* Renaming onto a name in use merges the two people.                      *)
PatchRenames ==
    /\ patch.at = "renames"
    /\ photos' = {[p EXCEPT !.name = IF @ = patch.name THEN patch.new ELSE @] : p \in photos}
    /\ patch' = NoPatch
    /\ UNCHANGED <<clock, held, found, taken, enrolling, edits>>

(* A person is deleted whole, or one photo by its id.  A deleted row keeps *)
(* its number: "gone" is nobody's name.                                    *)
Delete ==
    /\ edits < MaxEdits
    /\ edits' = edits + 1
    /\ \/ \E name \in People :
            photos' = {[p EXCEPT !.name = IF @ = name THEN "gone" ELSE @] : p \in photos}
       \/ \E q \in photos :
            photos' = {[p EXCEPT !.name = IF p = q THEN "gone" ELSE @] : p \in photos}
    /\ UNCHANGED <<clock, held, found, taken, enrolling, patch>>

Next ==
    \/ \E k \in 1..2 : Offer(k)
    \/ Tick
    \/ \E r \in Requests : Enrol(r) \/ ReadsApproval(r) \/ Take(r) \/ Insert(r)
    \/ Patch \/ PatchApproves \/ PatchRenames
    \/ Delete

Spec == Init /\ [][Next]_vars

-----------------------------------------------------------------------------
(* Every part of the state has its type.                                   *)
FacesTypeOK ==
    /\ clock \in 0..MaxTime
    /\ found \in Seq(0..MaxTime) /\ Len(found) <= MaxFaces
    /\ held \subseteq DOMAIN found /\ Cardinality(held) <= Capacity
    /\ taken \subseteq DOMAIN found
    /\ \A p \in photos : p.face \in taken /\ p.name \in People \cup {"gone"}

(* A face is enrolled once: a double-clicked Enroll, or two people picked  *)
(* for one face, never stores it twice (comment in _handle_faces_enroll).  *)
EnrolledOnce == \A p, q \in photos : p.face = q.face => p = q

(* A face a scan has shown can be picked as long as it is fresh, nobody has*)
(* taken it and a full store of later faces has not pushed it out          *)
(* (FaceCandidateStore: the oldest go first).                              *)
FreshFacesStay ==
    \A f \in DOMAIN found :
        found[f] >= clock - Ttl /\ f \notin taken /\ Len(found) - f < Capacity
            => f \in held

-----------------------------------------------------------------------------
(* The inductive invariant.  A face is in the store or taken, never both;  *)
(* the one a request inserts is its own, and no row's yet.                 *)
Bounded ==
    /\ clock \in 0..MaxTime
    /\ found \in Seq(0..MaxTime) /\ Len(found) <= MaxFaces

HeldOrTaken ==
    /\ held \subseteq DOMAIN found /\ taken \subseteq DOMAIN found
    /\ held \cap taken = {}
    /\ Cardinality(held) <= Capacity

Row(p) == p = [id |-> p.id, face |-> p.face, name |-> p.name, approved |-> p.approved]

Rows ==
    \A p \in photos :
        /\ Row(p)
        /\ p.face \in taken /\ p.name \in People \cup {"gone"}

Inserts(r) == enrolling[r].at = "inserts"

RequestsAt ==
    /\ enrolling \in [Requests -> [at : {None, "reads", "takes", "inserts", "answered"},
                                   name : People \cup {None}, approved : BOOLEAN,
                                   ids : SUBSET Nat, face : Nat]]
    /\ \A r \in Requests : enrolling[r].at \in {"reads", "takes", "inserts"} => enrolling[r].name \in People
    /\ patch \in [at : {None, "approves", "renames"}, name : People \cup {None},
                  new : People \cup {None}, choice : {"yes", "no", None}]
    /\ patch.at = "renames" => patch.new \in People

OwnFace ==
    \A r \in Requests : Inserts(r) =>
        /\ enrolling[r].face \in taken
        /\ \A p \in photos : p.face # enrolling[r].face
        /\ \A q \in Requests : Inserts(q) /\ enrolling[q].face = enrolling[r].face => q = r

IInv ==
    /\ Bounded /\ HeldOrTaken /\ Rows /\ RequestsAt /\ OwnFace
    /\ EnrolledOnce /\ FreshFacesStay

=============================================================================
