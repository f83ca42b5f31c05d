------------------------------ MODULE Vehicles ------------------------------
(***************************************************************************)
(* Which of the cars in a clip is the protected one (security/vehicles.py, *)
(* resolve_vehicle_asset), and what one camera learns about it from clip   *)
(* to clip: its parking spot and its colour.  The analyzer takes the zone, *)
(* reads the signature, looks at the clip and writes the signature back    *)
(* (analyzer/base.py, database/detections.py), while the Vehicles tab      *)
(* draws and clears the zone and forgets the signature.                    *)
(*                                                                         *)
(* A box is its extent along the drive, [left, right]; a colour is how     *)
(* much silver it holds, of Shades.  Scores are percentages.               *)
(***************************************************************************)
EXTENDS Integers, Sequences, FiniteSets, FiniteSetsExt

CONSTANTS MaxClips, MaxEdits, MaxFaults

VARIABLES zone,       \* the zone the analyzer uses, or NoZone
          drawn,      \* the zone in camera_configs.json
          stored,     \* the signature in the database, or NoSignature
          used,       \* the zone the running clip is measured against
          loaded,     \* the signature it started from
          learned,    \* what the running clip makes of it, or NoSignature
          phase,      \* of the clip
          scene,      \* the cars detected in it
          clipsSeen, tabEdits, dbFaults,  \* bounds
          vans        \* history: times what another car taught was stored
vehicleVars == <<zone, drawn, stored, used, loaded, learned, phase, scene,
                 clipsSeen, tabEdits, dbFaults, vans>>

Shades == 8
NoZone == [left |-> 0, right |-> 0]
NoSignature == [left |-> 0, right |-> 0, silver |-> 0, samples |-> 0]

Length(b) == Max({0, b.right - b.left})
Shared(a, b) == Max({0, Min({a.right, b.right}) - Max({a.left, b.left})})
Iou(a, b) == IF Shared(a, b) = 0 THEN 0
             ELSE (100 * Shared(a, b)) \div (Length(a) + Length(b) - Shared(a, b))
Overlap(a, z) == IF Min({Length(a), Length(z)}) = 0 THEN 0
                 ELSE (100 * Shared(a, z)) \div Min({Length(a), Length(z)})

(* The cosine of two fingerprints of two bins, s and Shades - s, in        *)
(* percent, rounded down to a multiple of five.                            *)
Cosine(s, t) ==
    LET dot  == s * t + (Shades - s) * (Shades - t)
        norm == (s * s + (Shades - s) * (Shades - s)) * (t * t + (Shades - t) * (Shades - t))
    IN 5 * CHOOSE k \in 0..20 : k * k * norm <= 400 * dot * dot /\ 400 * dot * dot < (k + 1) * (k + 1) * norm

MinSamples == 4
Established(sig) == sig.samples >= MinSamples

\* Mutant: the newest clip is what is remembered.
Replaced(sig, car) ==
    [left |-> car.left, right |-> car.right, silver |-> car.silver,
     samples |-> sig.samples + 1]

(* A weight of 1 / (samples + 1), at most a quarter.                       *)
Blend(sig, car) ==
    LET n == Max({4, sig.samples + 1})
        towards(old, new) == (old * (n - 1) + new) \div n
    IN [left |-> towards(sig.left, car.left), right |-> towards(sig.right, car.right),
        silver |-> towards(sig.silver, car.silver), samples |-> sig.samples + 1]

(* The weighted mean of the evidence there is; an untracked car has no     *)
(* fingerprint.                                                            *)
Score(car, z, sig) ==
    LET weighed(present, weight) == IF present THEN weight ELSE 0
        inZone == weighed(z # NoZone, 5)
        inSpot == weighed(Established(sig), 3)
        alike  == weighed(Established(sig) /\ car.tracked, 2)
        total  == inZone + inSpot + alike
    IN IF total = 0 THEN 0
       ELSE (inZone * Overlap(car, z) + inSpot * Iou(sig, car)
             + alike * Cosine(sig.silver, car.silver)) \div total

MinMatchScore == 35
ConfidentThreshold == 60
NoCar == 0

(* The index of the protected car in cars, NoCar for none of them, and how *)
(* sure that is: a match is as good as its lead over the runner-up.        *)
IdentifyProtectedVehicle(cars, z, sig) ==
    LET score == [i \in DOMAIN cars |-> Score(cars[i], z, sig)]
        size  == [i \in DOMAIN cars |-> Length(cars[i])]
        first(key) == CHOOSE i \in DOMAIN cars :
                          \A j \in DOMAIN cars : key[j] < key[i] \/ (key[j] = key[i] /\ i <= j)
        best   == first(score)
        second == Max({0} \union {score[i] : i \in DOMAIN cars \ {best}})
        lead == IF score[best] = 0 THEN 100
                ELSE ((score[best] - second) * 100) \div score[best]
    IN CASE cars = <<>> -> [car |-> NoCar, confidence |-> 0]
         [] cars # <<>> /\ z = NoZone /\ ~Established(sig) ->
              [car |-> first(size), confidence |-> IF Len(cars) = 1 THEN 55 ELSE 30]
         [] cars # <<>> /\ (z # NoZone \/ Established(sig)) ->
              IF score[best] < MinMatchScore THEN [car |-> NoCar, confidence |-> 0]
              ELSE [car |-> best, confidence |-> (score[best] * (3500 + 65 * lead)) \div 10000]

Confident(id) == id.car # NoCar /\ id.confidence >= ConfidentThreshold

(* What the Vehicles tab has learned: nothing without a confident match.   *)
LearnSignature(id, cars, sig) ==
    IF ~Confident(id) THEN NoSignature
    ELSE IF sig = NoSignature
      THEN LET car == cars[id.car] IN
           [left |-> car.left, right |-> car.right, silver |-> car.silver, samples |-> 1]
      ELSE Blend(sig, cars[id.car])

-----------------------------------------------------------------------------
(* The drive: the owner's silver car in its spot or a little off it, the   *)
(* neighbour's in the next one, of any colour, and a dark van standing     *)
(* across the owner's spot.                                                *)
Spot == [left |-> 240, right |-> 420]
Car(left, right, silver, whose, tracked) ==
    [left |-> left, right |-> right, silver |-> silver, whose |-> whose, tracked |-> tracked]
Mine == {Car(240, 420, 8, "mine", TRUE), Car(260, 440, 8, "mine", TRUE)}
Theirs == {Car(430, 610, s, "neighbour", TRUE) : s \in {0, 8}}
Van == Car(240, 600, 0, "van", TRUE)
Scenes == {<<>>, <<Van>>} \union {<<c>> : c \in Mine \union Theirs}
          \union {<<c, d>> : c \in Mine, d \in Theirs}

Init ==
    /\ zone = NoZone /\ drawn = NoZone
    /\ used = NoZone /\ stored = NoSignature /\ loaded = NoSignature /\ learned = NoSignature
    /\ phase = "idle" /\ scene = <<>>
    /\ clipsSeen = 0 /\ tabEdits = 0 /\ dbFaults = 0 /\ vans = 0

(* The zone is taken before the signature is asked for.                    *)
TakeZone ==
    /\ phase = "idle" /\ clipsSeen < MaxClips
    /\ used' = zone
    /\ phase' = "started" /\ clipsSeen' = clipsSeen + 1
    /\ UNCHANGED <<zone, drawn, stored, loaded, learned, scene, vans, tabEdits, dbFaults>>

(* _load_vehicle_signature: a failed lookup is the same as none.           *)
LoadSignature(found) ==
    /\ phase = "started"
    /\ loaded' = IF found THEN stored ELSE NoSignature
    /\ dbFaults' = IF found THEN dbFaults ELSE dbFaults + 1
    /\ phase' = "loaded"
    /\ UNCHANGED <<zone, drawn, stored, used, learned, scene, vans, clipsSeen, tabEdits>>

(* The stages, which keep the zone they were given.                        *)
Identify(cars) ==
    LET id == IdentifyProtectedVehicle(cars, used, loaded) IN
    /\ phase = "loaded"
    /\ scene' = cars
    /\ learned' = LearnSignature(id, cars, loaded)
    /\ phase' = "identified"
    /\ UNCHANGED <<zone, drawn, stored, used, loaded, clipsSeen, tabEdits, dbFaults, vans>>

Protected == IdentifyProtectedVehicle(scene, used, loaded)
TaughtByAnother == Confident(Protected) /\ scene[Protected.car].whose # "mine"

(* save_vehicle_signature: what was learned replaces what is stored.       *)
StoreSignature(saved) ==
    /\ phase = "identified"
    /\ stored' = IF learned # NoSignature /\ saved THEN learned ELSE stored
    /\ vans' = IF TaughtByAnother /\ saved THEN vans + 1 ELSE vans
    /\ dbFaults' = IF saved THEN dbFaults ELSE dbFaults + 1
    /\ phase' = "idle"
    /\ used' = NoZone /\ loaded' = NoSignature /\ learned' = NoSignature /\ scene' = <<>>
    /\ UNCHANGED <<zone, drawn, clipsSeen, tabEdits>>

(* Drawing and clearing the zone: the analyzer is told before the file is  *)
(* written, so a failed write is forgotten by the next restart.            *)
SetZone(z, written) ==
    /\ tabEdits < MaxEdits /\ z # zone
    /\ zone' = z
    /\ drawn' = IF written THEN z ELSE drawn
    /\ tabEdits' = tabEdits + 1
    /\ UNCHANGED <<stored, used, loaded, learned, phase, scene, clipsSeen, dbFaults, vans>>

ResetSignature ==
    /\ tabEdits < MaxEdits
    /\ stored' = NoSignature
    /\ tabEdits' = tabEdits + 1
    /\ UNCHANGED <<zone, drawn, used, loaded, learned, phase, scene, clipsSeen, dbFaults, vans>>

(* A restart loses the running clip.                                       *)
Restart ==
    /\ dbFaults < MaxFaults
    /\ dbFaults' = dbFaults + 1
    /\ zone' = drawn
    /\ phase' = "idle"
    /\ used' = NoZone /\ loaded' = NoSignature /\ learned' = NoSignature /\ scene' = <<>>
    /\ UNCHANGED <<drawn, stored, clipsSeen, tabEdits, vans>>

Next ==
    \/ TakeZone
    \/ \E found \in BOOLEAN : (found \/ dbFaults < MaxFaults) /\ LoadSignature(found)
    \/ \E cars \in Scenes : Identify(cars)
    \/ \E saved \in BOOLEAN : (saved \/ dbFaults < MaxFaults) /\ StoreSignature(saved)
    \/ \E z \in {NoZone, Spot}, written \in BOOLEAN : SetZone(z, written)
    \/ ResetSignature
    \/ Restart

Spec == Init /\ [][Next]_vehicleVars

-----------------------------------------------------------------------------
VehiclesTypeOK ==
    /\ zone \in {NoZone, Spot} /\ used \in {NoZone, Spot} /\ drawn \in {NoZone, Spot}
    /\ phase \in {"idle", "started", "loaded", "identified"} /\ scene \in Scenes
    /\ \A sig \in {stored, loaded, learned} :
          /\ sig.left \in 0..430 /\ sig.right \in sig.left..610 /\ sig.silver \in 0..Shades
          /\ sig.samples \in 0..MaxClips
    /\ phase = "idle" => learned = NoSignature

(* On a clip that was begun with the spot marked, the car beside it is     *)
(* never taken for the one that has left, whatever its colour and whatever *)
(* was learned before, from the car itself and one van.                    *)
NeighbourIsNotMine ==
    phase = "identified" /\ used = Spot /\ vans <= 1 /\ Protected.car # NoCar
        => scene[Protected.car].whose # "neighbour"

(* A van that stood in the spot once does not redefine it: the car that    *)
(* comes back to a learned spot is recognised, with or without a zone.     *)
SpotSurvivesOneVan ==
    phase = "identified" /\ Established(loaded) /\ vans <= 1 =>
        \A c \in Mine : IdentifyProtectedVehicle(<<c>>, used, loaded).car = 1

(* What these rest on: a signature stays where the cars stood that it was  *)
(* learned from, and one van is gone from it when four clips have taught   *)
(* it; the neighbour's car teaches it nothing.                             *)
Signatures == [left : 0..430, right : 0..610, silver : 0..Shades, samples : Nat]
Fits(sig) == sig \in Signatures /\ sig.left <= sig.right /\ (sig = NoSignature \/ sig.samples >= 1)
WidestRight(samples) == CASE samples = 1 -> 600 [] samples = 2 -> 560 [] samples = 3 -> 530 [] OTHER -> 507
Near(sig, taught) ==
    sig # NoSignature =>
        /\ sig.left \in 240..260 /\ sig.right >= 420
        /\ sig.right <= IF taught = 0 THEN 440 ELSE WidestRight(sig.samples)

VehiclesShape ==
    /\ zone \in {NoZone, Spot} /\ used \in {NoZone, Spot} /\ drawn \in {NoZone, Spot}
    /\ phase \in {"idle", "started", "loaded", "identified"} /\ scene \in Scenes
    /\ clipsSeen \in 0..MaxClips /\ vans \in Nat
    /\ Fits(stored) /\ Fits(loaded)
    /\ stored.samples <= IF phase = "idle" THEN clipsSeen ELSE clipsSeen - 1
    /\ loaded.samples <= IF phase = "idle" THEN clipsSeen ELSE clipsSeen - 1
    /\ learned = IF phase = "identified" THEN LearnSignature(Protected, scene, loaded) ELSE NoSignature
MarkedSpotIsKept == vans <= 1 => Near(stored, vans) /\ Near(loaded, vans)

IInv == VehiclesShape /\ MarkedSpotIsKept
=============================================================================
