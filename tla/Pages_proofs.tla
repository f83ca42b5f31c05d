---------------------------- MODULE Pages_proofs ----------------------------
(***************************************************************************)
(* What is proved of what the pages show and keep, as in Components_proofs *)
(* for every value of the constants: the armed state, the verdicts and     *)
(* fine-tuning, the marked assets, the settings of the cameras and the     *)
(* parked car, which the Vehicles tab shows.                               *)
(***************************************************************************)
EXTENDS Components, TLAPS, FiniteSetTheorems, SequenceTheorems

-----------------------------------------------------------------------------
(* What is armed (ArmedState): s1 is what Blink holds, s2 what was read of *)
(* it, s3 the overrides, s4 and s5 the last refresh and the one under way, *)
(* s6 the commands, s7 and s8 what Blink held lately.                      *)

(* Somebody arms what there is, and the camera merged last of a name is    *)
(* one of the account's.                                                   *)
ArmedBounds ==
    /\ OverrideTtl \in Nat
    /\ ArmableKeys \subseteq AS!Keys
    /\ \A c \in ArmedCameras : LastOf[NameOf[c]] \in ArmedCameras

(* A command is remembered for exactly the keys that share its flag.       *)
LEMMA SharedFlag ==
    ASSUME NEW h \in AS!Keys, NEW j \in AS!Keys
    PROVE  j \in AS!Remembered(h) <=> AS!Flag(j) = AS!Flag(h)
<1>1. \A k \in AS!Keys : \E m, c : k = <<m, c>> /\ k[1] = m
  <2>1. \A m : AS!ModuleKey(m)[1] = m
    BY DEF AS!ModuleKey
  <2>2. \A c : AS!CameraKey(c)[1] = HomeOf[c]
    BY DEF AS!CameraKey
  <2> SUFFICES ASSUME NEW k \in AS!Keys PROVE \E m, c : k = <<m, c>> /\ k[1] = m
    OBVIOUS
  <2>3. CASE \E n \in SyncModules : k = AS!ModuleKey(n)
    <3>1. PICK n \in SyncModules : k = AS!ModuleKey(n)
      BY <2>3
    <3>2. k = <<n, "">> /\ k[1] = n
      BY <3>1, <2>1 DEF AS!ModuleKey
    <3> QED
      BY <3>2
  <2>4. CASE \E d \in ArmedCameras : k = AS!CameraKey(d)
    <3>1. PICK d \in ArmedCameras : k = AS!CameraKey(d)
      BY <2>4
    <3>2. k = <<HomeOf[d], d>> /\ k[1] = HomeOf[d]
      BY <3>1, <2>2 DEF AS!CameraKey
    <3> QED
      BY <3>2
  <2> QED
    BY <2>3, <2>4 DEF AS!Keys
<1>2. PICK m, c : h = <<m, c>> /\ h[1] = m
  BY <1>1
<1>3. PICK n, d : j = <<n, d>> /\ j[1] = n
  BY <1>1
<1>4. AS!ModuleKey(m)[1] = m /\ AS!ModuleKey(n)[1] = n
  BY DEF AS!ModuleKey
<1>5. CASE m \in Minis
  <2>1. AS!Flag(h) = AS!ModuleKey(m)
    BY <1>2, <1>5 DEF AS!Flag
  <2>2. AS!Flag(j) = AS!ModuleKey(m) => n = m
    BY <1>3, <1>4 DEF AS!Flag
  <2>3. n = m => AS!Flag(j) = AS!ModuleKey(m)
    BY <1>3, <1>5 DEF AS!Flag
  <2> QED
    BY <1>2, <1>3, <1>5, <2>1, <2>2, <2>3 DEF AS!Remembered
<1>6. CASE m \notin Minis
  <2>1. AS!Flag(h) = h /\ AS!Remembered(h) = {h}
    BY <1>2, <1>6 DEF AS!Flag, AS!Remembered
  <2>2. AS!Flag(j) = h => j = h
    BY <1>2, <1>3, <1>4, <1>6 DEF AS!Flag
  <2> QED
    BY <2>1, <2>2
<1> QED
  BY <1>5, <1>6

(* Ages stay in their range, in their order, and never become 0 again.     *)
LEMMA AgesStay ==
    ASSUME OverrideTtl \in Nat
    PROVE  /\ AS!Old \in Nat
           /\ \A a \in 0..AS!Old : AS!Older(a) \in 1..AS!Old /\ AS!Older(a) \in 0..AS!Old
           /\ \A a, b \in 0..AS!Old : a <= b => AS!Older(a) <= AS!Older(b)
           /\ \A a, b \in 0..AS!Old :
                AS!Older(a) <= AS!Older(b) => a <= b \/ (AS!Older(b) = AS!Old /\ a = AS!Old /\ b = OverrideTtl)
BY DEF AS!Old, AS!Older

LEMMA ArmedInit == ASSUME ArmedBounds, AS!Init PROVE AS!IInv
<1>1. AS!Old \in Nat /\ AS!Old > OverrideTtl
  BY DEF ArmedBounds, AS!Old
<1>2. \A k \in AS!Keys : AS!Flag(k) \in AS!Flags
  BY DEF AS!Flags
<1>3. AS!ArmedShape
  <2>1. AS!Idle.step = "idle"
    BY DEF AS!Idle
  <2>2. \A r \in Commands : s6[r] = AS!Idle
    BY DEF AS!Init
  <2>3. DOMAIN s6 = Commands /\ ~s5.on /\ s5 \in [on : BOOLEAN, age : 0..AS!Old, left : SUBSET AS!Flags]
    BY <1>1 DEF AS!Init
  <2>4. s8 \in [AS!Flags -> (SUBSET BOOLEAN) \X (SUBSET BOOLEAN)] /\ s7 \in [AS!Keys -> SUBSET BOOLEAN]
    BY DEF AS!Init
  <2>5. s1 \in [AS!Flags -> BOOLEAN] /\ s2 \in [AS!Flags -> BOOLEAN]
    BY DEF AS!Init
  <2>6. AS!Old \in 0..AS!Old /\ s4 = AS!Old
    BY <1>1 DEF AS!Init
  <2>7. s3 \in [AS!Keys -> [armed : BOOLEAN, age : 0..AS!Old]]
    BY <2>6 DEF AS!Init
  <2> QED
    BY <2>1, <2>2, <2>3, <2>4, <2>5, <2>6, <2>7 DEF AS!ArmedShape
<1>4. AS!OneOverride /\ AS!NowIsCovered /\ AS!ReadIsCovered
  BY <1>1, <1>2 DEF AS!Init, AS!OneOverride, AS!NowIsCovered, AS!ReadIsCovered, AS!Idle
<1>5. AS!NoJumpBack
  BY <1>1, <1>2 DEF AS!Init, AS!NoJumpBack, AS!Shown, AS!Ended
<1> QED
  BY <1>3, <1>4, <1>5 DEF AS!IInv

(* A key whose override ages: what is shown of it was Blink's state since, *)
(* or its time is up and nothing is promised any more.                     *)
LEMMA KeyAges ==
    ASSUME ArmedBounds, AS!IInv, NEW k \in AS!Keys, s1' = s1, s2' = s2, s4' = AS!Older(s4),
           s3'[k] = [s3[k] EXCEPT !.age = AS!Older(@)],
           s7'[k] = IF AS!TimeIsUp(k) THEN BOOLEAN ELSE s7[k]
    PROVE  /\ s3'[k] \in [armed : BOOLEAN, age : 0..AS!Old]
           /\ AS!Shown(k)' \in s7'[k]
           /\ s1[AS!Flag(k)] \in s7'[k]
           /\ s5.on /\ AS!Older(s5.age) <= s3'[k].age /\ AS!Flag(k) \notin s5.left => s2[AS!Flag(k)] \in s7'[k]
<1>1. /\ OverrideTtl \in Nat /\ AS!Old = OverrideTtl + 1
      /\ s3[k] \in [armed : BOOLEAN, age : 0..AS!Old] /\ s4 \in 0..AS!Old
      /\ s5.age \in 0..AS!Old /\ (s5.on => s5.age <= s4)
      /\ AS!Flag(k) \in AS!Flags /\ s1[AS!Flag(k)] \in BOOLEAN /\ s2[AS!Flag(k)] \in BOOLEAN
  BY DEF ArmedBounds, AS!Old, AS!IInv, AS!ArmedShape, AS!Flags
<1>2. s3'[k].armed = s3[k].armed /\ s3'[k].age = AS!Older(s3[k].age)
  BY <1>1
<1>3. s3'[k] \in [armed : BOOLEAN, age : 0..AS!Old]
  BY <1>1, AgesStay
<1>4. s1[AS!Flag(k)] \in s7'[k]
  BY <1>1 DEF AS!IInv, AS!NowIsCovered
<1>5. AS!Ended(k) => AS!Ended(k)'
  BY <1>1, <1>2 DEF AS!Ended, AS!Older
<1>6. AS!Ended(k)' => AS!Ended(k) \/ AS!TimeIsUp(k)
  BY <1>1, <1>2 DEF AS!Ended, AS!Older, AS!TimeIsUp
<1>7. AS!Shown(k)' \in s7'[k]
  <2>1. CASE AS!TimeIsUp(k)
    <3>1. AS!Shown(k)' \in BOOLEAN
      BY <1>1, <1>2 DEF AS!Shown
    <3> QED
      BY <2>1, <3>1
  <2>2. CASE ~AS!TimeIsUp(k)
    BY <1>2, <1>5, <1>6, <2>2 DEF AS!Shown, AS!IInv, AS!NoJumpBack
  <2> QED
    BY <2>1, <2>2
<1>8. s5.on /\ AS!Older(s5.age) <= s3'[k].age /\ AS!Flag(k) \notin s5.left => s2[AS!Flag(k)] \in s7'[k]
  <2>1. AS!Older(s5.age) <= s3'[k].age => s5.age <= s3[k].age \/ (s5.age = AS!Old /\ s3[k].age = OverrideTtl)
    BY <1>1, <1>2 DEF AS!Older
  <2>2. s5.on /\ s5.age = AS!Old /\ s3[k].age = OverrideTtl => AS!TimeIsUp(k)
    BY <1>1 DEF AS!TimeIsUp
  <2> QED
    BY <1>1, <2>1, <2>2 DEF AS!IInv, AS!ReadIsCovered
<1> QED
  BY <1>3, <1>4, <1>7, <1>8

(* Steps that leave commands, overrides and readings alone, or age them.   *)
LEMMA TickStep == ASSUME ArmedBounds, AS!IInv, AS!Tick PROVE AS!IInv'
<1>1. /\ s1' = s1 /\ s2' = s2 /\ s6' = s6 /\ s8' = s8 /\ s4' = AS!Older(s4)
      /\ s5' = [s5 EXCEPT !.age = AS!Older(@)]
      /\ s3' = [k \in AS!Keys |-> [s3[k] EXCEPT !.age = AS!Older(@)]]
      /\ s7' = [k \in AS!Keys |-> IF AS!TimeIsUp(k) THEN BOOLEAN ELSE s7[k]]
  BY DEF AS!Tick, AS!Aged
<1>2. /\ s4 \in 0..AS!Old /\ s5 \in [on : BOOLEAN, age : 0..AS!Old, left : SUBSET AS!Flags]
      /\ (s5.on => s5.age <= s4)
      /\ s5'.on = s5.on /\ s5'.left = s5.left /\ s5'.age = AS!Older(s5.age)
  BY <1>1 DEF AS!IInv, AS!ArmedShape
<1>3. \A k \in AS!Keys :
        /\ s3'[k] = [s3[k] EXCEPT !.age = AS!Older(@)]
        /\ s3'[k] \in [armed : BOOLEAN, age : 0..AS!Old]
        /\ AS!Shown(k)' \in s7'[k]
        /\ s1[AS!Flag(k)] \in s7'[k]
        /\ s5.on /\ AS!Older(s5.age) <= s3'[k].age /\ AS!Flag(k) \notin s5.left => s2[AS!Flag(k)] \in s7'[k]
  BY <1>1, KeyAges
<1>4. AS!ArmedShape'
  <2>1. /\ s4' \in 0..AS!Old /\ s5'.age \in 0..AS!Old /\ (s5'.on => s5'.age <= s4')
    BY <1>1, <1>2, AgesStay DEF ArmedBounds
  <2>2. s5' \in [on : BOOLEAN, age : 0..AS!Old, left : SUBSET AS!Flags]
    BY <1>1, <1>2, <2>1
  <2>3. s7' \in [AS!Keys -> SUBSET BOOLEAN] /\ s3' \in [AS!Keys -> [armed : BOOLEAN, age : 0..AS!Old]]
    BY <1>1, <1>3 DEF AS!IInv, AS!ArmedShape
  <2> QED
    BY <1>1, <2>1, <2>2, <2>3 DEF AS!IInv, AS!ArmedShape
<1>5. AS!OneOverride'
  BY <1>3 DEF AS!IInv, AS!OneOverride
<1>6. AS!NowIsCovered'
  BY <1>1, <1>3 DEF AS!IInv, AS!NowIsCovered
<1>7. AS!ReadIsCovered'
  BY <1>1, <1>2, <1>3 DEF AS!IInv, AS!ReadIsCovered
<1>8. AS!NoJumpBack'
  BY <1>3 DEF AS!NoJumpBack
<1> QED
  BY <1>4, <1>5, <1>6, <1>7, <1>8 DEF AS!IInv

LEMMA StartRefreshStep == ASSUME ArmedBounds, AS!IInv, AS!StartRefresh PROVE AS!IInv'
<1>1. /\ s1' = s1 /\ s2' = s2 /\ s6' = s6 /\ s4' = AS!Older(s4) /\ ~s5.on
      /\ s5' = [on |-> TRUE, age |-> 0, left |-> AS!Flags]
      /\ s3' = [k \in AS!Keys |-> [s3[k] EXCEPT !.age = AS!Older(@)]]
      /\ s7' = [k \in AS!Keys |-> IF AS!TimeIsUp(k) THEN BOOLEAN ELSE s7[k]]
      /\ s8' = [f \in AS!Flags |-> <<s8[f][1], {s1[f]}>>]
  BY DEF AS!StartRefresh
<1>2. \A k \in AS!Keys :
        /\ s3'[k] = [s3[k] EXCEPT !.age = AS!Older(@)]
        /\ s3'[k] \in [armed : BOOLEAN, age : 0..AS!Old]
        /\ AS!Shown(k)' \in s7'[k]
        /\ s1[AS!Flag(k)] \in s7'[k]
        /\ AS!Flag(k) \in AS!Flags
  BY <1>1, KeyAges DEF AS!Flags
<1>3. \A f \in AS!Flags : s8'[f][1] = s8[f][1] /\ s8'[f][2] = {s1[f]}
  BY <1>1
<1>4. AS!ArmedShape'
  <2>1. s4 \in 0..AS!Old /\ AS!Old \in Nat
    BY AgesStay DEF ArmedBounds, AS!IInv, AS!ArmedShape
  <2>2. s4' \in 0..AS!Old /\ 0 \in 0..AS!Old /\ 0 <= s4'
    BY <1>1, <2>1, AgesStay DEF ArmedBounds
  <2>3. s5' \in [on : BOOLEAN, age : 0..AS!Old, left : SUBSET AS!Flags] /\ s5'.age <= s4'
    BY <1>1, <2>2
  <2>4. s7' \in [AS!Keys -> SUBSET BOOLEAN] /\ s3' \in [AS!Keys -> [armed : BOOLEAN, age : 0..AS!Old]]
    BY <1>1, <1>2 DEF AS!IInv, AS!ArmedShape
  <2>5. s8' \in [AS!Flags -> (SUBSET BOOLEAN) \X (SUBSET BOOLEAN)]
    BY <1>1 DEF AS!IInv, AS!ArmedShape
  <2> QED
    BY <1>1, <2>2, <2>3, <2>4, <2>5 DEF AS!IInv, AS!ArmedShape
<1>5. AS!OneOverride'
  BY <1>2 DEF AS!IInv, AS!OneOverride
<1>6. AS!NowIsCovered'
  BY <1>1, <1>2, <1>3 DEF AS!IInv, AS!NowIsCovered
<1>7. AS!ReadIsCovered'
  BY <1>1, <1>2, <1>3 DEF AS!IInv, AS!ReadIsCovered
<1>8. AS!NoJumpBack'
  BY <1>2 DEF AS!NoJumpBack
<1> QED
  BY <1>4, <1>5, <1>6, <1>7, <1>8 DEF AS!IInv

(* An accepted command is shown for its flag's keys, and Blink held it.    *)
LEMMA AcceptedStep ==
    ASSUME ArmedBounds, AS!IInv, NEW r \in Commands, AS!Accepted(r) PROVE AS!IInv'
<1> DEFINE c == s6[r]
<1>1. /\ s1' = s1 /\ s2' = s2 /\ s8' = s8 /\ s4' = AS!Older(s4) /\ c.step = "taken"
      /\ s5' = [s5 EXCEPT !.age = AS!Older(@)]
      /\ s6' = [s6 EXCEPT ![r] = AS!Idle]
      /\ s3' = [k \in AS!Keys |-> IF k \in AS!Remembered(c.hit) THEN [armed |-> c.armed, age |-> 0]
                                  ELSE [s3[k] EXCEPT !.age = AS!Older(@)]]
      /\ s7' = [k \in AS!Keys |-> IF AS!Flag(k) = AS!Flag(c.key) THEN c.since
                                  ELSE IF AS!TimeIsUp(k) THEN BOOLEAN ELSE s7[k]]
  BY DEF AS!Accepted, AS!Aged
<1>2. /\ s4 \in 0..AS!Old /\ s5 \in [on : BOOLEAN, age : 0..AS!Old, left : SUBSET AS!Flags]
      /\ (s5.on => s5.age <= s4)
      /\ s5'.on = s5.on /\ s5'.left = s5.left /\ s5'.age = AS!Older(s5.age)
      /\ c.hit \in AS!Keys /\ c.key = c.hit /\ c.armed \in BOOLEAN /\ c.since \subseteq BOOLEAN
      /\ c.armed \in c.since /\ s1[AS!Flag(c.hit)] \in c.since
  BY <1>1 DEF AS!IInv, AS!ArmedShape, AS!NowIsCovered
<1>3. /\ s4' \in 1..AS!Old /\ s5'.age \in 1..AS!Old /\ (s5'.on => s5'.age <= s4')
      /\ OverrideTtl \in Nat /\ AS!Old = OverrideTtl + 1
  BY <1>1, <1>2, AgesStay DEF ArmedBounds, AS!Old
<1>4. ASSUME NEW k \in AS!Keys, AS!Flag(k) = AS!Flag(c.hit)
      PROVE  /\ s3'[k] = [armed |-> c.armed, age |-> 0]
             /\ s3'[k] \in [armed : BOOLEAN, age : 0..AS!Old]
             /\ s7'[k] = c.since
             /\ AS!Shown(k)' \in s7'[k]
             /\ s1[AS!Flag(k)] \in s7'[k]
             /\ ~(s5'.age <= s3'[k].age)
  <2>1. k \in AS!Remembered(c.hit)
    BY <1>2, <1>4, SharedFlag
  <2>2. s3'[k] = [armed |-> c.armed, age |-> 0] /\ s7'[k] = c.since
    BY <1>1, <1>2, <1>4, <2>1
  <2>3. ~AS!Ended(k)'
    BY <1>3, <2>2 DEF AS!Ended
  <2> QED
    BY <1>2, <1>3, <1>4, <2>2, <2>3 DEF AS!Shown
<1>5. ASSUME NEW k \in AS!Keys, AS!Flag(k) # AS!Flag(c.hit)
      PROVE  /\ s3'[k] = [s3[k] EXCEPT !.age = AS!Older(@)]
             /\ s3'[k] \in [armed : BOOLEAN, age : 0..AS!Old]
             /\ s7'[k] \subseteq BOOLEAN
             /\ AS!Shown(k)' \in s7'[k]
             /\ s1[AS!Flag(k)] \in s7'[k]
             /\ s5.on /\ s5'.age <= s3'[k].age /\ AS!Flag(k) \notin s5.left => s2[AS!Flag(k)] \in s7'[k]
  <2>1. k \notin AS!Remembered(c.hit)
    BY <1>2, <1>5, SharedFlag
  <2>2. /\ s3'[k] = [s3[k] EXCEPT !.age = AS!Older(@)]
        /\ s7'[k] = IF AS!TimeIsUp(k) THEN BOOLEAN ELSE s7[k]
    BY <1>1, <1>2, <1>5, <2>1
  <2>3. s7'[k] \subseteq BOOLEAN
    BY <2>2 DEF AS!IInv, AS!ArmedShape
  <2> QED
    BY <1>1, <1>2, <2>2, <2>3, KeyAges
<1>6. \A q \in Commands : s6'[q] = IF q = r THEN AS!Idle ELSE s6[q]
  BY <1>1 DEF AS!IInv, AS!ArmedShape
<1>7. AS!Idle.step = "idle"
  BY DEF AS!Idle
<1>8. AS!ArmedShape'
  <2>1. s5' \in [on : BOOLEAN, age : 0..AS!Old, left : SUBSET AS!Flags] /\ s4' \in 0..AS!Old
    BY <1>1, <1>2, <1>3
  <2>2. s7' \in [AS!Keys -> SUBSET BOOLEAN] /\ s3' \in [AS!Keys -> [armed : BOOLEAN, age : 0..AS!Old]]
    <3>1. \A k \in AS!Keys : s7'[k] \subseteq BOOLEAN /\ s3'[k] \in [armed : BOOLEAN, age : 0..AS!Old]
      BY <1>2, <1>4, <1>5
    <3> QED
      BY <1>1, <3>1
  <2>3. DOMAIN s6' = Commands
    BY <1>1 DEF AS!IInv, AS!ArmedShape
  <2> QED
    BY <1>1, <1>3, <1>6, <1>7, <2>1, <2>2, <2>3 DEF AS!IInv, AS!ArmedShape
<1>9. AS!OneOverride'
  <2> SUFFICES ASSUME NEW k \in AS!Keys, NEW j \in AS!Keys, AS!Flag(k) = AS!Flag(j) PROVE s3'[k] = s3'[j]
    BY DEF AS!OneOverride
  <2>1. s3[k] = s3[j]
    BY DEF AS!IInv, AS!OneOverride
  <2> QED
    BY <1>4, <1>5, <2>1
<1>10. AS!NowIsCovered'
  <2>1. \A k \in AS!Keys : s1'[AS!Flag(k)] \in s7'[k]
    BY <1>1, <1>4, <1>5
  <2>2. \A f \in AS!Flags : s1'[f] \in s8'[f][1] /\ s1'[f] \in s8'[f][2]
    BY <1>1 DEF AS!IInv, AS!NowIsCovered
  <2>3. \A q \in Commands : s6'[q].step = "taken" =>
           s6'[q].armed \in s6'[q].since /\ s1'[AS!Flag(s6'[q].hit)] \in s6'[q].since
    BY <1>1, <1>6, <1>7 DEF AS!IInv, AS!NowIsCovered
  <2> QED
    BY <2>1, <2>2, <2>3 DEF AS!NowIsCovered
<1>11. AS!ReadIsCovered'
  BY <1>1, <1>2, <1>4, <1>5 DEF AS!IInv, AS!ReadIsCovered
<1>12. AS!NoJumpBack'
  BY <1>4, <1>5 DEF AS!NoJumpBack
<1> QED
  BY <1>8, <1>9, <1>10, <1>11, <1>12 DEF AS!IInv

LEMMA SnapshotStep == ASSUME ArmedBounds, AS!IInv, AS!GetSnapshot PROVE AS!IInv'
<1>1. /\ s1' = s1 /\ s2' = s2 /\ s4' = s4 /\ s5' = s5 /\ s6' = s6 /\ s7' = s7 /\ s8' = s8
      /\ s3' = [k \in AS!Keys |-> IF AS!Ended(k) THEN AS!Gone(k) ELSE s3[k]]
  BY DEF AS!GetSnapshot
<1>2. OverrideTtl \in Nat /\ AS!Old = OverrideTtl + 1 /\ AS!Old \in 0..AS!Old /\ s4 \in 0..AS!Old
  BY DEF ArmedBounds, AS!Old, AS!IInv, AS!ArmedShape
<1>3. \A k \in AS!Keys : s3[k] \in [armed : BOOLEAN, age : 0..AS!Old]
  BY DEF AS!IInv, AS!ArmedShape
<1>4. ASSUME NEW k \in AS!Keys
      PROVE  /\ s3'[k] = IF AS!Ended(k) THEN AS!Gone(k) ELSE s3[k]
             /\ s3'[k] \in [armed : BOOLEAN, age : 0..AS!Old]
             /\ AS!Ended(k) => s3'[k].age = AS!Old
             /\ AS!Ended(k)' <=> AS!Ended(k)
             /\ AS!Shown(k)' = AS!Shown(k)
  BY <1>1, <1>2, <1>3 DEF AS!Ended, AS!Gone, AS!Shown
<1>5. AS!ArmedShape'
  BY <1>1, <1>4 DEF AS!IInv, AS!ArmedShape
<1>6. AS!OneOverride'
  BY <1>4 DEF AS!IInv, AS!OneOverride, AS!Ended, AS!Gone
<1>7. AS!NowIsCovered'
  BY <1>1 DEF AS!IInv, AS!NowIsCovered
<1>8. AS!ReadIsCovered'
  <2>1. \A k \in AS!Keys : AS!Ended(k) => s2[AS!Flag(k)] \in s7[k]
    BY DEF AS!IInv, AS!NoJumpBack, AS!Shown
  <2> QED
    BY <1>1, <1>4, <2>1 DEF AS!IInv, AS!ReadIsCovered
<1>9. AS!NoJumpBack'
  BY <1>1, <1>4 DEF AS!IInv, AS!NoJumpBack
<1> QED
  BY <1>5, <1>6, <1>7, <1>8, <1>9 DEF AS!IInv

(* Of the readings and overrides nothing changes.                          *)
LEMMA ShownStays ==
    ASSUME s2' = s2, s3' = s3, s4' = s4
    PROVE  \A k : AS!Shown(k)' = AS!Shown(k)
BY DEF AS!Shown, AS!Ended

(* A flag of Blink's changes, or a command reaches it without effect.      *)
LEMMA BlinkChanges ==
    ASSUME ArmedBounds, AS!IInv, NEW f \in AS!Flags, NEW now \in BOOLEAN, AS!Becomes(f, now),
           s2' = s2, s3' = s3, s4' = s4, s5' = s5, DOMAIN s6' = Commands,
           \A q \in Commands : \/ s6'[q] = AS!Extended(q, f, now)
                               \/ /\ s6'[q].step = "taken" /\ DOMAIN s6'[q] = DOMAIN AS!Idle
                                  /\ s6'[q].hit \in AS!Keys /\ s6'[q].key = s6'[q].hit
                                  /\ AS!Flag(s6'[q].hit) = f
                                  /\ s6'[q].armed \in BOOLEAN /\ s6'[q].since = {s6'[q].armed, now}
    PROVE  AS!IInv'
<1>1. /\ s1' = [s1 EXCEPT ![f] = now]
      /\ s7' = [k \in AS!Keys |-> IF AS!Flag(k) = f THEN s7[k] \cup {now} ELSE s7[k]]
      /\ s8' = [s8 EXCEPT ![f] = <<@[1] \cup {now}, @[2] \cup {now}>>]
  BY DEF AS!Becomes
<1>2. /\ \A k \in AS!Keys : s7[k] \subseteq s7'[k] /\ s7'[k] \subseteq BOOLEAN
      /\ \A k \in AS!Keys : AS!Flag(k) = f => now \in s7'[k]
  BY <1>1 DEF AS!IInv, AS!ArmedShape
<1>3. /\ s8 \in [AS!Flags -> (SUBSET BOOLEAN) \X (SUBSET BOOLEAN)] /\ s1 \in [AS!Flags -> BOOLEAN]
      /\ DOMAIN s6 = Commands
  BY DEF AS!IInv, AS!ArmedShape
<1>4. /\ s8[f][1] \subseteq BOOLEAN /\ s8[f][2] \subseteq BOOLEAN
      /\ s8'[f] = <<s8[f][1] \cup {now}, s8[f][2] \cup {now}>>
      /\ s1'[f] = now /\ s1' \in [AS!Flags -> BOOLEAN]
      /\ \A g \in AS!Flags : g # f => s1'[g] = s1[g] /\ s8'[g] = s8[g]
  BY <1>1, <1>3
<1>5. \A g \in AS!Flags : s8[g][1] \subseteq s8'[g][1] /\ s8[g][2] \subseteq s8'[g][2]
  BY <1>4
<1>6. \A q \in Commands :
        /\ DOMAIN s6'[q] = DOMAIN AS!Idle /\ s6'[q].step \in {"idle", "sent", "taken"}
        /\ s6'[q].step # "idle" =>
              /\ s6'[q].hit \in AS!Keys /\ s6'[q].key = s6'[q].hit
              /\ s6'[q].armed \in BOOLEAN /\ s6'[q].since \subseteq BOOLEAN
        /\ s6'[q].step = "taken" =>
              s6'[q].armed \in s6'[q].since /\ s1'[AS!Flag(s6'[q].hit)] \in s6'[q].since
  <2> SUFFICES ASSUME NEW q \in Commands
               PROVE /\ DOMAIN s6'[q] = DOMAIN AS!Idle /\ s6'[q].step \in {"idle", "sent", "taken"}
                     /\ s6'[q].step # "idle" =>
                           /\ s6'[q].hit \in AS!Keys /\ s6'[q].key = s6'[q].hit
                           /\ s6'[q].armed \in BOOLEAN /\ s6'[q].since \subseteq BOOLEAN
                     /\ s6'[q].step = "taken" =>
                           s6'[q].armed \in s6'[q].since /\ s1'[AS!Flag(s6'[q].hit)] \in s6'[q].since
    OBVIOUS
  <2>1. CASE s6'[q] = AS!Extended(q, f, now) /\ s6[q].step = "taken" /\ AS!Flag(s6[q].hit) = f
    <3>1. s6'[q] = [s6[q] EXCEPT !.since = @ \cup {now}]
      BY <2>1 DEF AS!Extended
    <3>2. DOMAIN s6[q] = {"step", "key", "hit", "armed", "since"} /\ DOMAIN AS!Idle = {"step", "key", "hit", "armed", "since"}
      BY DEF AS!IInv, AS!ArmedShape, AS!Idle
    <3>3. /\ s6'[q].step = "taken" /\ s6'[q].hit = s6[q].hit /\ s6'[q].key = s6[q].key
          /\ s6'[q].armed = s6[q].armed /\ s6'[q].since = s6[q].since \cup {now}
          /\ DOMAIN s6'[q] = DOMAIN s6[q]
      BY <2>1, <3>1, <3>2
    <3> QED
      BY <1>4, <2>1, <3>2, <3>3 DEF AS!IInv, AS!ArmedShape, AS!NowIsCovered
  <2>2. CASE s6'[q] = AS!Extended(q, f, now) /\ ~(s6[q].step = "taken" /\ AS!Flag(s6[q].hit) = f)
    <3>1. s6'[q] = s6[q]
      BY <2>2 DEF AS!Extended
    <3>2. s6[q].step = "taken" => AS!Flag(s6[q].hit) \in AS!Flags
      BY DEF AS!IInv, AS!ArmedShape, AS!Flags
    <3> QED
      BY <1>4, <2>2, <3>1, <3>2 DEF AS!IInv, AS!ArmedShape, AS!NowIsCovered
  <2>3. CASE s6'[q].step = "taken" /\ AS!Flag(s6'[q].hit) = f /\ s6'[q].since = {s6'[q].armed, now}
             /\ DOMAIN s6'[q] = DOMAIN AS!Idle /\ s6'[q].hit \in AS!Keys /\ s6'[q].key = s6'[q].hit
             /\ s6'[q].armed \in BOOLEAN
    BY <1>4, <2>3
  <2> QED
    BY <2>1, <2>2, <2>3
<1>7. \A k \in AS!Keys : AS!Flag(k) \in AS!Flags
  BY DEF AS!Flags
<1>8. AS!ArmedShape'
  <2>1. s7' \in [AS!Keys -> SUBSET BOOLEAN]
    BY <1>1, <1>2
  <2>2. s8' \in [AS!Flags -> (SUBSET BOOLEAN) \X (SUBSET BOOLEAN)]
    <3>1. s8'[f] \in (SUBSET BOOLEAN) \X (SUBSET BOOLEAN)
      BY <1>4
    <3> QED
      BY <1>1, <1>3, <3>1, <1>4
  <2> QED
    BY <1>4, <1>6, <2>1, <2>2 DEF AS!IInv, AS!ArmedShape
<1>9. AS!OneOverride'
  BY DEF AS!IInv, AS!OneOverride
<1>10. AS!NowIsCovered'
  <2>1. \A k \in AS!Keys : s1'[AS!Flag(k)] \in s7'[k]
    BY <1>2, <1>4, <1>7 DEF AS!IInv, AS!NowIsCovered
  <2>2. \A g \in AS!Flags : s1'[g] \in s8'[g][1] /\ s1'[g] \in s8'[g][2]
    BY <1>4 DEF AS!IInv, AS!NowIsCovered
  <2> QED
    BY <1>6, <2>1, <2>2 DEF AS!NowIsCovered
<1>11. AS!ReadIsCovered'
  BY <1>2, <1>5, <1>7 DEF AS!IInv, AS!ReadIsCovered
<1>12. AS!NoJumpBack'
  BY <1>2, ShownStays DEF AS!IInv, AS!NoJumpBack
<1> QED
  BY <1>8, <1>9, <1>10, <1>11, <1>12 DEF AS!IInv

LEMMA TakesStep ==
    ASSUME ArmedBounds, AS!IInv, NEW r \in Commands, NEW effect \in BOOLEAN, AS!Takes(r, effect) PROVE AS!IInv'
<1> DEFINE c   == s6[r]
           f   == AS!Flag(c.hit)
           now == IF effect THEN c.armed ELSE s1[f]
<1>1. /\ c.step = "sent" /\ AS!Becomes(f, now)
      /\ s6' = [q \in Commands |-> IF q = r THEN [c EXCEPT !.step = "taken", !.since = {c.armed, now}]
                                   ELSE AS!Extended(q, f, now)]
      /\ s2' = s2 /\ s3' = s3 /\ s4' = s4 /\ s5' = s5
  BY DEF AS!Takes
<1>2. /\ c.hit \in AS!Keys /\ c.key = c.hit /\ c.armed \in BOOLEAN /\ f \in AS!Flags
      /\ DOMAIN c = {"step", "key", "hit", "armed", "since"} /\ s1[f] \in BOOLEAN
  <2>1. DOMAIN AS!Idle = {"step", "key", "hit", "armed", "since"}
    BY DEF AS!Idle
  <2>2. c.hit \in AS!Keys /\ c.key = c.hit /\ c.armed \in BOOLEAN /\ DOMAIN c = DOMAIN AS!Idle
    BY <1>1 DEF AS!IInv, AS!ArmedShape
  <2>3. f \in AS!Flags
    BY <2>2 DEF AS!Flags
  <2> QED
    BY <2>1, <2>2, <2>3 DEF AS!IInv, AS!ArmedShape
<1>3. now \in BOOLEAN
  BY <1>2
<1> HIDE DEF now
<1>4. DOMAIN AS!Idle = {"step", "key", "hit", "armed", "since"}
  BY DEF AS!Idle
<1>5. /\ s6'[r].step = "taken" /\ s6'[r].since = {c.armed, now} /\ s6'[r].hit = c.hit /\ s6'[r].key = c.key
      /\ s6'[r].armed = c.armed /\ DOMAIN s6'[r] = DOMAIN c
  BY <1>1, <1>2
<1>6. \A q \in Commands : q # r => s6'[q] = AS!Extended(q, f, now)
  BY <1>1
<1>7. DOMAIN s6' = Commands
  BY <1>1
<1> QED
  BY <1>1, <1>2, <1>3, <1>4, <1>5, <1>6, <1>7, BlinkChanges

LEMMA ElsewhereStep ==
    ASSUME ArmedBounds, AS!IInv, NEW f \in AS!Flags, NEW armed \in BOOLEAN, AS!Elsewhere(f, armed) PROVE AS!IInv'
<1>1. /\ AS!Becomes(f, armed) /\ s2' = s2 /\ s3' = s3 /\ s4' = s4 /\ s5' = s5
      /\ DOMAIN s6' = Commands /\ \A q \in Commands : s6'[q] = AS!Extended(q, f, armed)
  BY DEF AS!Elsewhere
<1> QED
  BY <1>1, BlinkChanges

(* A command is sent, or gets no answer: nothing is shown of it.           *)
LEMMA CommandsAlone ==
    ASSUME AS!IInv, s1' = s1, s2' = s2, s3' = s3, s4' = s4, s5' = s5, s7' = s7, s8' = s8, DOMAIN s6' = Commands,
           \A q \in Commands : \/ s6'[q] = s6[q]
                               \/ /\ DOMAIN s6'[q] = DOMAIN AS!Idle /\ s6'[q].step \in {"idle", "sent"}
                                  /\ s6'[q].step # "idle" =>
                                        /\ s6'[q].hit \in AS!Keys /\ s6'[q].key = s6'[q].hit
                                        /\ s6'[q].armed \in BOOLEAN /\ s6'[q].since = {}
    PROVE  AS!IInv'
<1>1. AS!ArmedShape'
  BY DEF AS!IInv, AS!ArmedShape
<1>2. AS!OneOverride' /\ AS!NowIsCovered' /\ AS!ReadIsCovered'
  BY DEF AS!IInv, AS!OneOverride, AS!NowIsCovered, AS!ReadIsCovered
<1>3. AS!NoJumpBack'
  BY ShownStays DEF AS!IInv, AS!NoJumpBack
<1> QED
  BY <1>1, <1>2, <1>3 DEF AS!IInv

LEMMA ArmStep ==
    ASSUME ArmedBounds, AS!IInv, NEW r \in Commands, NEW k \in ArmableKeys, NEW ids \in BOOLEAN, NEW armed \in BOOLEAN,
           AS!Arm(r, k, ids, armed)
    PROVE  AS!IInv'
<1> DEFINE hit == AS!FindSyncCamera(k, ids)
<1>1. hit \in AS!Keys
  <2>1. \A c \in ArmedCameras : AS!CameraKey(c) \in AS!Keys
    BY DEF AS!Keys
  <2> QED
    BY <2>1 DEF AS!FindSyncCamera, ArmedBounds
<1>2. ids => hit = k
  BY DEF AS!FindSyncCamera
<1>3. /\ s1' = s1 /\ s2' = s2 /\ s3' = s3 /\ s4' = s4 /\ s5' = s5 /\ s7' = s7 /\ s8' = s8
      /\ s6' = [s6 EXCEPT ![r] = [step |-> "sent", key |-> IF ids THEN k ELSE hit, hit |-> hit,
                                  armed |-> armed, since |-> {}]]
  BY DEF AS!Arm
<1>4. DOMAIN s6 = Commands /\ DOMAIN AS!Idle = {"step", "key", "hit", "armed", "since"}
  BY DEF AS!IInv, AS!ArmedShape, AS!Idle
<1> HIDE DEF hit
<1>5. s6'[r] = [step |-> "sent", key |-> IF ids THEN k ELSE hit, hit |-> hit, armed |-> armed, since |-> {}]
  BY <1>3, <1>4
<1>6. /\ DOMAIN s6'[r] = DOMAIN AS!Idle /\ s6'[r].step = "sent" /\ s6'[r].hit \in AS!Keys
      /\ s6'[r].key = s6'[r].hit /\ s6'[r].armed \in BOOLEAN /\ s6'[r].since = {}
  BY <1>1, <1>2, <1>4, <1>5
<1>7. DOMAIN s6' = Commands /\ \A q \in Commands : q # r => s6'[q] = s6[q]
  BY <1>3, <1>4
<1> QED
  BY <1>3, <1>6, <1>7, CommandsAlone

LEMMA NoAnswerStep ==
    ASSUME AS!IInv, NEW r \in Commands, AS!NoAnswer(r) PROVE AS!IInv'
<1>1. /\ s1' = s1 /\ s2' = s2 /\ s3' = s3 /\ s4' = s4 /\ s5' = s5 /\ s7' = s7 /\ s8' = s8
      /\ s6' = [s6 EXCEPT ![r] = AS!Idle] /\ DOMAIN s6 = Commands /\ AS!Idle.step = "idle"
  BY DEF AS!NoAnswer, AS!IInv, AS!ArmedShape, AS!Idle
<1>2. DOMAIN s6' = Commands /\ s6'[r] = AS!Idle /\ \A q \in Commands : q # r => s6'[q] = s6[q]
  BY <1>1
<1> QED
  BY <1>1, <1>2, CommandsAlone

LEMMA ReadFlagStep == ASSUME AS!IInv, NEW f \in AS!Flags, AS!ReadFlag(f) PROVE AS!IInv'
<1>1. /\ s1' = s1 /\ s3' = s3 /\ s4' = s4 /\ s6' = s6 /\ s7' = s7 /\ s8' = s8 /\ s5.on
      /\ s2' = [s2 EXCEPT ![f] = s1[f]] /\ s5' = [s5 EXCEPT !.left = @ \ {f}]
  BY DEF AS!ReadFlag
<1>2. /\ s5 \in [on : BOOLEAN, age : 0..AS!Old, left : SUBSET AS!Flags]
      /\ s2 \in [AS!Flags -> BOOLEAN] /\ s1[f] \in BOOLEAN
  BY DEF AS!IInv, AS!ArmedShape
<1>3. /\ s5'.on /\ s5'.age = s5.age /\ s5'.left = s5.left \ {f}
      /\ s5' \in [on : BOOLEAN, age : 0..AS!Old, left : SUBSET AS!Flags]
      /\ s2' \in [AS!Flags -> BOOLEAN] /\ \A g \in AS!Flags : s2'[g] = IF g = f THEN s1[f] ELSE s2[g]
  BY <1>1, <1>2
<1>4. \A k \in AS!Keys : AS!Flag(k) \in AS!Flags
  BY DEF AS!Flags
<1>5. AS!ArmedShape'
  BY <1>1, <1>3 DEF AS!IInv, AS!ArmedShape
<1>6. AS!OneOverride' /\ AS!NowIsCovered'
  BY <1>1 DEF AS!IInv, AS!OneOverride, AS!NowIsCovered
<1>7. AS!ReadIsCovered'
  BY <1>1, <1>3, <1>4 DEF AS!IInv, AS!ReadIsCovered, AS!NowIsCovered
<1>8. AS!NoJumpBack'
  BY <1>1, <1>3, <1>4 DEF AS!IInv, AS!NoJumpBack, AS!NowIsCovered, AS!Shown, AS!Ended
<1> QED
  BY <1>5, <1>6, <1>7, <1>8 DEF AS!IInv

(* A complete refresh counts from its start.                               *)
LEMMA EndRefreshStep == ASSUME ArmedBounds, AS!IInv, AS!EndRefresh \/ AS!RefreshFails PROVE AS!IInv'
<1>1. /\ s1' = s1 /\ s2' = s2 /\ s3' = s3 /\ s6' = s6 /\ s7' = s7
      /\ s5' = [on |-> FALSE, age |-> AS!Old, left |-> {}]
      /\ \/ s5.on /\ s5.left = {} /\ s4' = s5.age /\ s8' = [f \in AS!Flags |-> <<s8[f][2], BOOLEAN>>]
         \/ s4' = s4 /\ s8' = s8
  BY DEF AS!EndRefresh, AS!RefreshFails, AS!Over
<1>2. /\ s5.age \in 0..AS!Old /\ s4 \in 0..AS!Old /\ (s5.on => s5.age <= s4) /\ AS!Old \in 0..AS!Old
      /\ \A k \in AS!Keys : AS!Flag(k) \in AS!Flags
      /\ \A k \in AS!Keys : s3[k].age \in 0..AS!Old
      /\ s8 \in [AS!Flags -> (SUBSET BOOLEAN) \X (SUBSET BOOLEAN)]
  BY DEF ArmedBounds, AS!Old, AS!IInv, AS!ArmedShape, AS!Flags
<1>3. s8' \in [AS!Flags -> (SUBSET BOOLEAN) \X (SUBSET BOOLEAN)]
  BY <1>1, <1>2
<1>4. \A f \in AS!Flags : \/ s5.on /\ s5.left = {} /\ s8'[f][1] = s8[f][2] /\ s8'[f][2] = BOOLEAN
                          \/ s8'[f] = s8[f]
  BY <1>1
<1>5. AS!ArmedShape'
  BY <1>1, <1>2, <1>3 DEF AS!IInv, AS!ArmedShape
<1>6. AS!OneOverride'
  BY <1>1 DEF AS!IInv, AS!OneOverride
<1>7. s1 \in [AS!Flags -> BOOLEAN]
  BY DEF AS!IInv, AS!ArmedShape
<1>8. AS!NowIsCovered'
  BY <1>1, <1>4, <1>7 DEF AS!IInv, AS!NowIsCovered
<1>9. AS!ReadIsCovered'
  BY <1>1, <1>4 DEF AS!IInv, AS!ReadIsCovered
<1>10. AS!NoJumpBack'
  <2>1. \A k \in AS!Keys : AS!Ended(k) => AS!Ended(k)'
    BY <1>1, <1>2 DEF AS!Ended
  <2>2. \A k \in AS!Keys : AS!Ended(k)' => AS!Ended(k) \/ s2[AS!Flag(k)] \in s7[k]
    BY <1>1, <1>2 DEF AS!Ended, AS!IInv, AS!ReadIsCovered
  <2> QED
    BY <1>1, <2>1, <2>2 DEF AS!IInv, AS!NoJumpBack, AS!Shown
<1> QED
  BY <1>5, <1>6, <1>8, <1>9, <1>10 DEF AS!IInv

LEMMA ArmedStep == ASSUME ArmedBounds, AS!IInv, [AS!Next]_(AS!armedVars) PROVE AS!IInv'
<1>1. CASE UNCHANGED AS!armedVars
  BY <1>1 DEF AS!armedVars, AS!IInv, AS!ArmedShape, AS!OneOverride, AS!NowIsCovered, AS!ReadIsCovered,
     AS!NoJumpBack, AS!Shown, AS!Ended
<1>2. \A k \in ArmableKeys : AS!Flag(k) \in AS!Flags
  BY DEF ArmedBounds, AS!Flags
<1>3. CASE AS!Next
  BY <1>2, <1>3, TickStep, StartRefreshStep, AcceptedStep, SnapshotStep, TakesStep, ElsewhereStep, ArmStep,
     NoAnswerStep, ReadFlagStep, EndRefreshStep DEF AS!Next
<1> QED
  BY <1>1, <1>3

LEMMA ArmedInOrder ==
    ASSUME ArmedBounds, AS!IInv
    PROVE  AS!NoJumpBack /\ AS!RefreshCorrects /\ AS!MiniShowsOneState
<1>1. AS!RefreshCorrects
  BY DEF AS!IInv, AS!ReadIsCovered, AS!RefreshCorrects, AS!Shown, AS!Ended, AS!Flags
<1>2. AS!MiniShowsOneState
  BY DEF AS!IInv, AS!OneOverride, AS!MiniShowsOneState, AS!Shown, AS!Ended
<1> QED
  BY <1>1, <1>2 DEF AS!IInv
-----------------------------------------------------------------------------
(* What people say of a verdict (Feedback): s1 are the verdicts, s2 the    *)
(* rows, s3 the answers under way, s4 the training run, s5 what was shown  *)
(* to it, s6 and s7 the clips analyzed or answered across, s8 the counts.  *)
LEMMA QuietShape ==
    /\ DOMAIN FB!Quiet = {"op", "clip", "correct", "tapped", "was", "meant", "doomed"}
    /\ FB!Quiet.op = "none" /\ FB!Quiet.correct \in BOOLEAN
    /\ FB!SaysWhatIsMeant(FB!Quiet)
BY DEF FB!Quiet, FB!SaysWhatIsMeant

(* What is known of one answer under way.                                  *)
LEMMA OfAnswer ==
    ASSUME FB!IInv, NEW p \in Judges
    PROVE  /\ DOMAIN s3 = Judges /\ DOMAIN s3[p] = DOMAIN FB!Quiet /\ s3[p].correct \in BOOLEAN
           /\ s3[p].op # "none" => s3[p].clip \in JudgedClips
           /\ s3[p].op \in {"derived", "replacing"} => s3[p].was \in FB!Verdicts
           /\ s3[p].clip \notin s6 => FB!SaysWhatIsMeant(s3[p])
<1>1. FB!FeedbackShape /\ FB!StillMeant
  BY DEF FB!IInv
<1>2. DOMAIN s3 = Judges
  BY <1>1 DEF FB!FeedbackShape
<1>3. DOMAIN s3[p] = DOMAIN FB!Quiet /\ s3[p].correct \in BOOLEAN
  BY <1>1 DEF FB!FeedbackShape
<1>4. s3[p].op # "none" => s3[p].clip \in JudgedClips
  BY <1>1 DEF FB!FeedbackShape
<1> QED
  BY <1>1, <1>2, <1>3, <1>4 DEF FB!StillMeant

(* What the table says of a clip is one row, if they all are one.          *)
LEMMA OneRow ==
    ASSUME NEW c, \A r, q \in FB!Of(c) : r = q
    PROVE  FB!Cardinality(FB!Of(c)) <= 1
<1>1. \A S : FB!Cardinality(S) = Cardinality(S)
  BY DEF FB!Cardinality, Cardinality, FB!IsFiniteSet, IsFiniteSet
<1>2. CASE FB!Of(c) = {}
  BY <1>1, <1>2, FS_EmptySet
<1>3. CASE FB!Of(c) # {}
  <2>1. PICK r \in FB!Of(c) : TRUE
    BY <1>3
  <2>2. FB!Of(c) = {r}
    BY <2>1
  <2> QED
    BY <1>1, <2>2, FS_Singleton
<1> QED
  BY <1>2, <1>3

LEMMA FeedbackInit == ASSUME FB!Init PROVE FB!IInv
<1>1. \A p \in Judges : s3[p] = FB!Quiet
  BY DEF FB!Init
<1>2. FB!FeedbackShape
  BY <1>1, QuietShape DEF FB!Init, FB!FeedbackShape, FB!Verdicts
<1>3. FB!OneAnswer /\ FB!StillMeant
  BY <1>1, QuietShape DEF FB!Init, FB!OneAnswer, FB!StillMeant, FB!Of
<1>4. FB!StaysTrue /\ FB!NeverTowardMistake /\ FB!FreshAnswersTrained
  BY DEF FB!Init, FB!StaysTrue, FB!NeverTowardMistake, FB!FreshAnswersTrained
<1>5. \A c : FB!Of(c) = {}
  BY DEF FB!Init, FB!Of
<1> QED
  BY <1>2, <1>3, <1>4, <1>5 DEF FB!IInv

(* An answer that begins, or looks at the verdict: no row changes, and it  *)
(* is not yet replacing one.                                               *)
LEMMA AnswerMoves ==
    ASSUME FB!IInv, NEW p \in Judges, NEW a, s3' = [s3 EXCEPT ![p] = a],
           s1' = s1, s2' = s2, s4' = s4, s5' = s5, s6' = s6, s7' = s7,
           DOMAIN s8' = DOMAIN s8, s8'.stored = s8.stored,
           DOMAIN a = DOMAIN FB!Quiet, a.correct \in BOOLEAN,
           a.op \in {"none", "tapped", "judged", "derived"},
           a.op # "none" => a.clip \in JudgedClips,
           a.op = "derived" => a.was \in FB!Verdicts,
           a.clip \notin s6 => FB!SaysWhatIsMeant(a)
    PROVE  FB!IInv'
<1>1. \A q \in Judges : s3'[q] = IF q = p THEN a ELSE s3[q]
  BY DEF FB!IInv, FB!FeedbackShape
<1>2. DOMAIN s3' = Judges
  BY DEF FB!IInv, FB!FeedbackShape
<1>3. FB!FeedbackShape'
  BY <1>1, <1>2 DEF FB!IInv, FB!FeedbackShape, FB!Says
<1>4. FB!OneAnswer'
  BY <1>1 DEF FB!IInv, FB!OneAnswer, FB!Of
<1>5. FB!StillMeant'
  BY <1>1 DEF FB!IInv, FB!StillMeant, FB!SaysWhatIsMeant
<1> QED
  BY <1>3, <1>4, <1>5 DEF FB!IInv, FB!StaysTrue, FB!Of, FB!NeverTowardMistake, FB!FreshAnswersTrained

LEMMA AnswerBegins ==
    ASSUME FB!IInv, NEW p \in Judges, NEW c \in JudgedClips,
           \/ FB!Tap(p, c)
           \/ \E up \in BOOLEAN : FB!Thumb(p, c, up)
    PROVE  FB!IInv'
<1>1. DOMAIN s8 = {"answers", "analyses", "runs", "stored"} /\ s1 \in [JudgedClips -> FB!Verdicts \cup {"none"}]
  BY DEF FB!IInv, FB!FeedbackShape
<1>2. CASE FB!Tap(p, c)
  <2> DEFINE a == [FB!Quiet EXCEPT !.op = "tapped", !.clip = c, !.tapped = TRUE, !.meant = "clear"]
  <2>1. /\ s1' = s1 /\ s2' = s2 /\ s3' = [s3 EXCEPT ![p] = a] /\ s4' = s4 /\ s5' = s5 /\ s6' = s6 /\ s7' = s7
        /\ s8' = [s8 EXCEPT !.answers = @ + 1]
    BY <1>2 DEF FB!Tap, FB!Begin
  <2>2. DOMAIN a = DOMAIN FB!Quiet /\ a.op = "tapped" /\ a.clip = c /\ a.meant = "clear" /\ a.correct \in BOOLEAN
    BY QuietShape
  <2> HIDE DEF a
  <2>3. DOMAIN s8' = DOMAIN s8 /\ s8'.stored = s8.stored
    BY <1>1, <2>1
  <2>4. FB!SaysWhatIsMeant(a)
    BY <2>2 DEF FB!SaysWhatIsMeant
  <2> QED
    BY <2>1, <2>2, <2>3, <2>4, AnswerMoves
<1>3. ASSUME NEW up \in BOOLEAN, FB!Thumb(p, c, up) PROVE FB!IInv'
  <2> DEFINE meant == IF up THEN s1[c] ELSE FB!Other(s1[c])
             a == [FB!Quiet EXCEPT !.op = "judged", !.clip = c, !.correct = up, !.meant = meant]
  <2>1. /\ s1' = s1 /\ s2' = s2 /\ s3' = [s3 EXCEPT ![p] = a] /\ s4' = s4 /\ s5' = s5 /\ s6' = s6 /\ s7' = s7
        /\ s8' = [s8 EXCEPT !.answers = @ + 1] /\ s1[c] # "none"
    BY <1>3 DEF FB!Thumb, FB!Begin
  <2>2. DOMAIN a = DOMAIN FB!Quiet /\ a.op = "judged" /\ a.clip = c /\ a.meant = meant /\ a.correct = up
    BY QuietShape
  <2>3. DOMAIN s8' = DOMAIN s8 /\ s8'.stored = s8.stored
    BY <1>1, <2>1
  <2> HIDE DEF a
  <2>4. FB!SaysWhatIsMeant(a)
    BY <2>1, <2>2 DEF FB!SaysWhatIsMeant, FB!Meaning
  <2> QED
    BY <2>1, <2>2, <2>3, <2>4, AnswerMoves
<1> QED
  BY <1>2, <1>3

(* The two looks at the verdict, by a tap and by the recording itself.     *)
LEMMA AnswerLooks ==
    ASSUME FB!IInv, NEW p \in Judges, FB!JudgeTap(p) \/ FB!Record(p)
    PROVE  FB!IInv'
<1> DEFINE a == s3[p]
           v == s1[a.clip]
<1>0. s1 \in [JudgedClips -> FB!Verdicts \cup {"none"}]
  BY DEF FB!IInv, FB!FeedbackShape
<1>1. /\ DOMAIN a = DOMAIN FB!Quiet /\ a.correct \in BOOLEAN /\ (a.op # "none" => a.clip \in JudgedClips)
      /\ a.op # "none" => v \in FB!Verdicts \cup {"none"}
  BY <1>0, OfAnswer
<1>2. a.clip \notin s6 => /\ a.op = "tapped" => a.meant = "clear"
                          /\ a.op = "judged" => a.meant = FB!Meaning(a.correct, v)
  BY OfAnswer DEF FB!SaysWhatIsMeant
<1>3. CASE FB!JudgeTap(p)
  <2> DEFINE b == IF v = "none" THEN FB!Quiet ELSE [a EXCEPT !.op = "judged", !.correct = FB!TapAgrees(v)]
  <2>1. /\ a.op = "tapped" /\ s3' = [s3 EXCEPT ![p] = b]
        /\ s1' = s1 /\ s2' = s2 /\ s4' = s4 /\ s5' = s5 /\ s6' = s6 /\ s7' = s7 /\ s8' = s8
    BY <1>3 DEF FB!JudgeTap
  <2>2. CASE v = "none"
    BY <2>1, <2>2, QuietShape, AnswerMoves
  <2>3. CASE v # "none"
    <3>1. /\ DOMAIN b = DOMAIN FB!Quiet /\ b.op = "judged" /\ b.clip = a.clip /\ b.meant = a.meant
          /\ b.correct = (v = "clear")
      BY <1>1, <2>3, QuietShape DEF FB!TapAgrees
    <3>2. v \in FB!Verdicts
      BY <1>1, <2>1, <2>3
    <3> HIDE DEF b
    <3>3. b.clip \notin s6 => FB!SaysWhatIsMeant(b)
      BY <1>2, <2>1, <2>3, <3>1, <3>2 DEF FB!SaysWhatIsMeant, FB!Meaning, FB!Other, FB!Verdicts
    <3> QED
      BY <1>1, <2>1, <2>3, <3>1, <3>3, AnswerMoves
  <2> QED
    BY <2>2, <2>3
<1>4. CASE FB!Record(p)
  <2> DEFINE b == IF v = "none" THEN FB!Quiet ELSE [a EXCEPT !.op = "derived", !.was = v]
  <2>1. /\ a.op = "judged" /\ s3' = [s3 EXCEPT ![p] = b]
        /\ s1' = s1 /\ s2' = s2 /\ s4' = s4 /\ s5' = s5 /\ s6' = s6 /\ s7' = s7 /\ s8' = s8
    BY <1>4 DEF FB!Record
  <2>2. CASE v = "none"
    BY <2>1, <2>2, QuietShape, AnswerMoves
  <2>3. CASE v # "none"
    <3>1. /\ DOMAIN b = DOMAIN FB!Quiet /\ b.op = "derived" /\ b.clip = a.clip /\ b.meant = a.meant
          /\ b.correct = a.correct /\ b.was = v
      BY <1>1, <2>3, QuietShape
    <3>2. v \in FB!Verdicts
      BY <1>1, <2>1, <2>3
    <3> HIDE DEF b
    <3>3. b.clip \notin s6 => FB!SaysWhatIsMeant(b)
      BY <1>2, <2>1, <3>1 DEF FB!SaysWhatIsMeant
    <3> QED
      BY <1>1, <2>1, <3>1, <3>2, <3>3, AnswerMoves
  <2> QED
    BY <2>2, <2>3
<1> QED
  BY <1>3, <1>4

(* An answer is about to replace the rows there are of its clip; whoever   *)
(* does so beside another makes the clip one that was answered across.     *)
LEMMA ReplaceStep == ASSUME FB!IInv, NEW p \in Judges, FB!Replace(p) PROVE FB!IInv'
<1> DEFINE a == s3[p]
           b == [a EXCEPT !.op = "replacing", !.doomed = FB!Doomed(a.clip)]
<1>1. /\ a.op = "derived" /\ s3' = [s3 EXCEPT ![p] = b]
      /\ s1' = s1 /\ s2' = s2 /\ s4' = s4 /\ s5' = s5 /\ s6' = s6 /\ s8' = s8
      /\ s7' = IF \E q \in Judges : s3[q].op = "replacing" /\ s3[q].clip = a.clip
                 THEN s7 \cup {a.clip} ELSE s7
  BY DEF FB!Replace
<1>2. DOMAIN a = DOMAIN FB!Quiet /\ a.correct \in BOOLEAN /\ a.clip \in JudgedClips /\ DOMAIN s3 = Judges
  BY <1>1, OfAnswer
<1>3. /\ DOMAIN b = DOMAIN FB!Quiet /\ b.op = "replacing" /\ b.doomed = FB!Doomed(a.clip) /\ b.clip = a.clip
      /\ b.correct = a.correct /\ b.was = a.was /\ b.meant = a.meant
  BY <1>2, QuietShape
<1> HIDE DEF b
<1>4. DOMAIN s3' = Judges /\ \A q \in Judges : s3'[q] = IF q = p THEN b ELSE s3[q]
  BY <1>1, <1>2
<1>5. FB!FeedbackShape'
  BY <1>1, <1>2, <1>3, <1>4 DEF FB!IInv, FB!FeedbackShape, FB!Says
<1>6. FB!OneAnswer'
  <2> SUFFICES ASSUME NEW c \in JudgedClips \ s7'
               PROVE  /\ \A r, q \in FB!Of(c) : r = q
                      /\ \A u, q \in Judges :
                           s3'[u].op = "replacing" /\ s3'[u].clip = c =>
                              /\ \A r \in FB!Of(c) : r.id \in s3'[u].doomed
                              /\ s3'[q].op = "replacing" /\ s3'[q].clip = c => q = u
    BY <1>1 DEF FB!OneAnswer, FB!Of
  <2>1. c \notin s7 /\ (c = a.clip => \A q \in Judges : ~(s3[q].op = "replacing" /\ s3[q].clip = c))
    BY <1>1
  <2>2. c = a.clip => \A r \in FB!Of(c) : r.id \in b.doomed
    BY <1>3 DEF FB!Doomed
  <2>3. /\ \A r, q \in FB!Of(c) : r = q
        /\ \A u, q \in Judges :
             s3[u].op = "replacing" /\ s3[u].clip = c =>
                /\ \A r \in FB!Of(c) : r.id \in s3[u].doomed
                /\ s3[q].op = "replacing" /\ s3[q].clip = c => q = u
    BY <2>1 DEF FB!IInv, FB!OneAnswer
  <2> QED
    BY <1>3, <1>4, <2>1, <2>2, <2>3
<1>7. FB!StillMeant'
  BY <1>1, <1>3, <1>4 DEF FB!IInv, FB!StillMeant, FB!SaysWhatIsMeant
<1> QED
  BY <1>1, <1>5, <1>6, <1>7 DEF FB!IInv, FB!StaysTrue, FB!Of, FB!NeverTowardMistake, FB!FreshAnswersTrained

(* The new row has a new number, and says what its answer meant.           *)
LEMMA CommitStep == ASSUME FB!IInv, NEW p \in Judges, FB!Commit(p) PROVE FB!IInv'
<1> DEFINE a == s3[p]
<1>0. PICK n, new : n = s8.stored + 1 /\ new = FB!Row(a, n)
  OBVIOUS
<1>1. /\ a.op = "replacing" /\ s3' = [s3 EXCEPT ![p] = FB!Quiet] /\ s8' = [s8 EXCEPT !.stored = @ + 1]
      /\ s2' = {r \in s2 : r.id \notin a.doomed} \cup {new}
      /\ s1' = s1 /\ s4' = s4 /\ s5' = s5 /\ s6' = s6 /\ s7' = s7
  BY <1>0 DEF FB!Commit
<1>2. /\ a.clip \in JudgedClips /\ a.correct \in BOOLEAN /\ a.was \in FB!Verdicts /\ DOMAIN s3 = Judges
      /\ (a.clip \notin s6 => a.meant = FB!Meaning(a.correct, a.was))
  BY <1>1, OfAnswer DEF FB!SaysWhatIsMeant
<1>3. /\ DOMAIN new = {"id", "clip", "was", "correct", "corrected", "trained", "meant", "tapped"}
      /\ new.id = n /\ new.clip = a.clip /\ new.was = a.was /\ new.correct = a.correct /\ ~new.trained
      /\ new.trained \in BOOLEAN /\ new.corrected = FB!Corrected(a) /\ new.meant = a.meant
  BY <1>0 DEF FB!Row
<1>4. s8.stored \in Nat /\ s8'.stored = n /\ DOMAIN s8' = DOMAIN s8 /\ n \in Nat /\ n \in 1..n
  BY <1>0, <1>1 DEF FB!IInv, FB!FeedbackShape
<1>5. DOMAIN s3' = Judges /\ \A q \in Judges : s3'[q] = IF q = p THEN FB!Quiet ELSE s3[q]
  BY <1>1, <1>2
<1>6. /\ \A r \in s2 : FB!Says(r) /\ r.id # n /\ r.trained \in BOOLEAN
      /\ \A d \in s4.examples : FB!Says(d) /\ d.id # n
  BY <1>0, <1>4 DEF FB!IInv, FB!FeedbackShape, FB!Says
<1>7. FB!Says(new)' /\ \A r : FB!Says(r) => FB!Says(r)'
  BY <1>0, <1>2, <1>3, <1>4 DEF FB!Says, FB!Corrected
<1>8. FB!FeedbackShape'
  BY <1>1, <1>3, <1>4, <1>5, <1>6, <1>7, QuietShape DEF FB!IInv, FB!FeedbackShape
<1>9. FB!OneAnswer'
  <2> SUFFICES ASSUME NEW c \in JudgedClips \ s7
               PROVE  /\ \A r, q \in FB!Of(c)' : r = q
                      /\ \A u, q \in Judges :
                           s3'[u].op = "replacing" /\ s3'[u].clip = c =>
                              /\ \A r \in FB!Of(c)' : r.id \in s3'[u].doomed
                              /\ s3'[q].op = "replacing" /\ s3'[q].clip = c => q = u
    BY <1>1 DEF FB!OneAnswer
  <2>1. /\ \A r, q \in FB!Of(c) : r = q
        /\ \A u, q \in Judges :
             s3[u].op = "replacing" /\ s3[u].clip = c =>
                /\ \A r \in FB!Of(c) : r.id \in s3[u].doomed
                /\ s3[q].op = "replacing" /\ s3[q].clip = c => q = u
    BY DEF FB!IInv, FB!OneAnswer
  <2>2. CASE c = a.clip
    <3>1. FB!Of(c)' = {new}
      BY <1>1, <1>3, <2>1, <2>2 DEF FB!Of
    <3> QED
      BY <1>1, <1>5, <2>1, <2>2, <3>1, QuietShape
  <2>3. CASE c # a.clip
    <3>1. FB!Of(c)' \subseteq FB!Of(c)
      BY <1>1, <1>3, <2>3 DEF FB!Of
    <3> QED
      BY <1>5, <2>1, <3>1, QuietShape
  <2> QED
    BY <2>2, <2>3
<1>10. FB!StillMeant'
  BY <1>1, <1>5, QuietShape DEF FB!IInv, FB!StillMeant, FB!SaysWhatIsMeant
<1>11. \A c \in JudgedClips \ s6' : \A r \in FB!Of(c)' : FB!Label(r) = r.meant
  <2>1. a.clip \notin s6 => FB!Label(new) = new.meant
    BY <1>2, <1>3 DEF FB!Label, FB!Corrected, FB!Meaning, FB!Other, FB!Verdicts
  <2> QED
    BY <1>1, <1>3, <2>1 DEF FB!IInv, FB!Of
<1>12. FB!StaysTrue'
  BY <1>1, <1>3, <1>6 DEF FB!IInv, FB!StaysTrue
<1>13. FB!NeverTowardMistake' /\ FB!FreshAnswersTrained'
  BY <1>1, <1>3 DEF FB!IInv, FB!NeverTowardMistake, FB!FreshAnswersTrained
<1> QED
  BY <1>8, <1>9, <1>10, <1>11, <1>12, <1>13 DEF FB!IInv

LEMMA RetractStep == ASSUME FB!IInv, NEW c \in JudgedClips, FB!Retract(c) PROVE FB!IInv'
<1>1. /\ s2' \subseteq s2
      /\ s1' = s1 /\ s3' = s3 /\ s4' = s4 /\ s5' = s5 /\ s6' = s6 /\ s7' = s7 /\ s8' = s8
  BY DEF FB!Retract
<1>2. FB!FeedbackShape'
  BY <1>1 DEF FB!IInv, FB!FeedbackShape, FB!Says
<1>3. FB!OneAnswer'
  BY <1>1 DEF FB!IInv, FB!OneAnswer, FB!Of
<1>4. FB!StillMeant'
  BY <1>1 DEF FB!IInv, FB!StillMeant, FB!SaysWhatIsMeant
<1> QED
  BY <1>1, <1>2, <1>3, <1>4 DEF FB!IInv, FB!StaysTrue, FB!Of, FB!NeverTowardMistake, FB!FreshAnswersTrained

(* A new verdict leaves no answer under way that is about the old one, but *)
(* for those of a clip that is noted as changed.                           *)
LEMMA AnalyzedStep ==
    ASSUME FB!IInv, NEW c \in JudgedClips, NEW v \in FB!Verdicts, FB!Analyzed(c, v) PROVE FB!IInv'
<1>1. /\ s1' = [s1 EXCEPT ![c] = v] /\ s8' = [s8 EXCEPT !.analyses = @ + 1]
      /\ s6 \subseteq s6'
      /\ \A p \in Judges : s3[p].op # "none" /\ s3[p].clip = c => c \in s6'
      /\ s2' = s2 /\ s3' = s3 /\ s4' = s4 /\ s5' = s5 /\ s7' = s7
  BY DEF FB!Analyzed
<1>2. /\ DOMAIN s8' = DOMAIN s8 /\ s8'.stored = s8.stored
      /\ s1' \in [JudgedClips -> FB!Verdicts \cup {"none"}] /\ s1'[c] = v
      /\ \A d \in JudgedClips : d # c => s1'[d] = s1[d]
  BY <1>1 DEF FB!IInv, FB!FeedbackShape
<1>3. FB!FeedbackShape'
  BY <1>1, <1>2 DEF FB!IInv, FB!FeedbackShape, FB!Says
<1>4. FB!OneAnswer'
  BY <1>1 DEF FB!IInv, FB!OneAnswer, FB!Of
<1>5. FB!StillMeant'
  <2>1. \A p \in Judges : s3[p].op \in {"tapped", "judged", "derived", "replacing"} =>
           s3[p].clip \in JudgedClips /\ (s3[p].clip \notin s6' => s1'[s3[p].clip] = s1[s3[p].clip])
    BY <1>1, <1>2, OfAnswer
  <2> QED
    BY <1>1, <2>1 DEF FB!IInv, FB!StillMeant, FB!SaysWhatIsMeant
<1> QED
  BY <1>1, <1>3, <1>4, <1>5 DEF FB!IInv, FB!StaysTrue, FB!Of, FB!NeverTowardMistake, FB!FreshAnswersTrained

LEMMA StartTrainingStep ==
    ASSUME FB!IInv, NEW usable \in SUBSET JudgedClips, FB!StartTraining(usable) PROVE FB!IInv'
<1>1. /\ s4' = [on |-> TRUE, examples |-> {r \in FB!Oldest : r.clip \in usable}]
      /\ s8' = [s8 EXCEPT !.runs = @ + 1]
      /\ s1' = s1 /\ s2' = s2 /\ s3' = s3 /\ s5' = s5 /\ s6' = s6 /\ s7' = s7
  BY DEF FB!StartTraining
<1>2. DOMAIN s8' = DOMAIN s8 /\ s8'.stored = s8.stored
  BY <1>1 DEF FB!IInv, FB!FeedbackShape
<1>3. s4'.examples \subseteq s2
  BY <1>1 DEF FB!Oldest, FB!Pending
<1>4. FB!FeedbackShape'
  BY <1>1, <1>2, <1>3 DEF FB!IInv, FB!FeedbackShape, FB!Says
<1>5. FB!OneAnswer' /\ FB!StillMeant'
  BY <1>1 DEF FB!IInv, FB!OneAnswer, FB!StillMeant, FB!SaysWhatIsMeant, FB!Of
<1> QED
  BY <1>1, <1>3, <1>4, <1>5 DEF FB!IInv, FB!StaysTrue, FB!Of, FB!NeverTowardMistake, FB!FreshAnswersTrained

(* What a run used was shown to it as it stands, since a row's number is   *)
(* its own.                                                                *)
LEMMA EndTrainingStep ==
    ASSUME FB!IInv, NEW done \in SUBSET s4.examples, FB!EndTraining(done) PROVE FB!IInv'
<1> DEFINE Lesson(d) == [id |-> d.id, label |-> FB!Label(d), was |-> d.was, correct |-> d.correct]
           Marked(r) == [r EXCEPT !.trained = @ \/ r.id \in FB!Used(done)]
<1>1. /\ s4' = [on |-> FALSE, examples |-> {}] /\ s5' = s5 \cup {Lesson(d) : d \in done}
      /\ s2' = {Marked(r) : r \in s2}
      /\ s1' = s1 /\ s3' = s3 /\ s6' = s6 /\ s7' = s7 /\ s8' = s8
  BY DEF FB!EndTraining
<1>2. ASSUME NEW r \in s2
      PROVE  /\ DOMAIN Marked(r) = DOMAIN r /\ Marked(r).id = r.id /\ Marked(r).clip = r.clip
             /\ Marked(r).was = r.was /\ Marked(r).correct = r.correct /\ Marked(r).corrected = r.corrected
             /\ Marked(r).meant = r.meant /\ FB!Label(Marked(r)) = FB!Label(r)
             /\ Marked(r).trained \in BOOLEAN
             /\ Marked(r).trained => r.trained \/ r.id \in FB!Used(done)
             /\ FB!Says(Marked(r))
  <2>1. FB!Says(r) /\ r.trained \in BOOLEAN
    BY DEF FB!IInv, FB!FeedbackShape
  <2>2. /\ DOMAIN Marked(r) = DOMAIN r /\ Marked(r).id = r.id /\ Marked(r).clip = r.clip
        /\ Marked(r).was = r.was /\ Marked(r).correct = r.correct /\ Marked(r).corrected = r.corrected
        /\ Marked(r).meant = r.meant
        /\ Marked(r).trained = (r.trained \/ r.id \in FB!Used(done))
    BY <2>1 DEF FB!Says
  <2> HIDE DEF Marked
  <2> QED
    BY <2>1, <2>2 DEF FB!Says, FB!Label
<1> HIDE DEF Marked
<1>3. \A d \in done : /\ Lesson(d).id = d.id /\ Lesson(d).label = FB!Label(d)
                      /\ Lesson(d).was = d.was /\ Lesson(d).correct = d.correct /\ Lesson(d) \in s5'
  BY <1>1
<1> HIDE DEF Lesson
<1>4. FB!FeedbackShape'
  BY <1>1, <1>2 DEF FB!IInv, FB!FeedbackShape, FB!Says
<1>5. FB!StaysTrue'
  BY <1>1, <1>2 DEF FB!IInv, FB!StaysTrue
<1>6. FB!OneAnswer'
  <2>1. \A c, q : q \in FB!Of(c)' => \E r \in FB!Of(c) : q = Marked(r) /\ q.id = r.id
    BY <1>1, <1>2 DEF FB!Of
  <2> QED
    BY <1>1, <2>1 DEF FB!IInv, FB!OneAnswer
<1>7. FB!StillMeant'
  BY <1>1 DEF FB!IInv, FB!StillMeant, FB!SaysWhatIsMeant
<1>8. \A c \in JudgedClips \ s6' : \A r \in FB!Of(c)' : FB!Label(r) = r.meant
  BY <1>1, <1>2 DEF FB!IInv, FB!Of
<1>9. FB!NeverTowardMistake'
  <2>1. \A d \in done : ~d.correct => FB!Label(d) # d.was
    BY DEF FB!IInv, FB!FeedbackShape, FB!Says, FB!Label, FB!Other, FB!Verdicts
  <2> QED
    BY <1>1, <1>3, <2>1 DEF FB!IInv, FB!NeverTowardMistake
<1>10. FB!FreshAnswersTrained'
  <2> SUFFICES ASSUME NEW r \in s2, Marked(r).trained
               PROVE  \E s \in s5' : s.id = r.id /\ s.label = FB!Label(r)
    BY <1>1, <1>2 DEF FB!FreshAnswersTrained
  <2>1. CASE r.trained
    BY <1>1, <2>1 DEF FB!IInv, FB!FreshAnswersTrained
  <2>2. CASE r.id \in FB!Used(done)
    <3>1. PICK d \in done : d.id = r.id
      BY <2>2 DEF FB!Used
    <3>2. FB!Label(d) = FB!Label(r)
      BY <3>1 DEF FB!IInv, FB!StaysTrue
    <3> QED
      BY <1>3, <3>1, <3>2
  <2> QED
    BY <1>2, <2>1, <2>2
<1> QED
  BY <1>4, <1>5, <1>6, <1>7, <1>8, <1>9, <1>10 DEF FB!IInv

LEMMA FeedbackStep == ASSUME FB!IInv, [FB!Next]_(FB!feedbackVars) PROVE FB!IInv'
<1>1. CASE UNCHANGED FB!feedbackVars
  BY <1>1 DEF FB!feedbackVars, FB!IInv, FB!FeedbackShape, FB!Says, FB!StaysTrue, FB!OneAnswer, FB!StillMeant,
     FB!SaysWhatIsMeant, FB!Of, FB!NeverTowardMistake, FB!FreshAnswersTrained
<1>2. CASE FB!Next
  BY <1>2, AnswerBegins, AnswerLooks, ReplaceStep, CommitStep, RetractStep, AnalyzedStep, StartTrainingStep,
     EndTrainingStep DEF FB!Next, FB!Verdicts
<1> QED
  BY <1>1, <1>2

(* What the pages show and keep: the tab shows a state that Blink has had  *)
(* since the last accepted command, a complete refresh corrects it, a Mini *)
(* has one state; a clip's answer is one row that says what was meant,     *)
(* nothing is taught that a person called wrong, and only what a run was   *)
(* shown counts as used.  For any account, clips, people and limits.       *)
THEOREM PagesStayInOrder == ASSUME ArmedBounds PROVE Spec => []PagesInOrder
<1> DEFINE Good == /\ which = "armed state" => AS!IInv
                   /\ which = "feedback" => FB!IInv
<1>1. Init => Good
  BY ArmedInit, FeedbackInit DEF Init
<1>2. Good /\ [Next]_bank => Good'
  <2> SUFFICES ASSUME Good, [Next]_bank PROVE Good'
    OBVIOUS
  <2>1. CASE which = "armed state"
    <3>1. which' = "armed state" /\ (AS!Next \/ UNCHANGED AS!armedVars)
      BY <2>1 DEF Next, bank, AS!armedVars
    <3> QED
      BY <2>1, <3>1, ArmedStep
  <2>2. CASE which = "feedback"
    <3>1. which' = "feedback" /\ (FB!Next \/ UNCHANGED FB!feedbackVars)
      BY <2>2 DEF Next, bank, FB!feedbackVars
    <3> QED
      BY <2>2, <3>1, FeedbackStep
  <2>3. CASE which \notin {"armed state", "feedback"}
    <3>1. which' = which
      BY DEF Next, bank
    <3> QED
      BY <2>3, <3>1
  <2> QED
    BY <2>1, <2>2, <2>3
<1>3. Good => PagesInOrder
  <2>1. FB!IInv => FB!OpinionKept /\ FB!NeverTowardMistake /\ FB!FreshAnswersTrained
    BY OneRow DEF FB!IInv, FB!OneAnswer, FB!OpinionKept
  <2> QED
    BY <2>1, ArmedInOrder DEF PagesInOrder
<1> QED
  BY <1>1, <1>2, <1>3, PTL DEF Spec

-----------------------------------------------------------------------------
(* The marked assets (MarkedAssets): s1 is the file, s2 the analyzer's     *)
(* list, s3 the frames, s4 to s6 the renaming, s7 the requests, s8 the     *)
(* lock, s10 and s11 what disturbs, s12 the tally.                         *)

(* A camera may carry some number of assets, its first name is one of its  *)
(* names, and no user is called nobody.                                    *)
AssetBounds ==
    AssetsPerCamera \in Nat /\ FirstAssetPlace \in AssetPlaces /\ "nobody" \notin AssetUsers

LEMMA CardAssets == \A S : MA!Cardinality(S) = Cardinality(S) /\ (MA!IsFiniteSet(S) <=> IsFiniteSet(S))
BY DEF MA!Cardinality, Cardinality, MA!IsFiniteSet, IsFiniteSet

(* A list that is another one, changed entry by entry.                     *)
Follows(S, T, f) == f \in [S -> T] /\ \A b \in T : \E a \in S : b = f[a]

LEMMA FewerFollow ==
    ASSUME NEW S, NEW T, NEW f, Follows(S, T, f), IsFiniteSet(S)
    PROVE  IsFiniteSet(T) /\ Cardinality(T) <= Cardinality(S) /\ Cardinality(T) \in Nat /\ Cardinality(S) \in Nat
<1>1. f \in Surjection(S, T)
  BY DEF Follows, Surjection
<1> QED
  BY <1>1, FS_Surjection, FS_CardinalityType

Edits(f, r) ==
    \A a \in s1 : /\ f[a] \in MA!AssetRecords /\ f[a].id = a.id /\ f[a].camera = a.camera
                  /\ f[a].name = IF a.id = r.id /\ r.name # "" THEN r.name ELSE a.name

(* What an update makes of the list: only the asset asked for is changed,  *)
(* and it stays on its camera.                                             *)
LEMMA ChangedList ==
    ASSUME MA!AssetsShape, NEW r,
           r \in MA!RequestRecords
    PROVE  \E f : Follows(s1, MA!Changed(r), f) /\ Edits(f, r)
<1> DEFINE g(a) == IF a.id # r.id THEN a
                   ELSE IF r.name = "" THEN [a EXCEPT !.on = ~@] ELSE [a EXCEPT !.name = r.name]
<1> DEFINE f == [a \in s1 |-> g(a)]
<1>1. MA!Changed(r) = {g(a) : a \in s1}
  BY DEF MA!Changed
<1>2. \A a \in s1 : f[a] = g(a)
  OBVIOUS
<1>3. \A a \in s1 : a \in MA!AssetRecords
  BY DEF MA!AssetsShape
<1>4. \A a \in s1 : /\ g(a) \in MA!AssetRecords /\ g(a).id = a.id /\ g(a).camera = a.camera
                    /\ g(a).name = IF a.id = r.id /\ r.name # "" THEN r.name ELSE a.name
  <2>1. r.name \in AssetNames \cup {""}
    BY DEF MA!RequestRecords
  <2> QED
    BY <1>3, <2>1 DEF MA!AssetRecords
<1> HIDE DEF g
<1>5. Follows(s1, MA!Changed(r), f)
  BY <1>1, <1>2 DEF Follows
<1>6. \A a \in s1 : /\ f[a] \in MA!AssetRecords /\ f[a].id = a.id /\ f[a].camera = a.camera
                    /\ f[a].name = IF a.id = r.id /\ r.name # "" THEN r.name ELSE a.name
  BY <1>2, <1>4
<1> HIDE DEF f
<1>7. Edits(f, r)
  BY <1>6 DEF Edits
<1> QED
  BY <1>5, <1>7

LEMMA MovedList ==
    ASSUME MA!AssetsShape
    PROVE  \E f : /\ Follows(s1, MA!MovedAssets, f)
                  /\ \A a \in s1 :
                        /\ f[a] \in MA!AssetRecords /\ f[a].id = a.id /\ f[a].name = a.name
                        /\ f[a].camera = IF a.camera = s5 THEN s4 ELSE a.camera
<1> DEFINE g(a) == [a EXCEPT !.camera = IF @ = s5 THEN s4 ELSE @]
<1> DEFINE f == [a \in s1 |-> g(a)]
<1>1. MA!MovedAssets = {g(a) : a \in s1}
  BY DEF MA!MovedAssets
<1>2. \A a \in s1 : f[a] = g(a)
  OBVIOUS
<1>3. \A a \in s1 : a \in MA!AssetRecords
  BY DEF MA!AssetsShape
<1>0. s4 \in AssetPlaces
  BY DEF MA!AssetsShape
<1>4. \A a \in s1 : /\ g(a) \in MA!AssetRecords /\ g(a).id = a.id /\ g(a).name = a.name
                    /\ g(a).camera = IF a.camera = s5 THEN s4 ELSE a.camera
  BY <1>0, <1>3 DEF MA!AssetRecords
<1> HIDE DEF g
<1>5. Follows(s1, MA!MovedAssets, f)
  BY <1>1, <1>2 DEF Follows
<1> HIDE DEF f
<1> QED
  BY <1>2, <1>4, <1>5

LEMMA Requested ==
    ASSUME NEW op \in {"none", "create", "update", "delete"}, NEW id \in Nat, NEW c \in AssetPlaces,
           NEW name \in AssetNames \cup {""}, NEW pic \in Nat
    PROVE  [op |-> op, id |-> id, camera |-> c, name |-> name, frame |-> pic] \in MA!RequestRecords
BY DEF MA!RequestRecords

LEMMA NoRequest == ASSUME AssetBounds PROVE MA!None \in MA!RequestRecords /\ MA!None.op = "none" /\ MA!None.id = 0
<1>1. MA!None = [op |-> "none", id |-> 0, camera |-> FirstAssetPlace, name |-> "", frame |-> 0]
  BY DEF MA!None, MA!NoFrame
<1> QED
  BY <1>1, Requested DEF AssetBounds

(* Where nothing happens to the assets, the lists stay as they were.       *)
LEMMA AssetsRest ==
    /\ MA!AllAtHome /\ UNCHANGED <<s1, s4, s5, s6, s11>> => MA!AllAtHome'
    /\ MA!MarkedFollows /\ UNCHANGED <<s1, s2, s4, s5, s6, s9>> => MA!MarkedFollows'
<1>1. ASSUME MA!AllAtHome, UNCHANGED <<s1, s4, s5, s6, s11>> PROVE MA!AllAtHome'
  <2>1. /\ s11' = s11 /\ s1' = s1
        /\ \A a \in s1 : a.camera = MA!Home => a.camera = MA!Home'
    BY <1>1 DEF MA!Home
  <2> QED
    BY <1>1, <2>1, CardAssets DEF MA!AllAtHome
<1>2. ASSUME MA!MarkedFollows, UNCHANGED <<s1, s2, s4, s5, s6, s9>> PROVE MA!MarkedFollows'
  <2>1. MA!Grouped(s1)' = MA!Grouped(s1) /\ MA!Carried(MA!Grouped(s1))' = MA!Carried(MA!Grouped(s1))
    BY <1>2 DEF MA!Grouped, MA!Carried, MA!On
  <2> QED
    BY <1>2, <2>1 DEF MA!MarkedFollows
<1> QED
  BY <1>1, <1>2

LEMMA AssetsInit == ASSUME AssetBounds, MA!Init PROVE MA!IInv
<1>1. MA!AssetsShape
  <2>1. \A u \in AssetUsers : s7[u] = MA!None
    BY DEF MA!Init
  <2>2. MA!None \in MA!RequestRecords /\ MA!None.op = "none" /\ MA!None.id = 0
    BY NoRequest
  <2>3. MA!IsFiniteSet(s1)
    BY FS_EmptySet, CardAssets DEF MA!Init
  <2>4. s12 = [requests |-> 0, failures |-> 0]
    BY DEF MA!Init
  <2>5. s12 \in [requests : Nat, failures : Nat] /\ s12.requests = 0
    BY <2>4
  <2> QED
    BY <2>1, <2>2, <2>3, <2>5 DEF MA!Init, MA!AssetsShape, AssetBounds, MA!NoFrame
<1>2. MA!NumbersApart /\ MA!HeldIsGood
  BY DEF MA!Init, MA!NumbersApart, MA!HeldIsGood, AssetBounds, MA!None
<1>3. MA!AllAtHome
  BY FS_EmptySet, CardAssets DEF MA!Init, MA!AllAtHome, AssetBounds
<1>4. MA!FrameAtHome
  BY DEF MA!Init, MA!FrameAtHome, MA!None
<1>5. MA!MarkedFollows
  BY DEF MA!Init, MA!MarkedFollows
<1> QED
  BY <1>1, <1>2, <1>3, <1>4, <1>5 DEF MA!IInv

(* A new request: nothing is done for it yet.                              *)
LEMMA AskStep ==
    ASSUME MA!IInv, NEW u \in AssetUsers, NEW req \in MA!RequestRecords, s7[u].op = "none", req.op # "none",
           req.id <= s12.requests + 1,
           req.op = "create" => req.id = s12.requests + 1 /\ req.name \in AssetNames /\ (req.frame = 0 => s10'),
           s7' = [s7 EXCEPT ![u] = req], s12' = [s12 EXCEPT !.requests = @ + 1], s10 => s10',
           UNCHANGED <<s1, s2, s3, s4, s5, s6, s8, s9, s11>>
    PROVE  MA!IInv'
<1>0. /\ s7 \in [AssetUsers -> MA!RequestRecords] /\ s7' \in [AssetUsers -> MA!RequestRecords]
      /\ s7'[u] = req /\ \A v \in AssetUsers \ {u} : s7'[v] = s7[v]
      /\ s12 \in [requests : Nat, failures : Nat]
  BY DEF MA!IInv, MA!AssetsShape
<1>1. /\ s12' \in [requests : Nat, failures : Nat]
      /\ s12'.requests = s12.requests + 1 /\ s12'.failures = s12.failures /\ s12.requests \in Nat
  BY <1>0
<1>2. /\ \A a \in s1 : a.id \in Nat /\ a.id <= s12.requests
      /\ \A v \in AssetUsers : s7[v].id \in Nat /\ s7[v].id <= s12.requests
  BY <1>0 DEF MA!IInv, MA!AssetsShape, MA!AssetRecords, MA!RequestRecords
<1>3. MA!AssetsShape'
  <2>1. \A v \in AssetUsers : s7'[v].op = "create" => s7'[v].name \in AssetNames
    BY <1>0 DEF MA!IInv, MA!AssetsShape
  <2>2. \A v \in AssetUsers : s7'[v].id <= s12'.requests
    BY <1>0, <1>1, <1>2
  <2>3. \A a \in s1 : a.id <= s12'.requests
    BY <1>1, <1>2
  <2> QED
    BY <1>0, <1>1, <2>1, <2>2, <2>3 DEF MA!IInv, MA!AssetsShape
<1>4. MA!NumbersApart'
  BY <1>0, <1>1, <1>2 DEF MA!IInv, MA!NumbersApart
<1>5. MA!HeldIsGood'
  <2>1. s8 \in AssetUsers => s8 # u
    BY <1>0 DEF MA!IInv, MA!HeldIsGood
  <2> QED
    BY <1>0, <2>1 DEF MA!IInv, MA!HeldIsGood, MA!TakenName, MA!On
<1>6. MA!AllAtHome' /\ MA!MarkedFollows'
  BY <1>0, AssetsRest DEF MA!IInv
<1>7. MA!FrameAtHome'
  BY <1>0, <1>1 DEF MA!IInv, MA!FrameAtHome, MA!Home, MA!NoFrame
<1> QED
  BY <1>3, <1>4, <1>5, <1>6, <1>7 DEF MA!IInv

LEMMA AskSteps ==
    ASSUME AssetBounds, MA!IInv, NEW u \in AssetUsers
    PROVE  /\ \A p \in AssetPlaces, name \in AssetNames :
                 /\ MA!AskCreate(u, p, name) => MA!IInv'
                 /\ MA!AskCreateLater(u, MA!NewAsset(p, name, 0)) => MA!IInv'
           /\ \A a \in s1 : MA!AskDelete(u, a) => MA!IInv'
           /\ \A a \in s1, name \in AssetNames \cup {""}, clip \in BOOLEAN :
                 MA!AskUpdate(u, a, name, clip) => MA!IInv'
<1>0. /\ s12.requests \in Nat /\ s12.requests + 1 \in Nat
      /\ \A a \in s1 : a.id \in Nat /\ a.id <= s12.requests + 1 /\ a.camera \in AssetPlaces
  BY DEF MA!IInv, MA!AssetsShape, MA!AssetRecords
<1>1. ASSUME NEW p \in AssetPlaces, NEW name \in AssetNames, NEW n \in Nat
      PROVE  /\ MA!NewAsset(p, name, n) \in MA!RequestRecords
             /\ MA!NewAsset(p, name, n).op = "create" /\ MA!NewAsset(p, name, n).id = s12.requests + 1
             /\ MA!NewAsset(p, name, n).name = name /\ MA!NewAsset(p, name, n).frame = n
  BY <1>0, Requested DEF MA!NewAsset
<1>2. ASSUME NEW p \in AssetPlaces, NEW name \in AssetNames, MA!AskCreate(u, p, name)
      PROVE  MA!IInv'
  <2> DEFINE req == MA!NewAsset(p, name, MA!Fresh)
  <2>1. MA!Fresh \in Nat /\ MA!Fresh # 0
    BY <1>0 DEF MA!Fresh
  <2>2. req \in MA!RequestRecords /\ req.op = "create" /\ req.id = s12.requests + 1 /\ req.name \in AssetNames
        /\ req.frame # 0
    BY <1>1, <2>1
  <2>3. MA!Ask(u, req)
    BY <1>2 DEF MA!AskCreate
  <2> HIDE DEF req
  <2>4. req.id <= s12.requests + 1 /\ req.op # "none"
    BY <1>0, <2>2
  <2>5. /\ s7[u].op = "none" /\ s7' = [s7 EXCEPT ![u] = req] /\ s12' = [s12 EXCEPT !.requests = @ + 1]
        /\ UNCHANGED <<s1, s2, s3, s4, s5, s6, s8, s9, s10, s11>>
    BY <2>3 DEF MA!Ask, MA!placeVars
  <2> QED
    BY <2>2, <2>4, <2>5, AskStep
<1>3. ASSUME NEW p \in AssetPlaces, NEW name \in AssetNames, MA!AskCreateLater(u, MA!NewAsset(p, name, 0))
      PROVE  MA!IInv'
  <2> DEFINE req == MA!NewAsset(p, name, 0)
  <2>1. req \in MA!RequestRecords /\ req.op = "create" /\ req.id = s12.requests + 1 /\ req.name \in AssetNames
    BY <1>1
  <2>2. MA!AskCreateLater(u, req)
    BY <1>3
  <2> HIDE DEF req
  <2>4. req.id <= s12.requests + 1 /\ req.op # "none"
    BY <1>0, <2>1
  <2>5. /\ s7[u].op = "none" /\ s7' = [s7 EXCEPT ![u] = req] /\ s12' = [s12 EXCEPT !.requests = @ + 1] /\ s10'
        /\ UNCHANGED <<s1, s2, s3, s4, s5, s6, s8, s9, s11>>
    BY <2>2 DEF MA!AskCreateLater, MA!placeVars
  <2> QED
    BY <2>1, <2>4, <2>5, AskStep
<1>4. ASSUME NEW a \in s1, MA!AskDelete(u, a) PROVE MA!IInv'
  <2> DEFINE req == [MA!None EXCEPT !.op = "delete", !.id = a.id]
  <2>1. req \in MA!RequestRecords /\ req.op = "delete" /\ req.id = a.id
    BY <1>0, NoRequest DEF MA!RequestRecords
  <2>2. MA!Ask(u, req)
    BY <1>4 DEF MA!AskDelete
  <2> HIDE DEF req
  <2> QED
    BY <1>0, <2>1, <2>2, AskStep DEF MA!Ask, MA!placeVars
<1>5. ASSUME NEW a \in s1, NEW name \in AssetNames \cup {""}, NEW clip \in BOOLEAN,
             MA!AskUpdate(u, a, name, clip)
      PROVE  MA!IInv'
  <2> DEFINE req == [op |-> "update", id |-> a.id, camera |-> a.camera, name |-> name,
                     frame |-> IF clip THEN MA!Fresh ELSE MA!NoFrame]
  <2>1. req \in MA!RequestRecords /\ req.op = "update" /\ req.id = a.id
    <3>1. (IF clip THEN MA!Fresh ELSE MA!NoFrame) \in Nat
      BY <1>0 DEF MA!Fresh, MA!NoFrame
    <3> QED
      BY <1>0, <3>1, Requested
  <2>2. MA!Ask(u, req)
    BY <1>5 DEF MA!AskUpdate
  <2> HIDE DEF req
  <2> QED
    BY <1>0, <2>1, <2>2, AskStep DEF MA!Ask, MA!placeVars
<1> QED
  BY <1>2, <1>3, <1>4, <1>5
(* A request that was answered.                                            *)
LEMMA Answered ==
    ASSUME AssetBounds, MA!IInv, NEW u \in AssetUsers, s7' = [s7 EXCEPT ![u] = MA!None]
    PROVE  /\ s7' \in [AssetUsers -> MA!RequestRecords] /\ s7'[u] = MA!None
           /\ \A v \in AssetUsers \ {u} : s7'[v] = s7[v]
           /\ \A v \in AssetUsers : /\ s7'[v].op = "create" => v # u
                                    /\ s7'[v].op = "create" => s7'[v].name \in AssetNames
                                    /\ s7'[v].id \in Nat /\ s7'[v].id <= s12.requests
<1>1. /\ s7 \in [AssetUsers -> MA!RequestRecords] /\ s12.requests \in Nat
      /\ \A v \in AssetUsers : /\ s7[v].op = "create" => s7[v].name \in AssetNames
                               /\ s7[v].id \in Nat /\ s7[v].id <= s12.requests
  BY DEF MA!IInv, MA!AssetsShape, MA!RequestRecords
<1>2. MA!None \in MA!RequestRecords /\ MA!None.op = "none" /\ MA!None.id = 0
  BY NoRequest
<1>3. s7' \in [AssetUsers -> MA!RequestRecords] /\ s7'[u] = MA!None /\ \A v \in AssetUsers \ {u} : s7'[v] = s7[v]
  BY <1>1, <1>2
<1>4. ASSUME NEW v \in AssetUsers
      PROVE  /\ s7'[v].op = "create" => v # u
             /\ s7'[v].op = "create" => s7'[v].name \in AssetNames
             /\ s7'[v].id \in Nat /\ s7'[v].id <= s12.requests
  BY <1>1, <1>2, <1>3
<1> QED
  BY <1>3, <1>4

(* Nothing is made or changed, and the lock may be given back.             *)
LEMMA NothingMade ==
    ASSUME AssetBounds, MA!IInv, NEW u \in AssetUsers, s7' = [s7 EXCEPT ![u] = MA!None],
           s8' = "nobody" \/ (s8' = s8 /\ s8 # u), UNCHANGED <<s1, s2, s3, s4, s5, s6, s9, s10, s11, s12>>
    PROVE  MA!IInv'
<1>1. MA!AssetsShape'
  BY Answered DEF MA!IInv, MA!AssetsShape
<1>2. MA!NumbersApart'
  BY Answered DEF MA!IInv, MA!NumbersApart
<1>3. MA!HeldIsGood'
  <2>1. CASE s8' \notin AssetUsers
    BY <2>1 DEF MA!HeldIsGood
  <2>2. CASE s8' \in AssetUsers
    <3>1. s8' = s8 /\ s7'[s8'] = s7[s8]
      BY <2>2, Answered DEF AssetBounds
    <3>2. \A c, name, id : MA!TakenName(s1, c, name, id)' <=> MA!TakenName(s1, c, name, id)
      BY DEF MA!TakenName, MA!On
    <3> QED
      BY <2>2, <3>1, <3>2 DEF MA!IInv, MA!HeldIsGood
  <2> QED
    BY <2>1, <2>2
<1>4. MA!AllAtHome' /\ MA!MarkedFollows'
  BY AssetsRest DEF MA!IInv
<1>5. MA!FrameAtHome'
  BY Answered DEF MA!IInv, MA!FrameAtHome, MA!Home, MA!NoFrame
<1> QED
  BY <1>1, <1>2, <1>3, <1>4, <1>5 DEF MA!IInv

LEMMA NoPictureStep ==
    ASSUME AssetBounds, MA!IInv, NEW u \in AssetUsers, MA!NoPicture(u) PROVE MA!IInv'
<1>1. s7' = [s7 EXCEPT ![u] = MA!None] /\ UNCHANGED <<s1, s2, s3, s4, s5, s6, s9, s10, s11, s12>>
  BY DEF MA!NoPicture, MA!Free, MA!placeVars
<1>2. s8' = "nobody" \/ (s8' = s8 /\ s8 # u)
  BY DEF MA!NoPicture, MA!Nobody, MA!IInv, MA!HeldIsGood
<1> QED
  BY <1>1, <1>2, NothingMade

(* What writing a list does.                                               *)
LEMMA StoreFacts ==
    ASSUME MA!IInv, NEW S, NEW ok \in BOOLEAN, NEW new \in {0, 1}, MA!Store(S, ok, new)
    PROVE  /\ s12' \in [requests : Nat, failures : Nat] /\ s12'.requests = s12.requests + new
           /\ new = 0 => s12'.requests = s12.requests
           /\ s12.requests \in Nat /\ s12.failures \in Nat
           /\ IF ok THEN s1' = S /\ s12'.failures = s12.failures
              ELSE s1' = s1 /\ s12'.failures # 0
           /\ MA!MarkedFollows'
<1>1. s12 \in [requests : Nat, failures : Nat]
  BY DEF MA!IInv, MA!AssetsShape
<1>2. /\ s2' = MA!Grouped(S) /\ s1' = (IF ok THEN S ELSE s1) /\ s9' = ~ok
      /\ s12' = [s12 EXCEPT !.requests = @ + new, !.failures = @ + IF ok THEN 0 ELSE 1]
  BY DEF MA!Store, MA!Applied
<1>3. MA!MarkedFollows'
  <2>1. ok => MA!Grouped(S) = MA!Grouped(s1)'
    BY <1>2 DEF MA!Grouped
  <2> QED
    BY <1>2, <2>1 DEF MA!MarkedFollows
<1>4. /\ s12' \in [requests : Nat, failures : Nat] /\ s12'.requests = s12.requests + new
      /\ s12'.failures = s12.failures + IF ok THEN 0 ELSE 1
  <2>1. s12 = [requests |-> s12.requests, failures |-> s12.failures] /\ s12.requests \in Nat /\ s12.failures \in Nat
    BY <1>1
  <2>2. s12' = [requests |-> s12.requests + new, failures |-> s12.failures + IF ok THEN 0 ELSE 1]
    BY <1>2, <2>1
  <2> QED
    BY <2>1, <2>2
<1> QED
  BY <1>1, <1>2, <1>3, <1>4

(* What is drawn with an asset.                                            *)
LEMMA DrawnFacts ==
    ASSUME MA!IInv, NEW p \in AssetPlaces, NEW n \in Nat, MA!Drawn(p, n)
    PROVE  /\ s3' \in [AssetPlaces -> Nat] /\ (s10 => s10')
           /\ \A q \in AssetPlaces \ {p} : s3'[q] = s3[q]
           /\ s3[p] # 0 => s3'[p] # 0
           /\ ~s10' /\ (n # 0 \/ s3[p] # 0) => s3'[p] # 0
<1>1. s3 \in [AssetPlaces -> Nat]
  BY DEF MA!IInv, MA!AssetsShape
<1> QED
  BY <1>1 DEF MA!Drawn, MA!NoFrame
(* An asset is made, or found to be one too many.                          *)
LEMMA CreateStep ==
    ASSUME AssetBounds, MA!IInv, NEW r \in MA!RequestRecords, r.name \in AssetNames, NEW ok \in BOOLEAN,
           NEW new \in {0, 1}, MA!Create(r, ok, new),
           r.id <= s12.requests + new, \A a \in s1 : a.id # r.id, r.frame = 0 => s10 \/ s3[r.camera] # 0,
           s7' \in [AssetUsers -> MA!RequestRecords],
           \A v \in AssetUsers : /\ s7'[v].id <= s12.requests
                                 /\ s7'[v].op = "create" => s7'[v] = s7[v] /\ s7'[v].id # r.id
    PROVE  MA!IInv'
<1> DEFINE p == r.camera
           x == [id |-> r.id, camera |-> p, name |-> r.name, on |-> TRUE]
           S == s1 \cup {x}
           refused == MA!TakenName(s1, p, r.name, r.id) \/ MA!Cardinality(MA!On(p, s1)) >= AssetsPerCamera
<1>0. /\ s4 \in AssetPlaces /\ s5 \in AssetPlaces /\ s6 \in {"idle", "listed", "moved"} /\ (s6 # "idle" => s4 # s5)
      /\ s1 \subseteq MA!AssetRecords /\ MA!IsFiniteSet(s1) /\ s3 \in [AssetPlaces -> Nat]
      /\ s12 \in [requests : Nat, failures : Nat]
      /\ \A a \in s1 : a.id <= s12.requests
      /\ \A v \in AssetUsers : s7[v].op = "create" => s7[v].name \in AssetNames
  BY DEF MA!IInv, MA!AssetsShape
<1>1. /\ s8 = "nobody" /\ UNCHANGED <<s4, s5, s6, s8>>
      /\ IF refused THEN ok /\ UNCHANGED <<s1, s2, s3, s9, s10, s11>> /\ s12' = [s12 EXCEPT !.requests = @ + new]
         ELSE MA!Store(S, ok, new) /\ MA!Drawn(p, r.frame) /\ s11' = (s11 \/ s6 # "idle" \/ p # s4)
  BY DEF MA!Create, MA!placeVars
<1>2. /\ p \in AssetPlaces /\ r.frame \in Nat /\ r.id \in Nat
      /\ x \in MA!AssetRecords /\ x.id = r.id /\ x.camera = p /\ x.name = r.name
  BY DEF MA!RequestRecords, MA!AssetRecords
<1>3. MA!HeldIsGood'
  BY <1>1 DEF MA!HeldIsGood, AssetBounds
<1>4. \A v \in AssetUsers : s7'[v].op = "create" => s7'[v].name \in AssetNames
  BY <1>0
<1>5. \A v \in AssetUsers : s7'[v].op = "create" /\ s7'[v].frame = 0 => s10
  BY DEF MA!IInv, MA!FrameAtHome, MA!NoFrame
<1>6. \A v \in AssetUsers : s7'[v].id \in Nat /\ s7'[v].id <= s12.requests + new
  <2>1. \A q \in MA!RequestRecords : q.id \in Nat
    BY DEF MA!RequestRecords
  <2>2. \A v \in AssetUsers : s7'[v] \in MA!RequestRecords
    OBVIOUS
  <2>3. s12.requests \in Nat
    BY <1>0
  <2> HIDE DEF refused, S, x
  <2> QED
    BY <2>1, <2>2, <2>3
<1>7. CASE refused
  <2>1. s12' \in [requests : Nat, failures : Nat] /\ s12'.requests = s12.requests + new /\ s12'.failures = s12.failures
    BY <1>0, <1>1, <1>7
  <2>2. UNCHANGED <<s1, s2, s3, s4, s5, s6, s8, s9, s10, s11>>
    BY <1>1, <1>7
  <2>3. \A a \in s1 : a.id <= s12.requests + new
    BY <1>0 DEF MA!AssetRecords
  <2>4. MA!AssetsShape'
    BY <1>0, <1>1, <1>4, <1>6, <2>1, <2>2, <2>3 DEF MA!AssetsShape
  <2>5. MA!NumbersApart'
    BY <2>2 DEF MA!IInv, MA!NumbersApart
  <2>6. MA!AllAtHome'
    <3>1. MA!Home' = MA!Home
      BY <2>2 DEF MA!Home
    <3> QED
      BY <2>2, <3>1 DEF MA!IInv, MA!AllAtHome
  <2>7. MA!MarkedFollows'
    <3>1. MA!Grouped(s1)' = MA!Grouped(s1)
      BY <2>2 DEF MA!Grouped
    <3>2. MA!Carried(MA!Grouped(s1))' = MA!Carried(MA!Grouped(s1))
      BY <2>2, <3>1 DEF MA!Carried
    <3> QED
      BY <2>2, <3>1, <3>2 DEF MA!IInv, MA!MarkedFollows
  <2>8. MA!FrameAtHome'
    BY <1>5, <2>1, <2>2 DEF MA!IInv, MA!FrameAtHome, MA!Home, MA!NoFrame
  <2> QED
    BY <1>3, <2>4, <2>5, <2>6, <2>7, <2>8 DEF MA!IInv
<1>8. CASE ~refused
  <2> HIDE DEF x, p, refused
  <2>1. MA!Store(S, ok, new) /\ MA!Drawn(p, r.frame) /\ s11' = (s11 \/ s6 # "idle" \/ p # s4)
    BY <1>1, <1>8
  <2> HIDE DEF S
  <2>2. /\ s12' \in [requests : Nat, failures : Nat] /\ s12'.requests = s12.requests + new
        /\ IF ok THEN s1' = S /\ s12'.failures = s12.failures ELSE s1' = s1 /\ s12'.failures # 0
        /\ MA!MarkedFollows'
    BY <2>1, StoreFacts
  <2>3. /\ s3' \in [AssetPlaces -> Nat] /\ (s10 => s10')
        /\ \A q \in AssetPlaces \ {p} : s3'[q] = s3[q]
        /\ s3[p] # 0 => s3'[p] # 0
        /\ ~s10' /\ (r.frame # 0 \/ s3[p] # 0) => s3'[p] # 0
    BY <1>2, <2>1, DrawnFacts
  <2>4. S = s1 \cup {x}
    BY DEF S
  <2>5. MA!IsFiniteSet(S)
    BY <1>0, <2>4, CardAssets, FS_AddElement
  <2>6. \A a \in S : a \in MA!AssetRecords /\ a.id <= s12.requests + new
    BY <1>0, <1>2, <2>4 DEF MA!AssetRecords
  <2>7. MA!AssetsShape'
    <3>1. s1' \subseteq MA!AssetRecords /\ MA!IsFiniteSet(s1') /\ \A a \in s1' : a.id <= s12'.requests
      BY <2>2, <2>4, <2>5, <2>6, <1>0
    <3> QED
      BY <1>0, <1>1, <1>4, <1>6, <2>2, <2>3, <3>1 DEF MA!AssetsShape
  <2>8. MA!NumbersApart'
    <3>1. \A a, b \in s1' : a.id = b.id => a = b
      BY <1>2, <2>2, <2>4 DEF MA!IInv, MA!NumbersApart
    <3>2. \A v \in AssetUsers : s7'[v].op = "create" => \A a \in s1' : a.id # s7'[v].id
      BY <1>2, <2>2, <2>4 DEF MA!IInv, MA!NumbersApart
    <3>3. \A v, w \in AssetUsers : s7'[v].op = "create" /\ s7'[w].op = "create" /\ s7'[v].id = s7'[w].id => v = w
      BY DEF MA!IInv, MA!NumbersApart
    <3> QED
      BY <3>1, <3>2, <3>3 DEF MA!NumbersApart
  <2>9. ASSUME ~s11' PROVE /\ ~s11 /\ s6 = "idle" /\ p = s4 /\ MA!Home = p /\ MA!Home' = p
    BY <1>1, <2>1, <2>9 DEF MA!Home
  <2>10. MA!AllAtHome'
    <3>1. ASSUME ~s11', ok
          PROVE  /\ \A a \in S : a.camera = p
                 /\ \A a, b \in S : a.name = b.name => a = b
                 /\ Cardinality(S) <= AssetsPerCamera
      <4>1. \A a \in s1 : a.camera = p
        BY <2>9, <3>1 DEF MA!IInv, MA!AllAtHome
      <4>2. MA!On(p, s1) = s1
        BY <4>1 DEF MA!On
      <4>3. \A a \in s1 : a.name # r.name
        BY <1>8, <4>2 DEF refused, MA!TakenName
      <4>4. Cardinality(s1) \in Nat /\ Cardinality(s1) < AssetsPerCamera
        BY <1>0, <1>8, <4>2, CardAssets, FS_CardinalityType DEF refused, AssetBounds
      <4>5. Cardinality(S) <= Cardinality(s1) + 1 /\ Cardinality(S) \in Nat
        BY <1>0, <2>4, <2>5, CardAssets, FS_AddElement, FS_CardinalityType
      <4>6. Cardinality(S) <= AssetsPerCamera
        BY <4>4, <4>5 DEF AssetBounds
      <4>7. \A a, b \in s1 : a.name = b.name => a = b
        BY <2>9, <3>1 DEF MA!IInv, MA!AllAtHome
      <4>8. \A a \in S : a.camera = p
        BY <1>2, <2>4, <4>1
      <4>9. \A a, b \in S : a.name = b.name => a = b
        BY <1>2, <2>4, <4>3, <4>7
      <4> QED
        BY <4>6, <4>8, <4>9
    <3>2. ASSUME ~s11', ok PROVE MA!AllAtHome'
      BY <2>2, <2>9, <3>1, <3>2, CardAssets DEF MA!AllAtHome
    <3>3. ASSUME ~s11', ~ok PROVE MA!AllAtHome'
      BY <2>2, <2>9, <3>3, CardAssets DEF MA!AllAtHome, MA!IInv
    <3> QED
      BY <3>2, <3>3 DEF MA!AllAtHome
  <2>11. MA!FrameAtHome'
    <3>1. ASSUME ~s11', ~s10' PROVE s3'[p] # 0
      BY <2>3, <3>1 DEF p
    <3>2. ASSUME ~s11', ~s10', s12'.failures = 0, NEW q \in AssetPlaces, s3'[q] # 0 PROVE q = p /\ s1' # {}
      <4>1. ok /\ s1' # {} /\ s12.failures = 0
        BY <2>2, <2>4, <3>2
      <4>2. \A o \in AssetPlaces : s3[o] # 0 => o = p
        BY <2>3, <2>9, <3>2, <4>1 DEF MA!IInv, MA!FrameAtHome, MA!NoFrame
      <4> QED
        BY <2>3, <3>2, <4>1, <4>2
    <3> QED
      BY <1>5, <2>3, <2>9, <3>1, <3>2 DEF MA!FrameAtHome, MA!NoFrame
  <2> QED
    BY <1>3, <2>2, <2>7, <2>8, <2>10, <2>11 DEF MA!IInv
<1> QED
  BY <1>7, <1>8

LEMMA CreateSteps ==
    ASSUME AssetBounds, MA!IInv, NEW u \in AssetUsers, NEW ok \in BOOLEAN
    PROVE  /\ MA!Create(s7[u], ok, 0) /\ MA!Free(u) => MA!IInv'
           /\ \A p \in AssetPlaces, name \in AssetNames : MA!CreateOnFrame(u, p, name, ok) => MA!IInv'
<1>0. /\ s7 \in [AssetUsers -> MA!RequestRecords] /\ s12.requests \in Nat
      /\ \A a \in s1 : a.id \in Nat /\ a.id <= s12.requests
      /\ \A v \in AssetUsers : s7[v].id \in Nat /\ s7[v].id <= s12.requests
  BY DEF MA!IInv, MA!AssetsShape, MA!AssetRecords, MA!RequestRecords
<1>1. ASSUME MA!Create(s7[u], ok, 0), MA!Free(u) PROVE MA!IInv'
  <2>1. s7' = [s7 EXCEPT ![u] = MA!None] /\ s7[u].op = "create"
    BY <1>1 DEF MA!Free, MA!Create
  <2>2. s7[u].name \in AssetNames /\ s7[u].id <= s12.requests + 0
    BY <1>0, <2>1 DEF MA!IInv, MA!AssetsShape
  <2>3. \A a \in s1 : a.id # s7[u].id
    BY <2>1 DEF MA!IInv, MA!NumbersApart
  <2>4. s7[u].frame = 0 => s10
    BY <2>1 DEF MA!IInv, MA!FrameAtHome, MA!NoFrame
  <2>5. \A v \in AssetUsers : /\ s7'[v].id <= s12.requests
                              /\ s7'[v].op = "create" => s7'[v] = s7[v] /\ s7'[v].id # s7[u].id
    BY <2>1, Answered DEF MA!IInv, MA!NumbersApart
  <2>6. s7[u] \in MA!RequestRecords /\ s7' \in [AssetUsers -> MA!RequestRecords]
    BY <1>0, <2>1, Answered
  <2> QED
    BY <1>1, <2>2, <2>3, <2>4, <2>5, <2>6, CreateStep
<1>2. ASSUME NEW p \in AssetPlaces, NEW name \in AssetNames, MA!CreateOnFrame(u, p, name, ok) PROVE MA!IInv'
  <2> DEFINE req == MA!NewAsset(p, name, 0)
  <2>1. req \in MA!RequestRecords /\ req.id = s12.requests + 1 /\ req.name = name /\ req.camera = p
    <3>1. s12.requests + 1 \in Nat
      BY <1>0
    <3>2. req = [op |-> "create", id |-> s12.requests + 1, camera |-> p, name |-> name, frame |-> 0]
      BY DEF MA!NewAsset
    <3> HIDE DEF req
    <3>3. req \in MA!RequestRecords
      BY <3>1, <3>2, Requested
    <3> QED
      BY <3>2, <3>3
  <2>2. CASE MA!AskCreateLater(u, req)
    BY <2>2, AskSteps
  <2>3. CASE MA!Create(req, ok, 1) /\ UNCHANGED s7
    <3> HIDE DEF req
    <3>1. /\ req.id <= s12.requests + 1 /\ \A a \in s1 : a.id # req.id
          /\ \A v \in AssetUsers : s7[v].id # req.id
      BY <1>0, <2>1
    <3>2. s3[p] # 0
      BY <1>2 DEF MA!CreateOnFrame, MA!NoFrame
    <3>3. /\ s7' \in [AssetUsers -> MA!RequestRecords]
          /\ \A v \in AssetUsers : /\ s7'[v].id <= s12.requests
                                   /\ s7'[v].op = "create" => s7'[v] = s7[v] /\ s7'[v].id # req.id
      BY <1>0, <2>3, <3>1
    <3> QED
      BY <2>1, <2>3, <3>1, <3>2, <3>3, CreateStep
  <2> QED
    BY <1>2, <2>2, <2>3 DEF MA!CreateOnFrame, MA!NoFrame
<1> QED
  BY <1>1, <1>2
(* An asset is taken away, with the frame if it is the camera's last.      *)
LEMMA DeleteStep ==
    ASSUME AssetBounds, MA!IInv, NEW u \in AssetUsers, NEW ok \in BOOLEAN, MA!Delete(u, ok)
    PROVE  MA!IInv'
<1> DEFINE gone == {a \in s1 : a.id = s7[u].id}
           left == s1 \ gone
<1>0. /\ s1 \subseteq MA!AssetRecords /\ MA!IsFiniteSet(s1) /\ s3 \in [AssetPlaces -> Nat]
      /\ s12.requests \in Nat /\ \A a \in s1 : a.id <= s12.requests
      /\ s4 \in AssetPlaces /\ s5 \in AssetPlaces
  BY DEF MA!IInv, MA!AssetsShape
<1>1. /\ s8 = "nobody" /\ UNCHANGED <<s4, s5, s6, s8, s10, s11>> /\ s7' = [s7 EXCEPT ![u] = MA!None]
      /\ IF gone = {} THEN UNCHANGED <<s1, s2, s3, s9, s12>>
         ELSE /\ MA!Store(left, ok, 0)
              /\ s3' = IF ok THEN MA!FramesAfter((CHOOSE a \in gone : TRUE).camera, left) ELSE s3
  BY DEF MA!Delete, MA!Free, MA!placeVars
<1>2. CASE gone = {}
  <2>1. s8' = s8 /\ s8 # u
    BY <1>1 DEF AssetBounds
  <2> QED
    BY <1>1, <1>2, <2>1, NothingMade
<1>3. CASE gone # {}
  <2>1. PICK c \in gone : c = CHOOSE a \in gone : TRUE
    BY <1>3
  <2>2. MA!Store(left, ok, 0) /\ s3' = IF ok THEN MA!FramesAfter(c.camera, left) ELSE s3
    BY <1>1, <1>3, <2>1
  <2>3. left \subseteq s1 /\ c \in s1
    BY <2>1
  <2> HIDE DEF left, gone
  <2>4. /\ s12' \in [requests : Nat, failures : Nat] /\ s12'.requests = s12.requests
        /\ IF ok THEN s1' = left /\ s12'.failures = s12.failures ELSE s1' = s1 /\ s12'.failures # 0
        /\ MA!MarkedFollows'
    BY <1>0, <2>2, StoreFacts
  <2>5. s1' \subseteq s1
    BY <2>3, <2>4
  <2>6. MA!IsFiniteSet(s1') /\ Cardinality(s1') <= Cardinality(s1)
        /\ Cardinality(s1') \in Nat /\ Cardinality(s1) \in Nat
    BY <1>0, <2>5, CardAssets, FS_Subset, FS_CardinalityType
  <2>7. c.camera \in AssetPlaces /\ s3' \in [AssetPlaces -> Nat]
    BY <1>0, <2>2, <2>3 DEF MA!FramesAfter, MA!NoFrame, MA!AssetRecords
  <2>8. MA!AssetsShape'
    BY <1>0, <1>1, <2>4, <2>5, <2>6, <2>7, Answered DEF MA!IInv, MA!AssetsShape
  <2>9. MA!NumbersApart'
    BY <1>1, <2>5, Answered DEF MA!IInv, MA!NumbersApart
  <2>10. MA!HeldIsGood'
    BY <1>1 DEF MA!HeldIsGood, AssetBounds
  <2>11. MA!AllAtHome'
    <3>1. Cardinality(s1) <= AssetsPerCamera => Cardinality(s1') <= AssetsPerCamera
      BY <2>6 DEF AssetBounds
    <3> QED
      BY <1>1, <2>5, <3>1, CardAssets DEF MA!IInv, MA!AllAtHome, MA!Home
  <2>12. MA!FrameAtHome'
    <3>1. \A v \in AssetUsers : s7'[v].op = "create" /\ s7'[v].frame = 0 => s10'
      BY <1>1, Answered DEF MA!IInv, MA!FrameAtHome, MA!NoFrame
    <3>2. ASSUME ~s11, ~s10, ok
          PROVE  /\ s1' # {} => s3'[MA!Home] # 0
                 /\ s12'.failures = 0 => \A q \in AssetPlaces : s3'[q] # 0 => q = MA!Home /\ s1' # {}
      <4>1. \A a \in s1 : a.camera = MA!Home
        BY <3>2 DEF MA!IInv, MA!AllAtHome
      <4>2. c.camera = MA!Home /\ MA!On(MA!Home, left) = left
        BY <2>3, <4>1 DEF MA!On
      <4>3. s1' = left
        BY <2>4, <3>2
      <4>4. s3[MA!Home] # 0
        BY <2>3, <3>2 DEF MA!IInv, MA!FrameAtHome, MA!NoFrame
      <4>5. s12'.failures = 0 => \A q \in AssetPlaces : s3[q] # 0 => q = MA!Home
        BY <2>4, <3>2 DEF MA!IInv, MA!FrameAtHome, MA!NoFrame
      <4>6. MA!Home \in AssetPlaces
        BY <1>0 DEF MA!Home
      <4>7. CASE left = {}
        <5>1. s3' = [s3 EXCEPT ![MA!Home] = 0]
          BY <2>2, <3>2, <4>2, <4>7 DEF MA!FramesAfter, MA!NoFrame
        <5> QED
          BY <1>0, <4>3, <4>5, <4>6, <4>7, <5>1
      <4>8. CASE left # {}
        <5>1. s3' = s3
          BY <2>2, <3>2, <4>2, <4>8 DEF MA!FramesAfter
        <5> QED
          BY <4>3, <4>4, <4>5, <4>8, <5>1
      <4> QED
        BY <4>7, <4>8
    <3>3. MA!Home' = MA!Home
      BY <1>1 DEF MA!Home
    <3>4. ASSUME ok PROVE MA!FrameAtHome'
      BY <1>1, <3>1, <3>2, <3>3, <3>4 DEF MA!FrameAtHome, MA!NoFrame
    <3>5. ASSUME ~ok PROVE MA!FrameAtHome'
      <4>1. s3' = s3 /\ s1' = s1 /\ s12'.failures # 0
        BY <2>2, <2>4, <3>5
      <4> QED
        BY <1>1, <3>1, <3>3, <4>1 DEF MA!IInv, MA!FrameAtHome, MA!NoFrame
    <3> QED
      BY <3>4, <3>5
  <2> QED
    BY <2>4, <2>8, <2>9, <2>10, <2>11, <2>12 DEF MA!IInv
<1> QED
  BY <1>2, <1>3

NameIsFree(t, r) == r.name # "" => ~MA!TakenName(s1, t.camera, r.name, r.id)

(* An asset is changed: it keeps its number and its camera, and no other   *)
(* of the camera's has the name it gets.                                   *)
LEMMA ChangeStep ==
    ASSUME AssetBounds, MA!IInv, NEW u \in AssetUsers, NEW ok \in BOOLEAN, NEW r \in MA!RequestRecords,
           NEW t \in s1, t.id = r.id, NameIsFree(t, r),
           NEW S, NEW f, Follows(s1, S, f), Edits(f, r),
           MA!Store(S, ok, 0), s7' = [s7 EXCEPT ![u] = MA!None], s8' = "nobody",
           MA!Drawn(t.camera, r.frame), UNCHANGED <<s4, s5, s6, s11>>
    PROVE  MA!IInv'
<1>0. /\ s1 \subseteq MA!AssetRecords /\ MA!IsFiniteSet(s1) /\ s3 \in [AssetPlaces -> Nat]
      /\ s12.requests \in Nat /\ \A a \in s1 : a.id <= s12.requests
      /\ s4 \in AssetPlaces /\ s5 \in AssetPlaces /\ MA!AssetsShape
  BY DEF MA!IInv, MA!AssetsShape
<1>1. \A a \in s1 : /\ f[a] \in MA!AssetRecords /\ f[a].id = a.id /\ f[a].camera = a.camera
                    /\ f[a].name = IF a.id = r.id /\ r.name # "" THEN r.name ELSE a.name
  BY DEF Edits
<1>2. /\ r.name # "" => ~MA!TakenName(s1, t.camera, r.name, r.id)
      /\ t.camera \in AssetPlaces /\ r.frame \in Nat
  BY <1>0 DEF MA!AssetRecords, MA!RequestRecords, NameIsFree
<1>3. /\ s12' \in [requests : Nat, failures : Nat] /\ s12'.requests = s12.requests
      /\ IF ok THEN s1' = S /\ s12'.failures = s12.failures ELSE s1' = s1 /\ s12'.failures # 0
      /\ MA!MarkedFollows'
  BY StoreFacts
<1>4. /\ s3' \in [AssetPlaces -> Nat] /\ (s10 => s10')
      /\ \A q \in AssetPlaces \ {t.camera} : s3'[q] = s3[q]
      /\ s3[t.camera] # 0 => s3'[t.camera] # 0
  BY <1>2, DrawnFacts
<1>5. \A b \in S : \E a \in s1 : b = f[a]
  BY DEF Follows
<1>6. f[t] \in S
  BY DEF Follows
<1>7. MA!IsFiniteSet(S) /\ Cardinality(S) <= Cardinality(s1) /\ Cardinality(S) \in Nat /\ Cardinality(s1) \in Nat
  BY <1>0, <1>1, CardAssets, FewerFollow
<1>8. MA!AssetsShape'
  <2>1. s1' \subseteq MA!AssetRecords /\ MA!IsFiniteSet(s1') /\ \A a \in s1' : a.id <= s12'.requests
    <3>1. \A b \in S : b \in MA!AssetRecords /\ b.id <= s12.requests
      BY <1>0, <1>1, <1>5
    <3> QED
      BY <1>0, <1>3, <1>7, <3>1
  <2>2. s8' \in AssetUsers \cup {"nobody"}
    OBVIOUS
  <2> QED
    BY <1>0, <1>3, <1>4, <2>1, <2>2, Answered DEF MA!AssetsShape
<1>9. MA!NumbersApart'
  <2>0. \A a, b \in s1 : a.id = b.id => a = b
    BY DEF MA!IInv, MA!NumbersApart
  <2>1. ASSUME NEW a \in S, NEW b \in S, a.id = b.id PROVE a = b
    <3>1. PICK x \in s1 : a = f[x] /\ a.id = x.id
      BY <1>1, <1>5
    <3>2. PICK y \in s1 : b = f[y] /\ b.id = y.id
      BY <1>1, <1>5
    <3> QED
      BY <2>0, <2>1, <3>1, <3>2
  <2>2. ASSUME NEW a \in S PROVE \E b \in s1 : a.id = b.id
    <3>1. PICK x \in s1 : a = f[x] /\ a.id = x.id
      BY <1>1, <1>5
    <3> QED
      BY <3>1
  <2>3. s1' = S \/ s1' = s1
    BY <1>3
  <2>4. (\A a, b \in s1' : a.id = b.id => a = b) /\ \A a \in s1' : \E b \in s1 : a.id = b.id
    BY <2>0, <2>1, <2>2, <2>3
  <2>5. \A v \in AssetUsers : s7'[v].op = "create" => s7'[v] = s7[v]
    BY Answered
  <2>6. \A v \in AssetUsers : s7'[v].op = "create" => \A a \in s1' : a.id # s7'[v].id
    <3>1. \A v \in AssetUsers : s7[v].op = "create" => \A a \in s1 : a.id # s7[v].id
      BY DEF MA!IInv, MA!NumbersApart
    <3> QED
      BY <2>4, <2>5, <3>1
  <2>7. \A v, w \in AssetUsers : s7'[v].op = "create" /\ s7'[w].op = "create" /\ s7'[w].id = s7'[v].id => v = w
    BY <2>5 DEF MA!IInv, MA!NumbersApart
  <2> QED
    BY <2>4, <2>6, <2>7 DEF MA!IInv, MA!NumbersApart
<1>10. MA!HeldIsGood'
  BY DEF MA!HeldIsGood, AssetBounds
<1>11. MA!Home' = MA!Home
  BY DEF MA!Home
<1>12. MA!AllAtHome'
  <2>1. ASSUME ~s11, ok PROVE MA!AllAtHome'
    <3>1. \A a \in s1 : a.camera = MA!Home
      BY <2>1 DEF MA!IInv, MA!AllAtHome
    <3>2. \A b \in S : b.camera = MA!Home
      BY <1>1, <1>5, <3>1
    <3>3. r.name # "" => \A a \in s1 : a.name = r.name => a.id = r.id
      BY <1>2, <3>1 DEF MA!TakenName, MA!On
    <3>4. \A a, b \in s1 : (a.name = b.name => a = b) /\ (a.id = b.id => a = b)
      BY <2>1 DEF MA!IInv, MA!AllAtHome, MA!NumbersApart
    <3>5. ASSUME NEW a \in s1, NEW b \in s1, f[a].name = f[b].name PROVE a = b
      <4>1. /\ f[a].name = IF a.id = r.id /\ r.name # "" THEN r.name ELSE a.name
            /\ f[b].name = IF b.id = r.id /\ r.name # "" THEN r.name ELSE b.name
        BY <1>1
      <4> QED
        BY <3>3, <3>4, <3>5, <4>1
    <3>6. ASSUME NEW a \in S, NEW b \in S, a.name = b.name PROVE a = b
      <4>1. PICK x \in s1 : a = f[x]
        BY <1>5
      <4>2. PICK y \in s1 : b = f[y]
        BY <1>5
      <4> QED
        BY <3>5, <3>6, <4>1, <4>2
    <3>7. Cardinality(S) <= AssetsPerCamera
      <4>1. Cardinality(s1) <= AssetsPerCamera
        BY <2>1, CardAssets DEF MA!IInv, MA!AllAtHome
      <4> QED
        BY <1>7, <4>1 DEF AssetBounds
    <3> QED
      BY <1>3, <1>11, <2>1, <3>2, <3>6, <3>7, CardAssets DEF MA!AllAtHome
  <2>2. ASSUME ~s11, ~ok PROVE MA!AllAtHome'
    BY <1>3, <1>11, <2>2, CardAssets DEF MA!AllAtHome, MA!IInv
  <2> QED
    BY <2>1, <2>2 DEF MA!AllAtHome
<1>13. MA!FrameAtHome'
  <2>1. \A v \in AssetUsers : s7'[v].op = "create" /\ s7'[v].frame = 0 => s10'
    BY <1>4, Answered DEF MA!IInv, MA!FrameAtHome, MA!NoFrame
  <2>2. ASSUME ~s11, ~s10'
        PROVE  /\ s3'[MA!Home] # 0
               /\ s12'.failures = 0 => \A q \in AssetPlaces : s3'[q] # 0 => q = MA!Home /\ s1' # {}
    <3>1. t.camera = MA!Home /\ s3[MA!Home] # 0
      BY <1>4, <2>2 DEF MA!IInv, MA!AllAtHome, MA!FrameAtHome, MA!NoFrame
    <3>2. s1' # {}
      BY <1>3, <1>6
    <3>3. s12'.failures = 0 => \A q \in AssetPlaces : s3[q] # 0 => q = MA!Home
      BY <1>3, <1>4, <2>2 DEF MA!IInv, MA!FrameAtHome, MA!NoFrame
    <3> QED
      BY <1>4, <3>1, <3>2, <3>3
  <2> QED
    BY <1>11, <2>1, <2>2 DEF MA!FrameAtHome, MA!NoFrame
<1> QED
  BY <1>3, <1>8, <1>9, <1>10, <1>12, <1>13 DEF MA!IInv

LEMMA UpdateStep ==
    ASSUME AssetBounds, MA!IInv, NEW u \in AssetUsers, NEW ok \in BOOLEAN, MA!Update(u, ok)
    PROVE  MA!IInv'
<1> DEFINE r == s7[u]
           target == {a \in s1 : a.id = r.id}
           p == IF target = {} THEN r.camera ELSE (CHOOSE a \in target : TRUE).camera
           refused == target = {} \/ (r.name # "" /\ MA!TakenName(s1, p, r.name, r.id))
<1>0. r \in MA!RequestRecords /\ MA!AssetsShape /\ \A a, b \in s1 : a.id = b.id => a = b
  BY DEF MA!IInv, MA!AssetsShape, MA!NumbersApart
<1>1. r.op = "update" /\ UNCHANGED <<s4, s5, s6, s11>>
  BY DEF MA!Update, MA!placeVars
<1>2. \A t \in target : target = {t} /\ p = t.camera
  BY <1>0
<1>3. \/ /\ s8 = "nobody" /\ ~refused /\ s8' = u
         /\ UNCHANGED <<s1, s2, s3, s7, s9, s10, s12>>
      \/ /\ s8 = "nobody" /\ s7' = [s7 EXCEPT ![u] = MA!None]
         /\ UNCHANGED <<s1, s2, s3, s8, s9, s10, s12>>
      \/ /\ s8 = u \/ (s8 = "nobody" /\ ~refused)
         /\ MA!Store(MA!Changed(r), ok, 0) /\ s7' = [s7 EXCEPT ![u] = MA!None] /\ s8' = "nobody"
         /\ MA!Drawn(p, r.frame)
  BY DEF MA!Update, MA!Free, MA!Nobody
<1>4. ~refused => \E t \in target : r.name # "" => ~MA!TakenName(s1, t.camera, r.name, r.id)
  BY <1>2
<1> HIDE DEF refused, p
<1>5. CASE /\ s8 = "nobody" /\ ~refused /\ s8' = u
           /\ UNCHANGED <<s1, s2, s3, s7, s9, s10, s12>>
  <2>1. MA!HeldIsGood'
    <3>1. PICK t \in s1 : t.id = r.id /\ (r.name # "" => ~MA!TakenName(s1, t.camera, r.name, r.id))
      BY <1>4, <1>5
    <3>2. s8' = u /\ s7'[u] = r /\ s1' = s1
      BY <1>5
    <3>3. \A c, n, i : MA!TakenName(s1, c, n, i)' <=> MA!TakenName(s1, c, n, i)
      BY <3>2 DEF MA!TakenName, MA!On
    <3> QED
      BY <1>1, <3>1, <3>2, <3>3 DEF MA!HeldIsGood
  <2>2. MA!AssetsShape' /\ MA!NumbersApart'
    BY <1>1, <1>5 DEF MA!IInv, MA!AssetsShape, MA!NumbersApart
  <2>3. MA!AllAtHome' /\ MA!MarkedFollows'
    BY <1>1, <1>5, AssetsRest DEF MA!IInv
  <2>4. MA!FrameAtHome'
    BY <1>1, <1>5 DEF MA!IInv, MA!Home, MA!FrameAtHome, MA!NoFrame
  <2> QED
    BY <2>1, <2>2, <2>3, <2>4 DEF MA!IInv
<1>6. CASE /\ s8 = "nobody" /\ s7' = [s7 EXCEPT ![u] = MA!None]
           /\ UNCHANGED <<s1, s2, s3, s8, s9, s10, s12>>
  <2>1. s8' = s8 /\ s8 # u
    BY <1>6 DEF AssetBounds
  <2> QED
    BY <1>1, <1>6, <2>1, NothingMade
<1>7. CASE /\ s8 = u \/ (s8 = "nobody" /\ ~refused)
           /\ MA!Store(MA!Changed(r), ok, 0) /\ s7' = [s7 EXCEPT ![u] = MA!None] /\ s8' = "nobody"
           /\ MA!Drawn(p, r.frame)
  <2>1. \E t \in s1 : t.id = r.id /\ (r.name # "" => ~MA!TakenName(s1, t.camera, r.name, r.id))
    <3>1. CASE s8 = u
      BY <3>1 DEF MA!IInv, MA!HeldIsGood
    <3>2. CASE ~refused
      BY <1>4, <3>2
    <3> QED
      BY <1>7, <3>1, <3>2
  <2>2. PICK t \in s1 : t.id = r.id /\ (r.name # "" => ~MA!TakenName(s1, t.camera, r.name, r.id))
    BY <2>1
  <2>3. p = t.camera
    BY <1>2, <2>2
  <2> HIDE DEF r
  <2>4. PICK f : Follows(s1, MA!Changed(r), f) /\ Edits(f, r)
    BY <1>0, ChangedList
  <2>5. NameIsFree(t, r)
    BY <2>2 DEF NameIsFree
  <2> QED
    BY <1>0, <1>1, <1>7, <2>2, <2>3, <2>4, <2>5, ChangeStep
<1> QED
  BY <1>3, <1>5, <1>6, <1>7

-----------------------------------------------------------------------------
(* A renaming.                                                             *)
LEMMA PlaceSteps ==
    ASSUME MA!IInv
    PROVE  /\ \A p \in AssetPlaces : MA!Renamed(p) => MA!IInv'
           /\ MA!MoveMarked => MA!IInv'
<1>1. ASSUME NEW p \in AssetPlaces, MA!Renamed(p) PROVE MA!IInv'
  <2>1. /\ s6 = "idle" /\ s6' = "listed" /\ p # s4 /\ s4' = p /\ s5' = s4
        /\ UNCHANGED <<s1, s2, s3, s7, s8, s9, s10, s11, s12>>
    BY <1>1 DEF MA!Renamed
  <2>2. MA!AssetsShape' /\ MA!NumbersApart'
    BY <2>1 DEF MA!IInv, MA!AssetsShape, MA!NumbersApart
  <2>3. MA!HeldIsGood'
    BY <2>1 DEF MA!IInv, MA!HeldIsGood, MA!TakenName, MA!On
  <2>4. MA!Home' = MA!Home
    BY <2>1 DEF MA!Home
  <2>5. MA!AllAtHome' /\ MA!FrameAtHome'
    BY <2>1, <2>4, CardAssets DEF MA!IInv, MA!AllAtHome, MA!FrameAtHome, MA!NoFrame
  <2>6. MA!MarkedFollows'
    BY <2>1 DEF MA!IInv, MA!MarkedFollows, MA!Grouped
  <2> QED
    BY <2>2, <2>3, <2>5, <2>6 DEF MA!IInv
<1>2. ASSUME MA!MoveMarked PROVE MA!IInv'
  <2>1. /\ s6 = "listed" /\ s6' = "moved" /\ s2' = MA!Carried(s2)
        /\ UNCHANGED <<s1, s3, s4, s5, s7, s8, s9, s10, s11, s12>>
    BY <1>2 DEF MA!MoveMarked, MA!Carried
  <2>2. MA!AssetsShape' /\ MA!NumbersApart'
    BY <2>1 DEF MA!IInv, MA!AssetsShape, MA!NumbersApart
  <2>3. MA!HeldIsGood'
    BY <2>1 DEF MA!IInv, MA!HeldIsGood, MA!TakenName, MA!On
  <2>4. MA!Home' = MA!Home
    BY <2>1 DEF MA!Home
  <2>5. MA!AllAtHome' /\ MA!FrameAtHome'
    BY <2>1, <2>4, CardAssets DEF MA!IInv, MA!AllAtHome, MA!FrameAtHome, MA!NoFrame
  <2>6. MA!Carried(MA!Carried(MA!Grouped(s1))) = MA!Carried(MA!Grouped(s1))
    <3>1. s4 \in AssetPlaces /\ s5 \in AssetPlaces /\ s4 # s5
      BY <2>1 DEF MA!IInv, MA!AssetsShape
    <3>2. PICK g : g = MA!Grouped(s1)
      OBVIOUS
    <3>3. g = [q \in AssetPlaces |-> g[q]]
      BY <3>2 DEF MA!Grouped
    <3>4. PICK h : h = MA!Carried(g)
      OBVIOUS
    <3>5. h = [g EXCEPT ![s4] = @ \cup g[s5], ![s5] = {}]
      BY <3>4 DEF MA!Carried
    <3>6. h = [q \in AssetPlaces |-> IF q = s5 THEN {} ELSE IF q = s4 THEN g[s4] \cup g[s5] ELSE g[q]]
      BY <3>1, <3>3, <3>5
    <3>7. MA!Carried(h) = [h EXCEPT ![s4] = @ \cup h[s5], ![s5] = {}]
      BY DEF MA!Carried
    <3>8. h[s5] = {} /\ h[s4] \cup h[s5] = h[s4]
      BY <3>1, <3>6
    <3>9. MA!Carried(h) = h
      BY <3>1, <3>6, <3>7, <3>8
    <3> QED
      BY <3>2, <3>4, <3>9
  <2>7. MA!MarkedFollows'
    <3>1. ~s9 => s2' = MA!Carried(MA!Grouped(s1))
      BY <2>1, <2>6 DEF MA!IInv, MA!MarkedFollows
    <3>2. MA!Carried(MA!Grouped(s1))' = MA!Carried(MA!Grouped(s1))
      BY <2>1 DEF MA!Carried, MA!Grouped
    <3> QED
      BY <2>1, <3>1, <3>2 DEF MA!MarkedFollows
  <2> QED
    BY <2>2, <2>3, <2>5, <2>7 DEF MA!IInv
<1> QED
  BY <1>1, <1>2
LEMMA MoveStep == ASSUME AssetBounds, MA!IInv, NEW ok \in BOOLEAN, MA!MoveAssets(ok) PROVE MA!IInv'
<1> DEFINE S == MA!MovedAssets
           moved == ok /\ MA!On(s5, s1) # {}
<1>0. /\ s1 \subseteq MA!AssetRecords /\ MA!IsFiniteSet(s1) /\ s3 \in [AssetPlaces -> Nat]
      /\ s12 \in [requests : Nat, failures : Nat] /\ \A a \in s1 : a.id <= s12.requests
      /\ s4 \in AssetPlaces /\ s5 \in AssetPlaces /\ MA!AssetsShape
      /\ MA!Home \in AssetPlaces
  BY DEF MA!IInv, MA!AssetsShape, MA!Home
<1>1. /\ s6 = "moved" /\ s8 = "nobody" /\ UNCHANGED <<s4, s5, s7, s8, s10, s11>> /\ s4 # s5
      /\ s6' = IF ok THEN "idle" ELSE "listed"
  BY <1>0 DEF MA!MoveAssets, MA!AssetsShape
<1>2. IF moved THEN s1' = S /\ s2' = MA!Grouped(S) /\ s9' = FALSE ELSE UNCHANGED <<s1, s2, s9>>
  BY DEF MA!MoveAssets
<1>3. s3' = IF ok THEN [s3 EXCEPT ![s5] = 0, ![s4] = IF @ = 0 THEN s3[s5] ELSE @] ELSE s3
  BY DEF MA!MoveAssets, MA!NoFrame
<1>4. /\ s12' \in [requests : Nat, failures : Nat] /\ s12'.requests = s12.requests
      /\ IF ok THEN s12'.failures = s12.failures ELSE s12'.failures # 0
  <2>1. IF ok THEN s12' = s12 ELSE s12' = [s12 EXCEPT !.failures = @ + 1]
    BY DEF MA!MoveAssets
  <2>2. s12.failures \in Nat
    BY <1>0
  <2> QED
    BY <1>0, <2>1, <2>2
<1>5. PICK f : /\ Follows(s1, S, f)
               /\ \A a \in s1 : /\ f[a] \in MA!AssetRecords /\ f[a].id = a.id /\ f[a].name = a.name
                                /\ f[a].camera = IF a.camera = s5 THEN s4 ELSE a.camera
  BY <1>0, MovedList
<1> HIDE DEF S
<1>6. \A b \in S : \E a \in s1 : b = f[a] /\ b.id = a.id /\ b.name = a.name
                                 /\ b.camera = IF a.camera = s5 THEN s4 ELSE a.camera
  BY <1>5 DEF Follows
<1>7. MA!IsFiniteSet(S) /\ Cardinality(S) <= Cardinality(s1) /\ Cardinality(S) \in Nat /\ Cardinality(s1) \in Nat
  BY <1>0, <1>5, CardAssets, FewerFollow
<1>8. S = {} <=> s1 = {}
  BY <1>5 DEF Follows
<1>9. MA!AssetsShape'
  <2>1. \A b \in S : b \in MA!AssetRecords /\ b.id <= s12.requests
    BY <1>0, <1>5, <1>6
  <2>2. s1' \subseteq MA!AssetRecords /\ MA!IsFiniteSet(s1') /\ \A a \in s1' : a.id <= s12'.requests
    BY <1>0, <1>2, <1>4, <1>7, <2>1
  <2>3. s3' \in [AssetPlaces -> Nat]
    BY <1>0, <1>3
  <2> QED
    BY <1>0, <1>1, <1>4, <2>2, <2>3 DEF MA!AssetsShape
<1>10. MA!NumbersApart'
  <2>1. \A a, b \in s1 : a.id = b.id => a = b
    BY DEF MA!IInv, MA!NumbersApart
  <2>2. ASSUME NEW a \in S, NEW b \in S, a.id = b.id PROVE a = b
    <3>1. PICK x \in s1 : a = f[x] /\ a.id = x.id
      BY <1>6
    <3>2. PICK y \in s1 : b = f[y] /\ b.id = y.id
      BY <1>6
    <3> QED
      BY <2>1, <2>2, <3>1, <3>2
  <2>3. \A a \in s1' : \E b \in s1 : a.id = b.id
    BY <1>2, <1>6
  <2>4. \A a, b \in s1' : a.id = b.id => a = b
    BY <1>2, <2>1, <2>2
  <2> QED
    BY <1>1, <2>3, <2>4 DEF MA!IInv, MA!NumbersApart
<1>11. MA!HeldIsGood'
  BY <1>1 DEF MA!HeldIsGood, AssetBounds
<1>12. MA!Home = s5 /\ MA!Home' = IF ok THEN s4 ELSE s5
  BY <1>1 DEF MA!Home
<1>13. ASSUME ~s11 PROVE /\ \A a \in s1 : a.camera = s5
                         /\ \A a, b \in s1 : a.name = b.name => a = b
                         /\ Cardinality(s1) <= AssetsPerCamera
                         /\ moved <=> ok /\ s1 # {}
  <2>1. (\A a \in s1 : a.camera = s5) /\ \A a, b \in s1 : a.name = b.name => a = b
    BY <1>12, <1>13 DEF MA!IInv, MA!AllAtHome
  <2>2. MA!On(s5, s1) = s1
    BY <2>1 DEF MA!On
  <2> QED
    BY <1>13, <2>1, <2>2, CardAssets DEF MA!IInv, MA!AllAtHome
<1> HIDE DEF moved
<1>14. MA!AllAtHome'
  <2>1. ASSUME ~s11, moved PROVE MA!AllAtHome'
    <3>1. s1' = S /\ MA!Home' = s4
      BY <1>2, <1>12, <1>13, <2>1
    <3>2. \A b \in S : b.camera = s4
      BY <1>6, <1>13, <2>1
    <3>3. ASSUME NEW a \in S, NEW b \in S, a.name = b.name PROVE a = b
      <4>1. PICK x \in s1 : a = f[x] /\ a.name = x.name
        BY <1>6
      <4>2. PICK y \in s1 : b = f[y] /\ b.name = y.name
        BY <1>6
      <4> QED
        BY <1>13, <2>1, <3>3, <4>1, <4>2
    <3>4. Cardinality(S) <= AssetsPerCamera
      BY <1>7, <1>13, <2>1 DEF AssetBounds
    <3> QED
      BY <3>1, <3>2, <3>3, <3>4, CardAssets DEF MA!AllAtHome
  <2>2. ASSUME ~s11, ~moved PROVE MA!AllAtHome'
    <3>1. s1' = s1
      BY <1>2, <2>2
    <3>2. \A a \in s1 : a.camera = MA!Home'
      BY <1>12, <1>13, <2>2
    <3> QED
      BY <1>13, <2>2, <3>1, <3>2, CardAssets DEF MA!AllAtHome
  <2> QED
    BY <1>1, <2>1, <2>2 DEF MA!AllAtHome
<1>15. MA!FrameAtHome'
  <2>1. \A v \in AssetUsers : s7'[v].op = "create" /\ s7'[v].frame = 0 => s10'
    BY <1>1 DEF MA!IInv, MA!FrameAtHome, MA!NoFrame
  <2>2. s1' = {} <=> s1 = {}
    BY <1>2, <1>8
  <2>3. ASSUME ~s11, ~s10
        PROVE  /\ s1 # {} => s3'[MA!Home'] # 0
               /\ s12'.failures = 0 => \A q \in AssetPlaces : s3'[q] # 0 => q = MA!Home' /\ s1 # {}
    <3>1. /\ s1 # {} => s3[s5] # 0
          /\ s12'.failures = 0 => \A q \in AssetPlaces : s3[q] # 0 => q = s5 /\ s1 # {}
      BY <1>4, <1>12, <2>3 DEF MA!IInv, MA!FrameAtHome, MA!NoFrame
    <3>2. CASE ok
      <4>1. /\ s3'[s4] = (IF s3[s4] = 0 THEN s3[s5] ELSE s3[s4]) /\ s3'[s5] = 0
            /\ \A q \in AssetPlaces \ {s4, s5} : s3'[q] = s3[q]
        BY <1>0, <1>1, <1>3, <3>2
      <4> QED
        BY <1>0, <1>12, <3>1, <3>2, <4>1
    <3>3. CASE ~ok
      BY <1>3, <1>12, <3>1, <3>3
    <3> QED
      BY <3>2, <3>3
  <2> QED
    BY <1>1, <2>1, <2>2, <2>3 DEF MA!FrameAtHome, MA!NoFrame
<1>16. MA!MarkedFollows'
  <2>1. CASE moved
    <3>1. MA!Grouped(S) = MA!Grouped(s1)'
      BY <1>2, <2>1 DEF MA!Grouped
    <3> QED
      BY <1>2, <2>1, <3>1 DEF MA!MarkedFollows
  <2>2. CASE ~moved
    <3>1. UNCHANGED <<s1, s2, s9>>
      BY <1>2, <2>2
    <3>2. MA!Grouped(s1)' = MA!Grouped(s1) /\ MA!Carried(MA!Grouped(s1))' = MA!Carried(MA!Grouped(s1))
      BY <1>1, <3>1 DEF MA!Grouped, MA!Carried
    <3>3. ok => MA!Carried(MA!Grouped(s1)) = MA!Grouped(s1)
      <4> SUFFICES ASSUME MA!On(s5, s1) = {} PROVE MA!Carried(MA!Grouped(s1)) = MA!Grouped(s1)
        BY <2>2 DEF moved
      <4>1. PICK g : g = MA!Grouped(s1)
        OBVIOUS
      <4>2. g = [q \in AssetPlaces |-> g[q]]
        BY <4>1 DEF MA!Grouped
      <4>3. g[s5] = {}
        BY <1>0, <4>1 DEF MA!Grouped, MA!On
      <4>4. MA!Carried(g) = [g EXCEPT ![s4] = @ \cup g[s5], ![s5] = {}]
        BY DEF MA!Carried
      <4>5. MA!Carried(g) = g
        BY <1>0, <1>1, <4>2, <4>3, <4>4
      <4> QED
        BY <4>1, <4>5
    <3>4. ~s9 => \/ s2 = MA!Grouped(s1)
                 \/ s2 = MA!Carried(MA!Grouped(s1))
      BY DEF MA!IInv, MA!MarkedFollows
    <3>5. ~ok => s6' # "idle"
      BY <1>1
    <3> QED
      BY <3>1, <3>2, <3>3, <3>4, <3>5 DEF MA!MarkedFollows
  <2> QED
    BY <2>1, <2>2
<1> QED
  BY <1>9, <1>10, <1>11, <1>14, <1>15, <1>16 DEF MA!IInv

LEMMA AssetsStep ==
    ASSUME AssetBounds, MA!IInv, [MA!Next]_(MA!assetVars) PROVE MA!IInv'
<1>1. CASE UNCHANGED MA!assetVars
  <2>1. UNCHANGED <<s1, s2, s3, s4, s5, s6, s7, s8, s9, s10, s11, s12>>
    BY <1>1 DEF MA!assetVars
  <2>2. MA!AssetsShape' /\ MA!NumbersApart'
    BY <2>1 DEF MA!IInv, MA!AssetsShape, MA!NumbersApart
  <2>3. MA!HeldIsGood'
    BY <2>1 DEF MA!IInv, MA!HeldIsGood, MA!TakenName, MA!On
  <2>4. MA!FrameAtHome'
    BY <2>1 DEF MA!IInv, MA!Home, MA!FrameAtHome, MA!NoFrame
  <2>5. MA!AllAtHome' /\ MA!MarkedFollows'
    BY <2>1, AssetsRest DEF MA!IInv
  <2> QED
    BY <2>2, <2>3, <2>4, <2>5 DEF MA!IInv
<1>2. CASE MA!Next
  BY <1>2, AskSteps, CreateSteps, DeleteStep, UpdateStep, NoPictureStep, PlaceSteps, MoveStep DEF MA!Next
<1> QED
  BY <1>1, <1>2

LEMMA AssetsInOrder ==
    ASSUME AssetBounds, MA!IInv
    PROVE  MA!AssetsTypeOK /\ MA!NamesStayApart /\ MA!AnalyzerWatchesFile /\ MA!FramesFitAssets
<1>0. /\ s1 \subseteq MA!AssetRecords /\ MA!IsFiniteSet(s1) /\ MA!AssetsShape
  BY DEF MA!IInv, MA!AssetsShape
<1>1. MA!AssetsTypeOK
  BY <1>0 DEF MA!IInv, MA!NumbersApart, MA!HeldIsGood, MA!AssetsTypeOK, MA!AssetRecords
<1>2. MA!NamesStayApart
  <2> SUFFICES ASSUME ~s11, NEW p \in AssetPlaces
               PROVE  /\ \A a, b \in MA!On(p, s1) : a.name = b.name => a = b
                      /\ MA!Cardinality(MA!On(p, s1)) <= AssetsPerCamera
    BY DEF MA!NamesStayApart
  <2>1. MA!On(p, s1) \in SUBSET s1
    BY DEF MA!On
  <2>2. (\A a, b \in s1 : a.name = b.name => a = b) /\ Cardinality(s1) <= AssetsPerCamera
    BY CardAssets DEF MA!IInv, MA!AllAtHome
  <2>3. /\ Cardinality(MA!On(p, s1)) <= Cardinality(s1)
        /\ Cardinality(MA!On(p, s1)) \in Nat /\ Cardinality(s1) \in Nat
    BY <1>0, <2>1, CardAssets, FS_Subset, FS_CardinalityType
  <2>4. Cardinality(MA!On(p, s1)) <= AssetsPerCamera
    BY <2>2, <2>3 DEF AssetBounds
  <2> QED
    BY <2>1, <2>2, <2>4, CardAssets
<1>3. MA!AnalyzerWatchesFile
  BY DEF MA!IInv, MA!MarkedFollows, MA!AnalyzerWatchesFile
<1>4. MA!FramesFitAssets
  <2> SUFFICES ASSUME s6 = "idle", ~s11, ~s10, NEW p \in AssetPlaces
               PROVE  /\ MA!On(p, s1) # {} => s3[p] # 0
                      /\ s12.failures = 0 /\ s3[p] # 0 => MA!On(p, s1) # {}
    BY DEF MA!FramesFitAssets, MA!NoFrame
  <2>1. /\ \A a \in s1 : a.camera = MA!Home
        /\ s1 # {} => s3[MA!Home] # 0
        /\ s12.failures = 0 => (s3[p] # 0 => p = MA!Home /\ s1 # {})
    BY DEF MA!IInv, MA!AllAtHome, MA!FrameAtHome, MA!NoFrame
  <2> QED
    BY <2>1 DEF MA!On
<1> QED
  BY <1>1, <1>2, <1>3, <1>4

-----------------------------------------------------------------------------
(* The settings of a camera (CameraSettings): s1 to s3 are the renaming,   *)
(* s4 is the file, s5 what the analyzer has, s6 the aliases, s7 the pages, *)
(* s8 the requests, s9 what was wanted, s10 and s11 what disturbs.         *)

(* The camera's first name is a name, "no alias" is none, and what         *)
(* options.json says can be a setting.                                     *)
SettingBounds ==
    /\ FirstCameraName \in CameraNameSet /\ "no alias" \notin CameraNameSet
    /\ OptionText \in {0, 1} /\ OptionCar \in BOOLEAN

LEMMA EntryIsItsFields ==
    /\ \A e \in CS!Entries : e = [text |-> e.text, car |-> e.car, zone |-> e.zone, auto |-> e.auto]
    /\ \A t \in {0, 1}, c \in BOOLEAN, z \in {0, 1}, a \in BOOLEAN :
          [text |-> t, car |-> c, zone |-> z, auto |-> a] \in CS!Entries
    /\ \A e \in CS!Entries : e.text \in {0, 1} /\ e.car \in BOOLEAN /\ e.zone \in {0, 1} /\ e.auto \in BOOLEAN
BY DEF CS!Entries

LEMMA EntryFacts ==
    /\ CS!Default \in CS!Entries /\ CS!Nothing \notin CS!Entries
    /\ CS!Default.text = 0 /\ CS!Default.car = FALSE /\ CS!Default.zone = 0 /\ CS!Default.auto = TRUE
    /\ CS!Shown(CS!Nothing) = CS!Default
    /\ \A e \in CS!Entries : CS!Shown(e) = e
    /\ \A e \in CS!Entries \cup {CS!Nothing} : CS!Shown(e) \in CS!Entries
<1>1. CS!Default \in CS!Entries
  BY EntryIsItsFields DEF CS!Default
<1>2. CS!Nothing \notin CS!Entries
  BY EntryIsItsFields DEF CS!Nothing
<1>3. CS!Default.text = 0 /\ CS!Default.car = FALSE /\ CS!Default.zone = 0 /\ CS!Default.auto = TRUE
  BY DEF CS!Default
<1> QED
  BY <1>1, <1>2, <1>3 DEF CS!Shown

(* Of two entries one is made; the defaults change nothing of an entry.    *)
LEMMA MergedFacts ==
    /\ \A d, e \in CS!Entries : /\ CS!Merged(d, e) \in CS!Entries
                                /\ CS!Merged(d, e).text = IF d.text = 0 THEN e.text ELSE d.text
                                /\ CS!Merged(d, e).zone = IF d.zone = 0 THEN e.zone ELSE d.zone
                                /\ CS!Merged(d, e).car = (d.car \/ e.car)
                                /\ CS!Merged(d, e).auto = (d.auto /\ e.auto)
    /\ \A d, e \in CS!Entries :
          d.text = e.text /\ d.car = e.car /\ d.zone = e.zone /\ d.auto = e.auto => d = e
<1>1. ASSUME NEW d \in CS!Entries, NEW e \in CS!Entries
      PROVE  /\ CS!Merged(d, e) \in CS!Entries
             /\ CS!Merged(d, e).text = IF d.text = 0 THEN e.text ELSE d.text
             /\ CS!Merged(d, e).zone = IF d.zone = 0 THEN e.zone ELSE d.zone
             /\ CS!Merged(d, e).car = (d.car \/ e.car)
             /\ CS!Merged(d, e).auto = (d.auto /\ e.auto)
  <2>1. CS!Merged(d, e) = [text |-> IF d.text = 0 THEN e.text ELSE d.text, car |-> d.car \/ e.car,
                           zone |-> IF d.zone = 0 THEN e.zone ELSE d.zone, auto |-> d.auto /\ e.auto]
    BY DEF CS!Merged
  <2>2. /\ (IF d.text = 0 THEN e.text ELSE d.text) \in {0, 1} /\ (IF d.zone = 0 THEN e.zone ELSE d.zone) \in {0, 1}
        /\ (d.car \/ e.car) \in BOOLEAN /\ (d.auto /\ e.auto) \in BOOLEAN
    BY EntryIsItsFields
  <2>3. CS!Merged(d, e) \in CS!Entries
    BY <2>1, <2>2, EntryIsItsFields
  <2> QED
    BY <2>1, <2>3 DEF CS!Merged
<1>2. ASSUME NEW d \in CS!Entries, NEW e \in CS!Entries, d.text = e.text, d.car = e.car, d.zone = e.zone, d.auto = e.auto
      PROVE  d = e
  <2>1. /\ d = [text |-> d.text, car |-> d.car, zone |-> d.zone, auto |-> d.auto]
        /\ e = [text |-> e.text, car |-> e.car, zone |-> e.zone, auto |-> e.auto]
    BY EntryIsItsFields
  <2> QED
    BY <1>2, <2>1
<1> QED
  BY <1>1, <1>2

(* A section changes only its own fields.                                  *)
LEMMA OwnFieldsFacts ==
    \A s \in CS!Sections, d, e \in CS!Entries : CS!OwnFields(s, d, e) \in CS!Entries
<1> SUFFICES ASSUME NEW s \in CS!Sections, NEW d \in CS!Entries, NEW e \in CS!Entries
             PROVE  CS!OwnFields(s, d, e) \in CS!Entries
  OBVIOUS
<1>1. CASE s = "descriptions"
  <2>1. CS!OwnFields(s, d, e) = [d EXCEPT !.text = e.text]
    BY <1>1 DEF CS!OwnFields
  <2> QED
    BY <2>1 DEF CS!Entries
<1>2. CASE s = "vehicles"
  <2>1. CS!OwnFields(s, d, e) = [d EXCEPT !.car = e.car, !.zone = e.zone]
    BY <1>2 DEF CS!OwnFields
  <2> QED
    BY <2>1 DEF CS!Entries
<1>3. CASE s = "automatic"
  <2>1. CS!OwnFields(s, d, e) = [d EXCEPT !.auto = e.auto]
    BY <1>3 DEF CS!OwnFields
  <2> QED
    BY <2>1 DEF CS!Entries
<1> QED
  BY <1>1, <1>2, <1>3 DEF CS!Sections

(* What a start makes of a file.                                           *)
LEMMA LoadedFacts ==
    ASSUME SettingBounds, NEW rows \in CS!Rows
    PROVE  /\ CS!InUse(rows) \in [CameraNameSet -> CS!Entries]
           /\ \A n \in CameraNameSet : CS!InUse(rows)[n] = CS!Shown(rows[n])
           /\ \A o : CS!Loaded(rows, o) \in [CameraNameSet -> CS!Entries]
           /\ \A o, n \in CameraNameSet :
                 /\ n # o => CS!Loaded(rows, o)[n] = CS!Shown(rows[n])
                 /\ LET e == CS!Shown(rows[n]) IN
                    /\ CS!Loaded(rows, n)[n].text = IF e.text = 0 THEN OptionText ELSE e.text
                    /\ CS!Loaded(rows, n)[n].zone = e.zone /\ CS!Loaded(rows, n)[n].auto = e.auto
                    /\ CS!Loaded(rows, n)[n].car =
                          (e.car \/ (OptionCar /\ \A m \in CameraNameSet : ~CS!Shown(rows[m]).car))
<1> DEFINE none == \A m \in CameraNameSet : ~CS!Shown(rows[m]).car
           full(n) == [CS!Shown(rows[n]) EXCEPT !.text = IF @ = 0 THEN OptionText ELSE @,
                                                !.car = @ \/ (OptionCar /\ none)]
<1>1. \A n \in CameraNameSet : rows[n] \in CS!Entries \cup {CS!Nothing}
  BY DEF CS!Rows
<1>2. \A n \in CameraNameSet : CS!Shown(rows[n]) \in CS!Entries
  BY <1>1, EntryFacts
<1>3. ASSUME NEW n \in CameraNameSet
      PROVE  /\ full(n) \in CS!Entries
             /\ full(n).text = IF CS!Shown(rows[n]).text = 0 THEN OptionText ELSE CS!Shown(rows[n]).text
             /\ full(n).zone = CS!Shown(rows[n]).zone /\ full(n).auto = CS!Shown(rows[n]).auto
             /\ full(n).car = (CS!Shown(rows[n]).car \/ (OptionCar /\ none))
  <2>1. PICK e \in CS!Entries : e = CS!Shown(rows[n])
    BY <1>2
  <2>2. PICK b \in BOOLEAN : b = none
    OBVIOUS
  <2> HIDE DEF none
  <2>3. full(n) = [text |-> IF e.text = 0 THEN OptionText ELSE e.text, car |-> e.car \/ (OptionCar /\ b),
                   zone |-> e.zone, auto |-> e.auto]
    <3>1. full(n) = [e EXCEPT !.text = IF @ = 0 THEN OptionText ELSE @, !.car = @ \/ (OptionCar /\ b)]
      BY <2>1, <2>2
    <3>2. e = [text |-> e.text, car |-> e.car, zone |-> e.zone, auto |-> e.auto]
      BY EntryIsItsFields
    <3> HIDE DEF full
    <3>3. ASSUME NEW t, NEW c, NEW z, NEW a, e = [text |-> t, car |-> c, zone |-> z, auto |-> a]
          PROVE  full(n) = [text |-> IF t = 0 THEN OptionText ELSE t, car |-> c \/ (OptionCar /\ b), zone |-> z,
                            auto |-> a]
      BY <3>1, <3>3
    <3> QED
      BY <3>2, <3>3
  <2>4. /\ e.text \in {0, 1} /\ e.car \in BOOLEAN /\ e.zone \in {0, 1} /\ e.auto \in BOOLEAN
        /\ (IF e.text = 0 THEN OptionText ELSE e.text) \in {0, 1} /\ (e.car \/ (OptionCar /\ b)) \in BOOLEAN
    BY EntryIsItsFields DEF SettingBounds
  <2> HIDE DEF full
  <2>5. full(n) \in CS!Entries
    BY <2>3, <2>4, EntryIsItsFields
  <2> QED
    BY <2>1, <2>2, <2>3, <2>5
<1>4. \A o : CS!Loaded(rows, o) = [n \in CameraNameSet |-> IF n # o THEN CS!Shown(rows[n]) ELSE full(n)]
  BY DEF CS!Loaded
<1> HIDE DEF full, none
<1>5. \A o : CS!Loaded(rows, o) \in [CameraNameSet -> CS!Entries]
  BY <1>2, <1>3, <1>4
<1>6. CS!InUse(rows) \in [CameraNameSet -> CS!Entries] /\ \A n \in CameraNameSet : CS!InUse(rows)[n] = CS!Shown(rows[n])
  BY <1>2 DEF CS!InUse
<1>7. \A o, n \in CameraNameSet : /\ n # o => CS!Loaded(rows, o)[n] = CS!Shown(rows[n])
                                  /\ CS!Loaded(rows, n)[n] = full(n)
  BY <1>4
<1> QED
  BY <1>3, <1>5, <1>6, <1>7 DEF none
LEMMA SettingsInit == ASSUME SettingBounds, CS!Init PROVE CS!IInv
<1>0. CS!NoRows \in CS!Rows /\ CS!Present(CS!NoRows) = {} /\ \A n \in CameraNameSet : CS!NoRows[n] = CS!Nothing
  BY DEF CS!NoRows, CS!Rows, CS!Present
<1>1. /\ s1 = FirstCameraName /\ s2 = s1 /\ s3 = "idle" /\ s4 = CS!NoRows /\ s5 = CS!Loaded(CS!NoRows, s1)
      /\ s6 = [n \in CameraNameSet |-> CS!NoAlias] /\ s7 = [s \in CS!Sections |-> CS!Listing]
      /\ s8 = [s \in CS!Sections |-> CS!Quiet] /\ s9 = CS!Default /\ s1 \in CameraNameSet
  BY DEF CS!Init, SettingBounds
<1>2. CS!Listing \in CS!Rows /\ CS!Present(CS!Listing) = {s1}
  <2>1. CS!Listing = [n \in CameraNameSet |-> IF n = s1 THEN CS!Default ELSE CS!Nothing]
    BY <1>0, <1>1, EntryFacts DEF CS!Listing
  <2> HIDE DEF CS!Listing
  <2> QED
    BY <1>1, <2>1, EntryFacts DEF CS!Rows, CS!Present
<1>3. CS!Quiet \in CS!Savings /\ CS!Quiet.phase = "idle" /\ CS!Quiet.rows \in CS!Rows /\ CS!Quiet.revision \in CS!Rows
  BY <1>0, EntryFacts DEF CS!Quiet, CS!Savings, SettingBounds
<1>4. CS!SettingsTypeOK
  BY <1>0, <1>1, <1>2, <1>3, EntryFacts, LoadedFacts DEF CS!SettingsTypeOK, CS!NoAlias, SettingBounds
<1>5. CS!SettingsShape
  BY <1>1, <1>3 DEF CS!SettingsShape, CS!NoAlias
<1>6. CS!NamesLead
  BY <1>1 DEF CS!NamesLead, CS!OptionFor, CS!Before, CS!NoAlias
<1>7. CS!OneEntry
  BY <1>0, <1>1, EntryFacts DEF CS!OneEntry
<1>8. CS!OneRow
  BY <1>1, <1>2, <1>3 DEF CS!OneRow, CS!RowOf, CS!Leads
<1>9. CS!LiveFollows
  BY <1>1 DEF CS!LiveFollows
<1> QED
  BY <1>4, <1>5, <1>6, <1>7, <1>8, <1>9 DEF CS!IInv

(* The facts of the state that the steps need most.                        *)
LEMMA SettingFacts ==
    ASSUME SettingBounds, CS!IInv
    PROVE  /\ s1 \in CameraNameSet /\ s2 \in CameraNameSet /\ s3 \in {"idle", "listed", "moved"}
           /\ s3 # "idle" => s1 # s2
           /\ s4 \in CS!Rows /\ s5 \in [CameraNameSet -> CS!Entries] /\ s7 \in [CS!Sections -> CS!Rows]
           /\ s8 \in [CS!Sections -> CS!Savings] /\ s9 \in CS!Entries
           /\ s6 \in [CameraNameSet -> CameraNameSet \cup {CS!NoAlias}] /\ \A n \in CameraNameSet : s6[n] # n
           /\ CS!Before \in CameraNameSet /\ s6[CS!Before] = CS!NoAlias
           /\ \A n \in CameraNameSet : s4[n] \in CS!Entries \cup {CS!Nothing}
           /\ \A s \in CS!Sections, n \in CameraNameSet : s7[s][n] \in CS!Entries \cup {CS!Nothing}
BY DEF CS!IInv, CS!SettingsTypeOK, CS!SettingsShape, CS!NamesLead, CS!Before, CS!Rows

LEMMA SavingFields ==
    ASSUME NEW r \in CS!Savings
    PROVE  /\ r.phase \in {"idle", "asked", "sent"} /\ r.rows \in CS!Rows /\ r.pushed \in SUBSET CameraNameSet
           /\ r.revision \in CS!Rows /\ r.edited \in CameraNameSet /\ r.values \in CS!Entries
BY DEF CS!Savings

LEMMA QuietFacts ==
    ASSUME SettingBounds
    PROVE  CS!Quiet \in CS!Savings /\ CS!Quiet.phase = "idle"
           /\ \A n \in CameraNameSet : LET r == [CS!Quiet EXCEPT !.phase = "asked", !.edited = n]
                                       IN r \in CS!Savings /\ r.phase = "asked" /\ r.edited = n
<1>1. CS!NoRows \in CS!Rows
  BY DEF CS!NoRows, CS!Rows
<1> QED
  BY <1>1, EntryFacts DEF CS!Quiet, CS!Savings, SettingBounds

(* Of the list the pages read: one row, with what the file has for the     *)
(* camera.                                                                 *)
LEMMA ListingFacts ==
    ASSUME SettingBounds, CS!IInv
    PROVE  /\ CS!Listing \in CS!Rows /\ CS!Present(CS!Listing) = {s1} /\ CS!Listing[s1] = CS!Shown(s4[s1])
           /\ \A n \in CameraNameSet \ {s1} : CS!Listing[n] = CS!Nothing
           /\ CS!Listing[s1] \in CS!Entries
<1>1. CS!Shown(s4[s1]) \in CS!Entries /\ s1 \in CameraNameSet
  BY SettingFacts, EntryFacts
<1> QED
  BY <1>1, EntryFacts DEF CS!Listing, CS!Rows, CS!Present
LEMMA CardSettings == \A S : CS!Cardinality(S) = Cardinality(S) /\ (CS!IsFiniteSet(S) <=> IsFiniteSet(S))
BY DEF CS!Cardinality, Cardinality, CS!IsFiniteSet, IsFiniteSet

LEMMA NamesStay ==
    ASSUME CS!IInv, UNCHANGED <<s1, s2, s3, s6>>
    PROVE  /\ CS!NamesLead' /\ CS!Before' = CS!Before
           /\ \A n : CS!Leads(n) <=> CS!Leads(n)'
BY DEF CS!IInv, CS!NamesLead, CS!OptionFor, CS!Before, CS!Leads, CS!NoAlias

(* A section whose page and request are left alone keeps its row.          *)
LEMMA RowStays ==
    ASSUME NEW s \in CS!Sections, CS!RowOf(s), s7'[s] = s7[s], s8'[s] = s8[s],
           \A n \in CameraNameSet : CS!Leads(n) => CS!Leads(n)'
    PROVE  CS!RowOf(s)'
<1>1. CS!Present(s7[s])' = CS!Present(s7[s])
  BY DEF CS!Present
<1>2. /\ CS!Present(s8[s].rows)' = CS!Present(s8[s].rows) /\ CS!Present(s8[s].revision)' = CS!Present(s8[s].revision)
  BY DEF CS!Present
<1> QED
  BY <1>1, <1>2 DEF CS!RowOf

(* Of the entries and of the analyzer's copy nothing is touched.           *)
LEMMA OnlyPages ==
    ASSUME SettingBounds, CS!IInv, UNCHANGED <<s1, s2, s3, s4, s5, s6, s9, s10>>, s11 => s11',
           s7' \in [CS!Sections -> CS!Rows], s8' \in [CS!Sections -> CS!Savings], CS!OneRow'
    PROVE  CS!IInv'
<1>1. CS!SettingsTypeOK'
  BY SavingFields DEF CS!IInv, CS!SettingsTypeOK
<1>2. CS!SettingsShape'
  BY DEF CS!IInv, CS!SettingsShape
<1>3. CS!NamesLead' /\ CS!Before' = CS!Before
  BY NamesStay
<1>4. CS!Migrated' = CS!Migrated /\ CS!Present(s4)' = CS!Present(s4)
  BY DEF CS!Migrated, CS!Present, CS!Merged
<1>5. CS!OneEntry'
  BY <1>3, <1>4 DEF CS!IInv, CS!OneEntry
<1>6. CS!LiveFollows'
  BY DEF CS!IInv, CS!LiveFollows
<1> QED
  BY <1>1, <1>2, <1>3, <1>5, <1>6 DEF CS!IInv

LEMMA LoadStep ==
    ASSUME SettingBounds, CS!IInv, NEW s \in CS!Sections, CS!Load(s) PROVE CS!IInv'
<1>1. /\ s8[s].phase = "idle" /\ s7' = [s7 EXCEPT ![s] = CS!Listing]
      /\ UNCHANGED <<s1, s2, s3, s4, s5, s6, s8, s9, s10, s11>>
  BY DEF CS!Load, CS!nameVars
<1>2. s7 \in [CS!Sections -> CS!Rows] /\ s8 \in [CS!Sections -> CS!Savings] /\ s1 \in CameraNameSet
  BY SettingFacts
<1>3. /\ s7' \in [CS!Sections -> CS!Rows] /\ s7'[s] = CS!Listing /\ \A z \in CS!Sections \ {s} : s7'[z] = s7[z]
  BY <1>1, <1>2, ListingFacts
<1>4. \A n \in CameraNameSet : CS!Leads(n) => CS!Leads(n)'
  BY <1>1, NamesStay
<1>5. CS!OneRow'
  <2> SUFFICES ASSUME ~s11', NEW z \in CS!Sections PROVE CS!RowOf(z)'
    BY DEF CS!OneRow
  <2>1. CS!RowOf(z)
    BY <1>1 DEF CS!IInv, CS!OneRow
  <2>2. CASE z # s
    BY <1>1, <1>3, <1>4, <2>1, <2>2, RowStays
  <2>3. CASE z = s
    <3>1. CS!Present(s7'[s]) = {s1}
      BY <1>3, ListingFacts
    <3>2. CS!Leads(s1)'
      BY <1>1 DEF CS!Leads
    <3> QED
      BY <1>1, <1>2, <2>3, <3>1, <3>2 DEF CS!RowOf, CS!Present
  <2> QED
    BY <2>2, <2>3
<1> QED
  BY <1>1, <1>2, <1>3, <1>5, OnlyPages

LEMMA SaveStep ==
    ASSUME SettingBounds, CS!IInv, NEW s \in CS!Sections, NEW n \in CameraNameSet, NEW entry \in CS!Entries,
           CS!Save(s, n, entry)
    PROVE  CS!IInv'
<1> DEFINE asked == [CS!Quiet EXCEPT !.phase = "asked", !.edited = n]
<1>1. /\ s8[s].phase = "idle" /\ s7[s][n] # CS!Nothing
      /\ s7' = [s7 EXCEPT ![s][n] = entry] /\ s8' = [s8 EXCEPT ![s] = asked]
      /\ UNCHANGED <<s1, s2, s3, s4, s5, s6, s9, s10, s11>>
  BY DEF CS!Save, CS!nameVars
<1>2. asked \in CS!Savings /\ asked.phase = "asked" /\ asked.edited = n
  BY QuietFacts
<1> HIDE DEF asked
<1>3. s7 \in [CS!Sections -> CS!Rows] /\ s8 \in [CS!Sections -> CS!Savings]
  BY SettingFacts
<1>4. /\ s8' \in [CS!Sections -> CS!Savings] /\ s8'[s] = asked /\ \A z \in CS!Sections \ {s} : s8'[z] = s8[z]
  BY <1>1, <1>2, <1>3
<1>5. /\ s7' \in [CS!Sections -> CS!Rows] /\ s7'[s] = [s7[s] EXCEPT ![n] = entry]
      /\ \A z \in CS!Sections \ {s} : s7'[z] = s7[z]
  BY <1>1, <1>3 DEF CS!Rows
<1>6. \A m \in CameraNameSet : CS!Leads(m) => CS!Leads(m)'
  BY <1>1, NamesStay
<1>7. CS!Present(s7'[s]) = CS!Present(s7[s])
  <2>1. s7[s] \in CS!Rows
    BY <1>3
  <2> QED
    BY <1>1, <1>5, <2>1, EntryFacts DEF CS!Present, CS!Rows
<1>8. CS!OneRow'
  <2> SUFFICES ASSUME ~s11', NEW z \in CS!Sections PROVE CS!RowOf(z)'
    BY DEF CS!OneRow
  <2>1. CS!RowOf(z)
    BY <1>1 DEF CS!IInv, CS!OneRow
  <2>2. CASE z # s
    BY <1>4, <1>5, <1>6, <2>1, <2>2, RowStays
  <2>3. CASE z = s
    <3>1. n \in CS!Present(s7[s])
      BY <1>1 DEF CS!Present
    <3>2. CS!Leads(n) /\ CS!Present(s7[s]) = {n}
      BY <2>1, <2>3, <3>1 DEF CS!RowOf
    <3>3. CS!Present(s7[s])' = {n} /\ CS!Leads(n)'
      BY <1>6, <1>7, <3>2 DEF CS!Present
    <3> QED
      BY <1>2, <1>4, <2>3, <3>3 DEF CS!RowOf
  <2> QED
    BY <2>2, <2>3
<1> QED
  BY <1>1, <1>4, <1>5, <1>8, OnlyPages

LEMMA ConflictStep ==
    ASSUME SettingBounds, CS!IInv, NEW s \in CS!Sections, CS!Conflict(s) PROVE CS!IInv'
<1> DEFINE again == [s8[s] EXCEPT !.phase = "asked", !.attempt = 1]
<1>1. /\ s8[s].phase = "sent" /\ s8' = [s8 EXCEPT ![s] = IF s8[s].attempt = 0 THEN again ELSE CS!Quiet]
      /\ UNCHANGED <<s1, s2, s3, s4, s5, s6, s7, s9, s10, s11>>
  BY DEF CS!Conflict, CS!nameVars
<1>2. s7 \in [CS!Sections -> CS!Rows] /\ s8 \in [CS!Sections -> CS!Savings]
  BY SettingFacts
<1>3. again \in CS!Savings /\ again.phase = "asked" /\ again.edited = s8[s].edited
  BY <1>2 DEF CS!Savings
<1> HIDE DEF again
<1>4. /\ s8' \in [CS!Sections -> CS!Savings] /\ s8'[s] \in {again, CS!Quiet}
      /\ \A z \in CS!Sections \ {s} : s8'[z] = s8[z]
  BY <1>1, <1>2, <1>3, QuietFacts
<1>5. \A m \in CameraNameSet : CS!Leads(m) => CS!Leads(m)'
  BY <1>1, NamesStay
<1>6. CS!OneRow'
  <2> SUFFICES ASSUME ~s11', NEW z \in CS!Sections PROVE CS!RowOf(z)'
    BY DEF CS!OneRow
  <2>1. CS!RowOf(z)
    BY <1>1 DEF CS!IInv, CS!OneRow
  <2>2. CASE z # s
    BY <1>1, <1>4, <1>5, <2>1, <2>2, RowStays
  <2>3. CASE z = s
    <3>1. PICK n \in CameraNameSet : CS!Leads(n) /\ CS!Present(s7[s]) = {n} /\ s8[s].edited = n
      BY <1>1, <2>1, <2>3 DEF CS!RowOf
    <3>2. CS!Present(s7[s])' = {n} /\ CS!Leads(n)'
      BY <1>1, <1>5, <3>1 DEF CS!Present
    <3>3. s8'[s].phase # "sent" /\ (s8'[s].phase # "idle" => s8'[s].edited = n)
      BY <1>3, <1>4, <3>1, QuietFacts
    <3> QED
      BY <2>3, <3>2, <3>3 DEF CS!RowOf
  <2> QED
    BY <2>2, <2>3
<1> QED
  BY <1>1, <1>2, <1>4, <1>6, OnlyPages
(* What a section sends: the list it has just read, with its own fields of *)
(* the rows it shows.                                                      *)
LEMMA BuiltShape ==
    ASSUME SettingBounds, CS!IInv, NEW s \in CS!Sections, NEW local \in CS!Rows
    PROVE  CS!Built(s, local, CS!Listing).rows \in CS!Rows /\ CS!Built(s, local, CS!Listing).pushed \in SUBSET CameraNameSet
<1> DEFINE latest == CS!Listing
           localOnly == CS!Present(local) \ CS!Present(latest)
           latestOnly == CS!Present(latest) \ CS!Present(local)
           followed == {n \in localOnly : /\ CS!Cardinality(localOnly) = 1 /\ CS!Cardinality(latestOnly) = 1
                                          /\ CS!Resolved(n) \in latestOnly}
           Mine(n) == IF local[n] # CS!Nothing THEN local[n]
                      ELSE IF followed # {} THEN local[CHOOSE m \in followed : TRUE] ELSE CS!Nothing
           rows == [n \in CameraNameSet |->
                     IF latest[n] # CS!Nothing
                       THEN IF Mine(n) = CS!Nothing THEN latest[n] ELSE CS!OwnFields(s, latest[n], Mine(n))
                     ELSE IF n \in localOnly \ followed THEN local[n] ELSE CS!Nothing]
<1>1. CS!Built(s, local, CS!Listing) = [rows |-> rows, pushed |-> localOnly \ followed]
  BY DEF CS!Built
<1>2. localOnly \subseteq CameraNameSet /\ followed \subseteq CameraNameSet
  BY DEF CS!Present
<1>3. \A n \in CameraNameSet : local[n] \in CS!Entries \cup {CS!Nothing} /\ latest[n] \in CS!Entries \cup {CS!Nothing}
  BY ListingFacts DEF CS!Rows
<1> HIDE DEF followed, localOnly, latestOnly, latest
<1>4. \A n \in CameraNameSet : Mine(n) \in CS!Entries \cup {CS!Nothing}
  BY <1>2, <1>3
<1> HIDE DEF Mine
<1>5. ASSUME NEW n \in CameraNameSet PROVE rows[n] \in CS!Entries \cup {CS!Nothing}
  BY <1>3, <1>4, OwnFieldsFacts
<1>6. rows \in CS!Rows
  BY <1>5 DEF CS!Rows
<1> HIDE DEF rows
<1> QED
  BY <1>1, <1>2, <1>6

(* Between renamings a page with one row, which leads to the camera, sends *)
(* that row under the camera's name.                                       *)
LEMMA BuiltRow ==
    ASSUME SettingBounds, CS!IInv, s3 = "idle", NEW s \in CS!Sections, NEW local \in CS!Rows,
           NEW k \in CameraNameSet, CS!Leads(k), CS!Present(local) = {k}
    PROVE  /\ CS!Present(CS!Built(s, local, CS!Listing).rows) = {s1}
           /\ CS!Built(s, local, CS!Listing).pushed = {}
           /\ CS!Built(s, local, CS!Listing).rows[s1] = CS!OwnFields(s, CS!Shown(s4[s1]), local[k])
<1> DEFINE latest == CS!Listing
           localOnly == CS!Present(local) \ CS!Present(latest)
           latestOnly == CS!Present(latest) \ CS!Present(local)
           followed == {n \in localOnly : /\ CS!Cardinality(localOnly) = 1 /\ CS!Cardinality(latestOnly) = 1
                                          /\ CS!Resolved(n) \in latestOnly}
           Mine(n) == IF local[n] # CS!Nothing THEN local[n]
                      ELSE IF followed # {} THEN local[CHOOSE m \in followed : TRUE] ELSE CS!Nothing
           rows == [n \in CameraNameSet |->
                     IF latest[n] # CS!Nothing
                       THEN IF Mine(n) = CS!Nothing THEN latest[n] ELSE CS!OwnFields(s, latest[n], Mine(n))
                     ELSE IF n \in localOnly \ followed THEN local[n] ELSE CS!Nothing]
<1>1. CS!Built(s, local, CS!Listing) = [rows |-> rows, pushed |-> localOnly \ followed]
  BY DEF CS!Built
<1>2. /\ local[k] \in CS!Entries /\ \A n \in CameraNameSet \ {k} : local[n] = CS!Nothing
  BY DEF CS!Rows, CS!Present
<1>3. /\ latest[s1] = CS!Shown(s4[s1]) /\ latest[s1] \in CS!Entries /\ CS!Present(latest) = {s1}
      /\ \A n \in CameraNameSet \ {s1} : latest[n] = CS!Nothing
      /\ s1 \in CameraNameSet
  BY ListingFacts, SettingFacts
<1>4. localOnly = {k} \ {s1} /\ latestOnly = {s1} \ {k}
  BY <1>3
<1>5. followed = localOnly
  <2>1. CASE k = s1
    <3>1. localOnly = {}
      BY <1>4, <2>1
    <3> HIDE DEF localOnly, latestOnly
    <3> QED
      BY <3>1
  <2>2. CASE k # s1
    <3>1. localOnly = {k} /\ latestOnly = {s1}
      BY <1>4, <2>2
    <3>2. CS!Cardinality({k}) = 1 /\ CS!Cardinality({s1}) = 1
      BY CardSettings, FS_Singleton
    <3>3. CS!Resolved(k) = s1
      <4>1. s6[k] = s1 /\ s6[s1] = CS!NoAlias /\ CS!NoAlias # s1
        BY <2>2, SettingFacts DEF CS!Leads, CS!Before, CS!NoAlias, SettingBounds
      <4>2. CS!Effective[k] = s1 /\ CS!Effective[s1] = CS!NoAlias
        BY <1>3, <2>2, <4>1 DEF CS!Effective
      <4> QED
        BY <4>1, <4>2 DEF CS!Resolved
    <3> HIDE DEF localOnly, latestOnly
    <3> QED
      BY <3>1, <3>2, <3>3
  <2> QED
    BY <2>1, <2>2
<1>6. Mine(s1) = local[k]
  <2>1. CASE k = s1
    BY <1>2, <2>1, EntryFacts
  <2>2. CASE k # s1
    <3>1. local[s1] = CS!Nothing
      BY <1>2, <1>3, <2>2
    <3>2. followed = {k}
      BY <1>4, <1>5, <2>2
    <3> HIDE DEF followed
    <3> QED
      BY <3>1, <3>2
  <2> QED
    BY <2>1, <2>2
<1>7. localOnly \ followed = {}
  BY <1>5
<1> HIDE DEF Mine, followed, localOnly, latestOnly, latest
<1>8. rows[s1] = CS!OwnFields(s, CS!Shown(s4[s1]), local[k])
  BY <1>2, <1>3, <1>6, EntryFacts
<1>9. \A n \in CameraNameSet \ {s1} : rows[n] = CS!Nothing
  BY <1>3, <1>7
<1>10. rows[s1] \in CS!Entries
  BY <1>2, <1>3, <1>8, OwnFieldsFacts
<1> HIDE DEF rows
<1>11. CS!Present(rows) = {s1}
  BY <1>3, <1>9, <1>10, EntryFacts DEF CS!Present
<1> QED
  BY <1>1, <1>7, <1>8, <1>11

LEMMA ReadAgainStep ==
    ASSUME SettingBounds, CS!IInv, NEW s \in CS!Sections, CS!ReadAgain(s) PROVE CS!IInv'
<1> DEFINE req == CS!Request(s, s7[s], s8[s].edited, s8[s].attempt)
           built == CS!Built(s, s7[s], CS!Listing)
<1>1. /\ s8[s].phase = "asked" /\ s8' = [s8 EXCEPT ![s] = req]
      /\ s11' = (s11 \/ s3 # "idle")
      /\ UNCHANGED <<s1, s2, s3, s4, s5, s6, s7, s9, s10>>
  BY DEF CS!ReadAgain, CS!nameVars
<1>2. s7 \in [CS!Sections -> CS!Rows] /\ s8 \in [CS!Sections -> CS!Savings] /\ s4 \in CS!Rows /\ s7[s] \in CS!Rows
  BY SettingFacts
<1>3. /\ req.phase = "sent" /\ req.rows = built.rows /\ req.pushed = built.pushed /\ req.revision = s4
      /\ req.edited = s8[s].edited /\ req.values = CS!Shown(s7[s][s8[s].edited])
  BY DEF CS!Request
<1>4. req \in CS!Savings
  <2>1. s8[s].edited \in CameraNameSet /\ s8[s].attempt \in {0, 1}
    BY <1>2 DEF CS!Savings
  <2>2. built.rows \in CS!Rows /\ built.pushed \in SUBSET CameraNameSet
    BY <1>2, BuiltShape
  <2>3. CS!Shown(s7[s][s8[s].edited]) \in CS!Entries
    BY <2>1, SettingFacts, EntryFacts
  <2> HIDE DEF built
  <2>4. req = [phase |-> "sent", rows |-> built.rows, pushed |-> built.pushed, revision |-> s4,
               edited |-> s8[s].edited, values |-> CS!Shown(s7[s][s8[s].edited]), attempt |-> s8[s].attempt]
    BY DEF CS!Request, built
  <2> HIDE DEF req
  <2> QED
    BY <1>2, <2>1, <2>2, <2>3, <2>4 DEF CS!Savings
<1>5. /\ s8' \in [CS!Sections -> CS!Savings] /\ s8'[s] = req
      /\ \A z \in CS!Sections \ {s} : s8'[z] = s8[z]
  BY <1>1, <1>2, <1>4
<1>6. \A m \in CameraNameSet : CS!Leads(m) => CS!Leads(m)'
  BY <1>1, NamesStay
<1>7. CS!OneRow'
  <2> SUFFICES ASSUME ~s11', NEW z \in CS!Sections PROVE CS!RowOf(z)'
    BY DEF CS!OneRow
  <2>1. CS!RowOf(z) /\ ~s11 /\ s3 = "idle"
    BY <1>1 DEF CS!IInv, CS!OneRow
  <2>2. CASE z # s
    BY <1>1, <1>5, <1>6, <2>1, <2>2, RowStays
  <2>3. CASE z = s
    <3>1. PICK n \in CameraNameSet : CS!Leads(n) /\ CS!Present(s7[s]) = {n} /\ s8[s].edited = n
      BY <1>1, <2>1, <2>3 DEF CS!RowOf
    <3>2. CS!Present(s7[s])' = {n} /\ CS!Leads(n)'
      BY <1>1, <1>6, <3>1 DEF CS!Present
    <3>3. /\ CS!Present(built.rows) = {s1} /\ built.pushed = {}
          /\ built.rows[s1] = CS!OwnFields(s, CS!Shown(s4[s1]), s7[s][n])
      <4>1. PICK local \in CS!Rows : local = s7[s]
        BY <1>2
      <4>2. CS!Leads(n) /\ CS!Present(local) = {n} /\ s3 = "idle"
        BY <2>1, <3>1, <4>1
      <4>3. /\ CS!Present(CS!Built(s, local, CS!Listing).rows) = {s1}
            /\ CS!Built(s, local, CS!Listing).pushed = {}
            /\ CS!Built(s, local, CS!Listing).rows[s1] = CS!OwnFields(s, CS!Shown(s4[s1]), local[n])
        BY <4>2, BuiltRow
      <4>4. built = CS!Built(s, local, CS!Listing)
        BY <4>1
      <4> HIDE DEF built
      <4> QED
        BY <4>1, <4>3, <4>4
    <3>4. s7[s][n] \in CS!Entries /\ CS!Shown(s7[s][n]) = s7[s][n]
      BY <3>1, SettingFacts, EntryFacts DEF CS!Present
    <3>5. CS!Present(s4) \subseteq {s1}
      BY <2>1 DEF CS!IInv, CS!OneEntry, CS!Before
    <3> HIDE DEF req, built
    <3>6. /\ s1 \in CameraNameSet /\ CS!Leads(s1)' /\ CS!Present(req.rows) = {s1} /\ req.pushed = {}
          /\ CS!Present(req.revision) \subseteq {s1}
          /\ req.rows[s1] = CS!OwnFields(s, CS!Shown(req.revision[s1]), req.values)
      BY <1>1, <1>3, <3>1, <3>3, <3>4, <3>5, SettingFacts DEF CS!Leads
    <3>7. /\ CS!Present(s8[s].rows)' = CS!Present(req.rows) /\ CS!Present(s8[s].revision)' = CS!Present(req.revision)
      BY <1>5 DEF CS!Present
    <3>8. s8'[s].phase # "idle" => s8'[s].edited = n
      BY <1>3, <1>5, <3>1
    <3>9. /\ CS!Leads(s1)' /\ CS!Present(s8[s].rows)' = {s1} /\ s8'[s].pushed = {}
          /\ CS!Present(s8[s].revision)' \subseteq {s1}
          /\ s8'[s].rows[s1] = CS!OwnFields(s, CS!Shown(s8'[s].revision[s1]), s8'[s].values)
      BY <1>5, <3>6, <3>7
    <3>10. PICK m \in CameraNameSet : m = s1
      BY <3>6
    <3>11. (s8[s].rows[m] = CS!OwnFields(s, CS!Shown(s8[s].revision[m]), s8[s].values))'
      BY <3>9, <3>10 DEF CS!OwnFields, CS!Shown
    <3>12. /\ CS!Leads(m)' /\ CS!Present(s8[s].rows)' = {m} /\ s8'[s].pushed = {}
           /\ CS!Present(s8[s].revision)' \subseteq {m}
      <4>1. CS!Leads(m)'
        BY <1>1, <3>10 DEF CS!Leads
      <4> QED
        BY <3>9, <3>10, <4>1
    <3> QED
      BY <2>3, <3>1, <3>2, <3>8, <3>11, <3>12 DEF CS!RowOf
  <2> QED
    BY <2>2, <2>3
<1> QED
  BY <1>1, <1>2, <1>5, <1>7, OnlyPages
(* What the server makes of a request with one row.                        *)
LEMMA CanonicalFacts ==
    ASSUME SettingBounds, CS!IInv, NEW r \in CS!Savings
    PROVE  /\ CS!Canonical(r) \in CS!Rows
           /\ \A m \in CameraNameSet :
                 s3 = "idle" /\ CS!Leads(m) /\ CS!Present(r.rows) = {m} /\ r.pushed = {} =>
                    /\ CS!Canonical(r)[s1] = r.rows[m]
                    /\ \A n \in CameraNameSet \ {s1} : CS!Canonical(r)[n] = CS!Nothing
<1> DEFINE sources(n) == {m \in CS!Present(r.rows) : CS!Resolved(m) = n}
           chosen(n) == CHOOSE m \in sources(n) : sources(n) \cap r.pushed # {} => m \in r.pushed
<1>1. CS!Canonical(r) = [n \in CameraNameSet |-> IF sources(n) = {} THEN CS!Nothing ELSE r.rows[chosen(n)]]
  BY DEF CS!Canonical
<1>2. \A n : sources(n) # {} => chosen(n) \in sources(n)
  <2> SUFFICES ASSUME NEW n, sources(n) # {} PROVE chosen(n) \in sources(n)
    OBVIOUS
  <2>1. \E m \in sources(n) : sources(n) \cap r.pushed # {} => m \in r.pushed
    OBVIOUS
  <2> HIDE DEF sources
  <2> QED
    BY <2>1
<1>3. \A n : sources(n) \subseteq CameraNameSet
  BY DEF CS!Present
<1>4. \A m \in CameraNameSet : r.rows[m] \in CS!Entries \cup {CS!Nothing}
  BY SavingFields DEF CS!Rows
<1> HIDE DEF chosen
<1>5. ASSUME NEW m \in CameraNameSet, s3 = "idle", CS!Leads(m), CS!Present(r.rows) = {m}, r.pushed = {}
      PROVE  /\ CS!Canonical(r)[s1] = r.rows[m]
             /\ \A n \in CameraNameSet \ {s1} : CS!Canonical(r)[n] = CS!Nothing
  <2>1. CS!Resolved(m) = s1 /\ s1 \in CameraNameSet
    <3>1. s6[s1] = CS!NoAlias /\ s1 \in CameraNameSet /\ CS!NoAlias # s1
      BY <1>5, SettingFacts DEF CS!Before, CS!NoAlias, SettingBounds
    <3>2. CS!Effective[s1] = CS!NoAlias
      BY <3>1 DEF CS!Effective
    <3>3. CASE m = s1
      BY <3>2, <3>3 DEF CS!Resolved
    <3>4. CASE m # s1
      <4>1. s6[m] = s1
        BY <1>5, <3>4 DEF CS!Leads, CS!Before
      <4>2. CS!Effective[m] = s1
        BY <3>4, <4>1 DEF CS!Effective
      <4> QED
        BY <3>1, <3>2, <4>2 DEF CS!Resolved
    <3> QED
      BY <3>1, <3>3, <3>4
  <2>2. sources(s1) = {m} /\ \A n \in CameraNameSet \ {s1} : sources(n) = {}
    BY <1>5, <2>1
  <2> HIDE DEF sources
  <2>3. chosen(s1) = m
    BY <1>2, <2>2
  <2> QED
    BY <1>1, <2>1, <2>2, <2>3
<1> HIDE DEF sources
<1>6. CS!Canonical(r) \in CS!Rows
  BY <1>1, <1>2, <1>3, <1>4 DEF CS!Rows
<1> QED
  BY <1>5, <1>6

(* The file has a new entry for the camera and no other, between           *)
(* renamings.                                                              *)
LEMMA EntryStored ==
    ASSUME SettingBounds, CS!IInv, s3' = "idle", s1' = s1, s4'[s1] \in CS!Entries, s9' = s4'[s1],
           \A n \in CameraNameSet \ {s1} : s4'[n] = CS!Nothing
    PROVE  CS!OneEntry'
<1>1. CS!Present(s4)' \subseteq {s1} /\ s1 \in CameraNameSet
  BY SettingFacts DEF CS!Present
<1>2. CS!Shown(s4'[s1']) = s9'
  BY EntryFacts
<1>3. CS!Shown(s4[s1])' = CS!Shown(s4'[s1'])
  BY DEF CS!Shown
<1> QED
  BY <1>1, <1>2, <1>3 DEF CS!OneEntry

LEMMA PutStep ==
    ASSUME SettingBounds, CS!IInv, NEW s \in CS!Sections, NEW ok \in BOOLEAN, CS!Put(s, ok) PROVE CS!IInv'
<1> DEFINE r == s8[s]
           rows == CS!Canonical(r)
<1>1. /\ r.phase = "sent" /\ r.revision = s4
      /\ s5' = CS!InUse(rows) /\ s4' = (IF ok THEN rows ELSE s4) /\ s10' = ~ok
      /\ s8' = [s8 EXCEPT ![s] = CS!Quiet]
      /\ s7' = IF ok THEN [s7 EXCEPT ![s] = r.rows] ELSE s7
      /\ s9' = IF ok THEN CS!OwnFields(s, s9, r.values) ELSE s9
      /\ s11' = (s11 \/ (ok /\ s3 # "idle"))
      /\ UNCHANGED <<s1, s2, s3, s6>>
  BY DEF CS!Put, CS!UpToDate, CS!Stored, CS!nameVars
<1>2. /\ s7 \in [CS!Sections -> CS!Rows] /\ s8 \in [CS!Sections -> CS!Savings] /\ s4 \in CS!Rows
      /\ s9 \in CS!Entries /\ s1 \in CameraNameSet /\ r \in CS!Savings
  BY SettingFacts
<1>3. rows \in CS!Rows /\ r.rows \in CS!Rows /\ r.values \in CS!Entries
  BY <1>2, CanonicalFacts, SavingFields
<1>4. ASSUME ~s11, s3 = "idle"
      PROVE  \E m \in CameraNameSet :
               /\ CS!Leads(m) /\ CS!Present(r.rows) = {m} /\ r.pushed = {}
               /\ r.rows[m] = CS!OwnFields(s, s9, r.values)
               /\ rows[s1] = r.rows[m] /\ \A n \in CameraNameSet \ {s1} : rows[n] = CS!Nothing
  <2>1. PICK m \in CameraNameSet :
            /\ CS!Leads(m) /\ CS!Present(r.rows) = {m} /\ r.pushed = {}
            /\ CS!Present(r.revision) \subseteq {m}
            /\ r.rows[m] = CS!OwnFields(s, CS!Shown(r.revision[m]), r.values)
    BY <1>1, <1>4 DEF CS!IInv, CS!OneRow, CS!RowOf
  <2>2. CS!Present(s4) \subseteq {s1} /\ CS!Shown(s4[s1]) = s9
    BY <1>4 DEF CS!IInv, CS!OneEntry, CS!Before
  <2>3. CS!Shown(s4[m]) = s9
    <3>1. m # s1 => s4[m] = CS!Nothing /\ s4[s1] = CS!Nothing
      BY <1>1, <1>2, <2>1, <2>2 DEF CS!Present
    <3> QED
      BY <2>2, <3>1
  <2>4. rows[s1] = r.rows[m] /\ \A n \in CameraNameSet \ {s1} : rows[n] = CS!Nothing
    BY <1>2, <1>4, <2>1, CanonicalFacts
  <2> QED
    BY <1>1, <2>1, <2>3, <2>4
<1> HIDE DEF r, rows
<1>5. /\ s8' \in [CS!Sections -> CS!Savings] /\ s8'[s] = CS!Quiet
      /\ \A z \in CS!Sections \ {s} : s8'[z] = s8[z]
  BY <1>1, <1>2, QuietFacts
<1>6. /\ s7' \in [CS!Sections -> CS!Rows] /\ \A z \in CS!Sections \ {s} : s7'[z] = s7[z]
      /\ s7'[s] = IF ok THEN r.rows ELSE s7[s]
  BY <1>1, <1>2, <1>3
<1>7. CS!SettingsTypeOK'
  <2>1. s5' \in [CameraNameSet -> CS!Entries] /\ s4' \in CS!Rows /\ s9' \in CS!Entries
    BY <1>1, <1>2, <1>3, LoadedFacts, OwnFieldsFacts
  <2> QED
    BY <1>1, <1>5, <1>6, <2>1, SavingFields DEF CS!IInv, CS!SettingsTypeOK
<1>8. CS!SettingsShape'
  BY <1>1, <1>5 DEF CS!IInv, CS!SettingsShape
<1>9. /\ CS!NamesLead' /\ CS!Before' = CS!Before
      /\ \A n \in CameraNameSet : CS!Leads(n) => CS!Leads(n)'
  BY <1>1, NamesStay
<1>10. CS!OneEntry'
  <2>1. ASSUME ~s11', ok PROVE CS!OneEntry'
    <3>1. PICK m \in CameraNameSet :
            /\ CS!Leads(m) /\ CS!Present(r.rows) = {m}
            /\ r.rows[m] = CS!OwnFields(s, s9, r.values)
            /\ rows[s1] = r.rows[m] /\ \A n \in CameraNameSet \ {s1} : rows[n] = CS!Nothing
      BY <1>1, <1>4, <2>1
    <3>2. CS!OwnFields(s, s9, r.values) \in CS!Entries
      BY <1>2, <1>3, OwnFieldsFacts
    <3> QED
      BY <1>1, <2>1, <3>1, <3>2, EntryStored
  <2>2. ASSUME ~s11', ~ok PROVE CS!OneEntry'
    <3>1. UNCHANGED <<s1, s2, s3, s4, s9>> /\ ~s11
      BY <1>1, <2>2
    <3>2. CS!Migrated' = CS!Migrated /\ CS!Present(s4)' = CS!Present(s4)
      BY <3>1 DEF CS!Migrated, CS!Present, CS!Merged
    <3> QED
      BY <1>9, <3>1, <3>2 DEF CS!IInv, CS!OneEntry
  <2> QED
    BY <2>1, <2>2 DEF CS!OneEntry
<1>11. CS!OneRow'
  <2> SUFFICES ASSUME ~s11', NEW z \in CS!Sections PROVE CS!RowOf(z)'
    BY DEF CS!OneRow
  <2>1. CS!RowOf(z) /\ ~s11
    BY <1>1 DEF CS!IInv, CS!OneRow
  <2>2. CASE z # s
    BY <1>5, <1>6, <1>9, <2>1, <2>2, RowStays
  <2>3. CASE z = s
    <3>1. \E m \in CameraNameSet : CS!Leads(m)' /\ CS!Present(s7'[s]) = {m}
      <4>1. CASE ok
        BY <1>1, <1>4, <1>6, <1>9, <2>1, <4>1
      <4>2. CASE ~ok
        BY <1>6, <1>9, <2>1, <2>3, <4>2 DEF CS!RowOf
      <4> QED
        BY <4>1, <4>2
    <3>2. s8'[s].phase = "idle"
      BY <1>5, QuietFacts
    <3> QED
      BY <2>3, <3>1, <3>2 DEF CS!RowOf, CS!Present
  <2> QED
    BY <2>2, <2>3
<1>12. CS!LiveFollows'
  <2>1. ok => s5' = CS!InUse(s4)'
    BY <1>1 DEF CS!InUse, CS!Shown
  <2> QED
    BY <1>1, <2>1 DEF CS!LiveFollows
<1> QED
  BY <1>7, <1>8, <1>9, <1>10, <1>11, <1>12 DEF CS!IInv

LEMMA PutZoneStep ==
    ASSUME SettingBounds, CS!IInv, NEW n \in CameraNameSet, NEW zone \in {0, 1}, NEW ok \in BOOLEAN,
           CS!PutZone(n, zone, ok)
    PROVE  CS!IInv'
<1> DEFINE entry == CS!ZoneEntry(n, zone)
           rows == [s4 EXCEPT ![n] = entry]
           row == [s7["vehicles"][n] EXCEPT !.zone = zone, !.car = TRUE]
           want == [s9 EXCEPT !.zone = zone, !.car = @ \/ zone = 1]
<1>1. /\ s7["vehicles"][n] # CS!Nothing
      /\ s5' = CS!InUse(rows) /\ s4' = (IF ok THEN rows ELSE s4) /\ s10' = ~ok
      /\ s7' = IF ok THEN [s7 EXCEPT !["vehicles"][n] = row] ELSE s7
      /\ s9' = IF ok THEN want ELSE s9
      /\ s11' = (s11 \/ (ok /\ (s3 # "idle" \/ n # s1)))
      /\ UNCHANGED <<s1, s2, s3, s6, s8>>
  BY DEF CS!PutZone, CS!nameVars
<1>2. /\ s7 \in [CS!Sections -> CS!Rows] /\ s8 \in [CS!Sections -> CS!Savings] /\ s4 \in CS!Rows
      /\ s9 \in CS!Entries /\ s1 \in CameraNameSet /\ s7["vehicles"][n] \in CS!Entries /\ s4[n] \in CS!Entries \cup {CS!Nothing}
  BY <1>1, SettingFacts DEF CS!Sections
<1>3. entry \in CS!Entries /\ row \in CS!Entries /\ want \in CS!Entries
  <2>1. CS!Shown(s4[n]) \in CS!Entries
    BY <1>2, EntryFacts
  <2>2. \A e \in CS!Entries : /\ [e EXCEPT !.zone = zone, !.car = @ \/ zone = 1] \in CS!Entries
                              /\ [e EXCEPT !.zone = zone, !.car = TRUE] \in CS!Entries
    BY DEF CS!Entries
  <2> QED
    BY <1>2, <2>1, <2>2 DEF CS!ZoneEntry
<1>4. CS!Shown(s4[n]) = s9 => entry = want
  BY DEF CS!ZoneEntry
<1> HIDE DEF entry, row, want
<1>5. rows \in CS!Rows /\ rows[n] = entry /\ \A m \in CameraNameSet \ {n} : rows[m] = s4[m]
  BY <1>2, <1>3 DEF CS!Rows
<1> HIDE DEF rows
<1>6. /\ s7' \in [CS!Sections -> CS!Rows]
      /\ \A z \in CS!Sections : CS!Present(s7'[z]) = CS!Present(s7[z])
  <2>1. CASE ok
    <3>1. s7' = [s7 EXCEPT !["vehicles"] = [s7["vehicles"] EXCEPT ![n] = row]] /\ s7["vehicles"] \in CS!Rows
      BY <1>1, <1>2, <2>1 DEF CS!Sections
    <3>2. [s7["vehicles"] EXCEPT ![n] = row] \in CS!Rows
      BY <1>3, <3>1 DEF CS!Rows
    <3>3. CS!Present([s7["vehicles"] EXCEPT ![n] = row]) = CS!Present(s7["vehicles"])
      BY <1>1, <1>3, <3>1, EntryFacts DEF CS!Present, CS!Rows
    <3> QED
      BY <1>2, <3>1, <3>2, <3>3
  <2>2. CASE ~ok
    BY <1>1, <1>2, <2>2
  <2> QED
    BY <2>1, <2>2
<1>7. CS!SettingsTypeOK'
  <2>1. s5' \in [CameraNameSet -> CS!Entries] /\ s4' \in CS!Rows /\ s9' \in CS!Entries
    BY <1>1, <1>2, <1>3, <1>5, LoadedFacts
  <2> QED
    BY <1>1, <1>6, <2>1 DEF CS!IInv, CS!SettingsTypeOK
<1>8. CS!SettingsShape'
  BY <1>1 DEF CS!IInv, CS!SettingsShape
<1>9. /\ CS!NamesLead' /\ CS!Before' = CS!Before
      /\ \A m \in CameraNameSet : CS!Leads(m) => CS!Leads(m)'
  BY <1>1, NamesStay
<1>10. CS!OneEntry'
  <2>1. ASSUME ~s11', ok PROVE CS!OneEntry'
    <3>1. s3 = "idle" /\ n = s1 /\ ~s11
      BY <1>1, <2>1
    <3>2. CS!Present(s4) \subseteq {s1} /\ CS!Shown(s4[s1]) = s9
      BY <3>1 DEF CS!IInv, CS!OneEntry, CS!Before
    <3>3. \A m \in CameraNameSet \ {s1} : s4'[m] = CS!Nothing
      BY <1>1, <1>5, <2>1, <3>1, <3>2 DEF CS!Present
    <3>4. s4'[s1] \in CS!Entries /\ s9' = s4'[s1]
      BY <1>1, <1>3, <1>4, <1>5, <2>1, <3>1, <3>2
    <3> QED
      BY <1>1, <3>1, <3>3, <3>4, EntryStored
  <2>2. ASSUME ~s11', ~ok PROVE CS!OneEntry'
    <3>1. UNCHANGED <<s1, s2, s3, s4, s9>> /\ ~s11
      BY <1>1, <2>2
    <3>2. CS!Migrated' = CS!Migrated /\ CS!Present(s4)' = CS!Present(s4)
      BY <3>1 DEF CS!Migrated, CS!Present, CS!Merged
    <3> QED
      BY <1>9, <3>1, <3>2 DEF CS!IInv, CS!OneEntry
  <2> QED
    BY <2>1, <2>2 DEF CS!OneEntry
<1>11. CS!OneRow'
  <2> SUFFICES ASSUME ~s11', NEW z \in CS!Sections PROVE CS!RowOf(z)'
    BY DEF CS!OneRow
  <2>1. CS!RowOf(z) /\ ~s11
    BY <1>1 DEF CS!IInv, CS!OneRow
  <2>2. CS!Present(s7[z])' = CS!Present(s7[z])
    BY <1>6 DEF CS!Present
  <2>3. /\ CS!Present(s8[z].rows)' = CS!Present(s8[z].rows) /\ CS!Present(s8[z].revision)' = CS!Present(s8[z].revision)
    BY <1>1 DEF CS!Present
  <2> QED
    BY <1>1, <1>9, <2>1, <2>2, <2>3 DEF CS!RowOf
<1>12. CS!LiveFollows'
  <2>1. ok => s5' = CS!InUse(s4)'
    BY <1>1 DEF CS!InUse, CS!Shown
  <2> QED
    BY <1>1, <2>1 DEF CS!LiveFollows
<1> QED
  BY <1>7, <1>8, <1>9, <1>10, <1>11, <1>12 DEF CS!IInv

LEMMA RenameStep ==
    ASSUME SettingBounds, CS!IInv, NEW n \in CameraNameSet, CS!Rename(n)
    PROVE  CS!IInv'
<1>1. /\ s3 = "idle" /\ n # s1 /\ s1' = n /\ s2' = s1 /\ s3' = "listed"
      /\ UNCHANGED <<s4, s5, s6, s7, s8, s9, s10, s11>>
  BY DEF CS!Rename
<1>2. /\ s1 \in CameraNameSet /\ s4 \in CS!Rows /\ \A m \in CameraNameSet : s4[m] \in CS!Entries \cup {CS!Nothing}
  BY SettingFacts
<1>3. CS!Before = s1 /\ CS!Before' = s1
  BY <1>1 DEF CS!Before
<1>4. CS!SettingsTypeOK'
  BY <1>1 DEF CS!IInv, CS!SettingsTypeOK
<1>5. CS!SettingsShape'
  BY <1>1, <1>2 DEF CS!IInv, CS!SettingsShape
<1>6. CS!NamesLead'
  BY <1>1, <1>3 DEF CS!IInv, CS!NamesLead, CS!OptionFor, CS!NoAlias
<1>7. \A m \in CameraNameSet : CS!Leads(m) => CS!Leads(m)'
  BY <1>1, <1>3 DEF CS!Leads
<1>8. CS!OneEntry'
  <2> SUFFICES ASSUME ~s11' PROVE CS!OneEntry'
    BY DEF CS!OneEntry
  <2>1. CS!Present(s4) \subseteq {s1} /\ CS!Shown(s4[s1]) = s9
    BY <1>1 DEF CS!IInv, CS!OneEntry, CS!Before
  <2>2. CS!Present(s4)' = CS!Present(s4)
    BY <1>1 DEF CS!Present
  <2>3. s4[n] = CS!Nothing
    BY <1>1, <2>1 DEF CS!Present
  <2>4. CS!Migrated'[n] = s4[s1]
    <3>1. CASE s4[s1] = CS!Nothing
      BY <1>1, <2>3, <3>1 DEF CS!Migrated
    <3>2. CASE s4[s1] # CS!Nothing
      <4>1. CS!Migrated' = [s4 EXCEPT ![s1] = CS!Nothing, ![n] = s4[s1]]
        BY <1>1, <2>3, <3>2 DEF CS!Migrated
      <4> QED
        BY <1>1, <1>2, <4>1 DEF CS!Rows
    <3> QED
      BY <3>1, <3>2
  <2>5. CS!Shown(CS!Migrated[s1])' = s9'
    BY <1>1, <2>1, <2>4 DEF CS!Shown
  <2> QED
    BY <1>1, <1>3, <2>1, <2>2, <2>5 DEF CS!OneEntry
<1>9. CS!OneRow'
  <2> SUFFICES ASSUME ~s11', NEW z \in CS!Sections PROVE CS!RowOf(z)'
    BY DEF CS!OneRow
  <2>1. CS!RowOf(z)
    BY <1>1 DEF CS!IInv, CS!OneRow
  <2> QED
    BY <1>1, <1>7, <2>1, RowStays
<1>10. CS!LiveFollows'
  <2> SUFFICES ASSUME ~s10 PROVE CS!LiveFollows'
    BY <1>1 DEF CS!LiveFollows
  <2>1. s5 \in {CS!InUse(s4), CS!Loaded(s4, s1)}
    BY <1>1 DEF CS!IInv, CS!LiveFollows
  <2>2. CS!InUse(s4)' = CS!InUse(s4)
    BY <1>1 DEF CS!InUse, CS!Shown
  <2>3. CS!Loaded(s4, s2)' = CS!Loaded(s4, s1)
    BY <1>1 DEF CS!Loaded, CS!Shown
  <2> QED
    BY <1>1, <2>1, <2>2, <2>3 DEF CS!LiveFollows
<1> QED
  BY <1>4, <1>5, <1>6, <1>8, <1>9, <1>10 DEF CS!IInv

LEMMA AllDefault ==
    \A e \in CS!Entries : e.text = 0 /\ e.car = FALSE /\ e.zone = 0 /\ e.auto = TRUE => e = CS!Default
<1> SUFFICES ASSUME NEW e \in CS!Entries, e.text = 0, e.car = FALSE, e.zone = 0, e.auto = TRUE PROVE e = CS!Default
  OBVIOUS
<1>1. e = [text |-> e.text, car |-> e.car, zone |-> e.zone, auto |-> e.auto]
  BY EntryIsItsFields
<1> QED
  BY <1>1 DEF CS!Default

(* With no entry under the name that is gone, to merge the analyzer's two  *)
(* copies gives what a start under the new name would have given.          *)
LEMMA MoveLiveStep == ASSUME SettingBounds, CS!IInv, CS!MoveLive PROVE CS!IInv'
<1> DEFINE kept == [CS!Merged(s5[s1], s5[s2]) EXCEPT !.auto = s5[s1].auto]
           left == [CS!Default EXCEPT !.auto = s5[s2].auto]
<1>1. /\ s3 = "listed" /\ s3' = "moved" /\ s5' = [s5 EXCEPT ![s1] = kept, ![s2] = left]
      /\ UNCHANGED <<s1, s2, s4, s6, s7, s8, s9, s10, s11>>
  BY DEF CS!MoveLive
<1>2. /\ s1 \in CameraNameSet /\ s2 \in CameraNameSet /\ s1 # s2 /\ s4 \in CS!Rows
      /\ s5 \in [CameraNameSet -> CS!Entries] /\ s5[s1] \in CS!Entries /\ s5[s2] \in CS!Entries
  BY <1>1, SettingFacts
<1>3. /\ kept \in CS!Entries /\ kept.auto = s5[s1].auto
      /\ kept.text = IF s5[s1].text = 0 THEN s5[s2].text ELSE s5[s1].text
      /\ kept.zone = IF s5[s1].zone = 0 THEN s5[s2].zone ELSE s5[s1].zone
      /\ kept.car = (s5[s1].car \/ s5[s2].car)
  <2>1. PICK m \in CS!Entries : m = CS!Merged(s5[s1], s5[s2])
    BY <1>2, MergedFacts
  <2>2. s5[s1].auto \in BOOLEAN
    BY <1>2, EntryIsItsFields
  <2>3. /\ [m EXCEPT !.auto = s5[s1].auto] \in CS!Entries
        /\ [m EXCEPT !.auto = s5[s1].auto].auto = s5[s1].auto
        /\ [m EXCEPT !.auto = s5[s1].auto].text = m.text
        /\ [m EXCEPT !.auto = s5[s1].auto].zone = m.zone
        /\ [m EXCEPT !.auto = s5[s1].auto].car = m.car
    BY <2>2 DEF CS!Entries
  <2> HIDE DEF kept
  <2>4. kept = [m EXCEPT !.auto = s5[s1].auto]
    BY <2>1 DEF kept
  <2>5. /\ m.text = IF s5[s1].text = 0 THEN s5[s2].text ELSE s5[s1].text
        /\ m.zone = IF s5[s1].zone = 0 THEN s5[s2].zone ELSE s5[s1].zone
        /\ m.car = (s5[s1].car \/ s5[s2].car)
    BY <1>2, <2>1, MergedFacts
  <2> QED
    BY <2>3, <2>4, <2>5
<1>4. /\ left \in CS!Entries /\ left.auto = s5[s2].auto /\ left.text = 0 /\ left.zone = 0 /\ left.car = FALSE
  <2>1. s5[s2].auto \in BOOLEAN
    BY <1>2, EntryIsItsFields
  <2> QED
    BY <2>1 DEF CS!Entries, CS!Default
<1> HIDE DEF kept, left
<1>5. /\ s5' \in [CameraNameSet -> CS!Entries] /\ s5'[s1] = kept /\ s5'[s2] = left
      /\ \A n \in CameraNameSet \ {s1, s2} : s5'[n] = s5[n]
  BY <1>1, <1>2, <1>3, <1>4
<1>6. CS!SettingsTypeOK'
  BY <1>1, <1>5 DEF CS!IInv, CS!SettingsTypeOK
<1>7. CS!SettingsShape'
  BY <1>1, <1>2 DEF CS!IInv, CS!SettingsShape
<1>8. CS!Before' = CS!Before
  BY <1>1 DEF CS!Before
<1>9. CS!NamesLead'
  BY <1>1, <1>8 DEF CS!IInv, CS!NamesLead, CS!OptionFor, CS!NoAlias
<1>10. CS!OneEntry'
  <2>1. CS!Migrated' = CS!Migrated /\ CS!Present(s4)' = CS!Present(s4)
    BY <1>1 DEF CS!Migrated, CS!Present, CS!Merged
  <2>2. CS!Shown(CS!Migrated[s1])' = CS!Shown(CS!Migrated[s1])
    BY <1>1, <2>1 DEF CS!Shown
  <2> QED
    BY <1>1, <1>8, <2>1, <2>2 DEF CS!IInv, CS!OneEntry
<1>11. CS!OneRow'
  <2> SUFFICES ASSUME ~s11', NEW z \in CS!Sections PROVE CS!RowOf(z)'
    BY DEF CS!OneRow
  <2>1. CS!RowOf(z)
    BY <1>1 DEF CS!IInv, CS!OneRow
  <2>2. \A n \in CameraNameSet : CS!Leads(n) => CS!Leads(n)'
    BY <1>1, <1>8 DEF CS!Leads
  <2> QED
    BY <1>1, <2>1, <2>2, RowStays
<1>12. CS!LiveFollows'
  <2> SUFFICES ASSUME ~s10, s4[s2] = CS!Nothing PROVE s5' \in {CS!InUse(s4), CS!Loaded(s4, s1)}
    <3>1. CS!InUse(s4)' = CS!InUse(s4)
      BY <1>1 DEF CS!InUse, CS!Shown
    <3>2. CS!Loaded(s4, s1)' = CS!Loaded(s4, s1)
      BY <1>1 DEF CS!Loaded, CS!Shown
    <3> QED
      BY <1>1, <3>1, <3>2 DEF CS!LiveFollows
  <2>1. CS!Shown(s4[s2]) = CS!Default
    BY EntryFacts
  <2>2. CASE s5 \in {CS!InUse(s4), CS!Loaded(s4, s1)}
    <3>1. s5[s2] = CS!Default
      BY <1>2, <2>1, <2>2, LoadedFacts
    <3>2. kept = s5[s1]
      <4>1. s5[s1].text \in {0, 1} /\ s5[s1].zone \in {0, 1} /\ s5[s1].car \in BOOLEAN
        BY <1>2, EntryIsItsFields
      <4>2. kept.text = s5[s1].text /\ kept.zone = s5[s1].zone /\ kept.car = s5[s1].car
        BY <1>3, <3>1, <4>1, EntryFacts
      <4> QED
        BY <1>2, <1>3, <4>2, MergedFacts
    <3>3. left = s5[s2]
      BY <1>4, <3>1, EntryFacts, AllDefault
    <3> QED
      BY <1>1, <1>2, <2>2, <3>2, <3>3
  <2>3. CASE s5 = CS!Loaded(s4, s2)
    <3> DEFINE e == CS!Loaded(s4, s1)
               none == \A m \in CameraNameSet : ~CS!Shown(s4[m]).car
    <3>1. e \in [CameraNameSet -> CS!Entries]
      BY <1>2, LoadedFacts
    <3>2. /\ s5[s2].text = OptionText /\ s5[s2].zone = 0 /\ s5[s2].auto = TRUE
          /\ s5[s2].car = (OptionCar /\ none)
      <4>1. CS!Default.text = 0 /\ CS!Default.car = FALSE /\ CS!Default.zone = 0 /\ CS!Default.auto = TRUE
        BY EntryFacts
      <4>2. /\ s5[s2].text = (IF CS!Shown(s4[s2]).text = 0 THEN OptionText ELSE CS!Shown(s4[s2]).text)
            /\ s5[s2].zone = CS!Shown(s4[s2]).zone /\ s5[s2].auto = CS!Shown(s4[s2]).auto
            /\ s5[s2].car = (CS!Shown(s4[s2]).car \/ (OptionCar /\ none))
        BY <1>2, <2>3, LoadedFacts
      <4> HIDE DEF none
      <4> QED
        BY <2>1, <4>1, <4>2
    <3>3. s5[s1] = CS!Shown(s4[s1])
      BY <1>2, <2>3, LoadedFacts
    <3>4. /\ e[s1].text = (IF s5[s1].text = 0 THEN OptionText ELSE s5[s1].text)
          /\ e[s1].zone = s5[s1].zone /\ e[s1].auto = s5[s1].auto
          /\ e[s1].car = (s5[s1].car \/ (OptionCar /\ none))
      BY <1>2, <3>3, LoadedFacts
    <3>5. \A n \in CameraNameSet \ {s1} : e[n] = CS!Shown(s4[n])
      BY <1>2, LoadedFacts
    <3>6. \A n \in CameraNameSet \ {s2} : s5[n] = CS!Shown(s4[n])
      BY <1>2, <2>3, LoadedFacts
    <3> HIDE DEF e, none
    <3>7. e[s1] = kept
      <4>1. e[s1] \in CS!Entries
        BY <1>2, <3>1
      <4>2. s5[s1].zone \in {0, 1}
        BY <1>2, EntryIsItsFields
      <4>3. e[s1].text = kept.text /\ e[s1].zone = kept.zone /\ e[s1].car = kept.car /\ e[s1].auto = kept.auto
        BY <1>3, <3>2, <3>4, <4>2
      <4> QED
        BY <1>3, <4>1, <4>3, MergedFacts
    <3>8. e[s2] = left
      <4>1. e[s2] = CS!Default
        BY <1>2, <2>1, <3>5
      <4> QED
        BY <1>4, <3>2, <4>1, AllDefault
    <3>9. s5' = e
      BY <1>2, <1>5, <3>1, <3>5, <3>6, <3>7, <3>8
    <3> QED
      BY <3>9 DEF e
  <2> QED
    BY <1>1, <2>2, <2>3 DEF CS!IInv, CS!LiveFollows
<1> QED
  BY <1>6, <1>7, <1>9, <1>10, <1>11, <1>12 DEF CS!IInv

(* The entry of the name that is gone is moved, or merged into the one     *)
(* there is.                                                               *)
LEMMA MigratedFacts ==
    ASSUME SettingBounds, CS!IInv, s1 # s2
    PROVE  /\ CS!Migrated \in CS!Rows /\ CS!Migrated[s2] = CS!Nothing
           /\ s4[s2] = CS!Nothing => CS!Migrated = s4
           /\ s4[s2] # CS!Nothing => CS!Migrated[s1] = IF s4[s1] = CS!Nothing THEN s4[s2] ELSE CS!Merged(s4[s1], s4[s2])
           /\ \A n \in CameraNameSet \ {s1, s2} : CS!Migrated[n] = s4[n]
<1>1. /\ s4 \in CS!Rows /\ s1 \in CameraNameSet /\ s2 \in CameraNameSet
      /\ s4[s1] \in CS!Entries \cup {CS!Nothing} /\ s4[s2] \in CS!Entries \cup {CS!Nothing}
  BY SettingFacts
<1>2. CASE s4[s2] = CS!Nothing
  BY <1>1, <1>2 DEF CS!Migrated
<1>3. CASE s4[s2] # CS!Nothing
  <2> DEFINE new == IF s4[s1] = CS!Nothing THEN s4[s2] ELSE CS!Merged(s4[s1], s4[s2])
  <2>1. new \in CS!Entries
    BY <1>1, <1>3, MergedFacts
  <2>2. CS!Migrated = [s4 EXCEPT ![s2] = CS!Nothing, ![s1] = new]
    BY <1>3 DEF CS!Migrated
  <2> HIDE DEF new
  <2>3. CS!Migrated \in CS!Rows /\ CS!Migrated[s2] = CS!Nothing /\ CS!Migrated[s1] = new
        /\ \A n \in CameraNameSet \ {s1, s2} : CS!Migrated[n] = s4[n]
    BY <1>1, <2>1, <2>2 DEF CS!Rows
  <2> QED
    BY <1>3, <2>3 DEF new
<1> QED
  BY <1>2, <1>3

(* With the file the analyzer follows, whichever of the two there was to   *)
(* move.                                                                   *)
LEMMA MigratedLive ==
    ASSUME SettingBounds, CS!IInv, s3 = "moved", CS!LiveMigrated
    PROVE  /\ s5' \in [CameraNameSet -> CS!Entries]
           /\ s4[s2] # CS!Nothing => s5' = CS!InUse(CS!Migrated)
           /\ s4[s2] = CS!Nothing /\ ~s10 => s5' \in {CS!InUse(CS!Migrated), CS!Loaded(CS!Migrated, s1)}
<1>1. /\ s1 \in CameraNameSet /\ s2 \in CameraNameSet /\ s1 # s2 /\ s4 \in CS!Rows
      /\ s5 \in [CameraNameSet -> CS!Entries] /\ s5[s1] \in CS!Entries /\ s5[s2] \in CS!Entries
  BY SettingFacts
<1>2. CASE s4[s2] # CS!Nothing
  <2>1. s5' = CS!InUse(CS!Migrated) /\ CS!Migrated \in CS!Rows
    BY <1>1, <1>2, MigratedFacts DEF CS!LiveMigrated
  <2> QED
    BY <1>2, <2>1, LoadedFacts
<1>3. CASE s4[s2] = CS!Nothing
  <2> DEFINE kept == [s5[s1] EXCEPT !.auto = @ /\ s5[s2].auto]
             left == [s5[s2] EXCEPT !.auto = TRUE]
  <2>1. s5' = [s5 EXCEPT ![s1] = kept, ![s2] = left]
    <3>1. s5' = [s5 EXCEPT ![s1].auto = @ /\ s5[s2].auto, ![s2].auto = TRUE]
      BY <1>3 DEF CS!LiveMigrated
    <3> QED
      BY <1>1, <3>1
  <2>2. /\ kept \in CS!Entries /\ left \in CS!Entries
        /\ kept.text = s5[s1].text /\ kept.zone = s5[s1].zone /\ kept.car = s5[s1].car
        /\ kept.auto = (s5[s1].auto /\ s5[s2].auto)
        /\ left.text = s5[s2].text /\ left.zone = s5[s2].zone /\ left.car = s5[s2].car /\ left.auto = TRUE
    <3>1. \A e \in CS!Entries, b \in BOOLEAN :
             LET f == [e EXCEPT !.auto = b] IN
             f \in CS!Entries /\ f.text = e.text /\ f.zone = e.zone /\ f.car = e.car /\ f.auto = b
      BY DEF CS!Entries
    <3>2. s5[s1].auto \in BOOLEAN /\ s5[s2].auto \in BOOLEAN
      BY <1>1, EntryIsItsFields
    <3>3. PICK b \in BOOLEAN : b = (s5[s1].auto /\ s5[s2].auto)
      OBVIOUS
    <3>4. kept = [s5[s1] EXCEPT !.auto = b]
      BY <3>3
    <3> HIDE DEF kept
    <3>5. kept \in CS!Entries /\ kept.text = s5[s1].text /\ kept.zone = s5[s1].zone /\ kept.car = s5[s1].car
          /\ kept.auto = b
      BY <1>1, <3>1, <3>4
    <3>6. /\ left \in CS!Entries
          /\ left.text = s5[s2].text /\ left.zone = s5[s2].zone /\ left.car = s5[s2].car /\ left.auto = TRUE
      BY <1>1, <3>1
    <3> QED
      BY <3>3, <3>5, <3>6
  <2> HIDE DEF kept, left
  <2>3. s5' \in [CameraNameSet -> CS!Entries]
    BY <1>1, <2>1, <2>2
  <2>4. ASSUME ~s10 PROVE s5' \in {CS!InUse(CS!Migrated), CS!Loaded(CS!Migrated, s1)}
    <3>1. s5 \in {CS!InUse(s4), CS!Loaded(s4, s1)}
      BY <1>3, <2>4 DEF CS!IInv, CS!LiveFollows
    <3>2. s5[s2] = CS!Default
      <4>1. CS!Shown(s4[s2]) = CS!Default
        BY <1>3, EntryFacts
      <4> QED
        BY <1>1, <3>1, <4>1, LoadedFacts
    <3>3. left = s5[s2]
      BY <2>2, <3>2, EntryFacts, AllDefault
    <3>4. kept = s5[s1]
      <4>1. s5[s1].auto \in BOOLEAN /\ s5[s2].auto = TRUE
        BY <1>1, <3>2, EntryFacts, EntryIsItsFields
      <4>2. kept.auto = s5[s1].auto
        BY <2>2, <4>1
      <4> QED
        BY <1>1, <2>2, <4>2, MergedFacts
    <3>5. s5' = s5
      BY <1>1, <2>1, <3>3, <3>4
    <3> QED
      BY <1>1, <1>3, <3>1, <3>5, MigratedFacts
  <2> QED
    BY <1>3, <2>3, <2>4
<1> QED
  BY <1>2, <1>3

(* Of the two names it had, the camera's entry is now under the one.       *)
LEMMA MigratedEntry ==
    ASSUME SettingBounds, CS!IInv, s3 = "moved", ~s11
    PROVE  CS!Present(CS!Migrated) \subseteq {s1} /\ CS!Shown(CS!Migrated[s1]) = s9
<1>1. CS!Present(s4) \subseteq {s1, s2} /\ CS!Shown(CS!Migrated[s1]) = s9 /\ s1 # s2
  BY SettingFacts DEF CS!IInv, CS!OneEntry, CS!Before
<1>2. \A n \in CameraNameSet \ {s1} : CS!Migrated[n] = CS!Nothing
  BY <1>1, MigratedFacts DEF CS!Present
<1> QED
  BY <1>1, <1>2 DEF CS!Present

LEMMA MigrateStep == ASSUME SettingBounds, CS!IInv, CS!Migrate PROVE CS!IInv'
<1>1. /\ s3 = "moved" /\ s3' = "idle" /\ s4' = CS!Migrated
      /\ s10' = (s10 /\ s4[s2] = CS!Nothing)
      /\ s6' = [n \in CameraNameSet |-> IF n = s2 THEN s1 ELSE IF n = s1 THEN CS!NoAlias
                                        ELSE IF s6[n] = s2 THEN s1 ELSE s6[n]]
      /\ UNCHANGED <<s1, s2, s7, s8, s9, s11>>
  BY DEF CS!Migrate
<1>2. CS!LiveMigrated
  BY DEF CS!Migrate
<1>3. /\ s1 \in CameraNameSet /\ s2 \in CameraNameSet /\ s1 # s2 /\ CS!Before = s2 /\ CS!Before' = s1
      /\ s6 \in [CameraNameSet -> CameraNameSet \cup {CS!NoAlias}] /\ \A n \in CameraNameSet : s6[n] # n
      /\ CS!NoAlias \notin CameraNameSet /\ FirstCameraName \in CameraNameSet
  BY <1>1, SettingFacts DEF CS!Before, CS!NoAlias, SettingBounds
<1>4. /\ s6' \in [CameraNameSet -> CameraNameSet \cup {CS!NoAlias}] /\ \A n \in CameraNameSet : s6'[n] # n
  BY <1>1, <1>3
<1>5. CS!SettingsTypeOK'
  <2>1. s5' \in [CameraNameSet -> CS!Entries] /\ s4' \in CS!Rows
    BY <1>1, <1>2, <1>3, MigratedLive, MigratedFacts
  <2> QED
    BY <1>1, <1>4, <2>1 DEF CS!IInv, CS!SettingsTypeOK
<1>6. CS!SettingsShape'
  BY <1>1, <1>3, <1>4 DEF CS!IInv, CS!SettingsShape, CS!NoAlias
<1>7. CS!NamesLead'
  <2>1. (IF s6[FirstCameraName] = CS!NoAlias THEN FirstCameraName ELSE s6[FirstCameraName]) = s2
    BY <1>3 DEF CS!IInv, CS!NamesLead, CS!OptionFor
  <2>2. (IF s6'[FirstCameraName] = CS!NoAlias THEN FirstCameraName ELSE s6'[FirstCameraName]) = s1
    BY <1>1, <1>3, <2>1
  <2>3. s6'[s1] = CS!NoAlias
    BY <1>1, <1>3
  <2> QED
    BY <1>1, <1>3, <2>2, <2>3 DEF CS!NamesLead, CS!OptionFor, CS!NoAlias
<1>8. \A n \in CameraNameSet : CS!Leads(n) => CS!Leads(n)'
  <2> SUFFICES ASSUME NEW n \in CameraNameSet, n \in {s1, s2} \/ s6[n] = s2 PROVE n = s1 \/ s6'[n] = s1
    BY <1>1, <1>3 DEF CS!Leads
  <2> QED
    BY <1>1, <1>3
<1>9. CS!OneEntry'
  <2> SUFFICES ASSUME ~s11 PROVE CS!OneEntry'
    BY <1>1 DEF CS!OneEntry
  <2>1. CS!Present(s4') \subseteq {s1} /\ CS!Shown(s4'[s1]) = s9
    BY <1>1, MigratedEntry
  <2>2. CS!Present(s4)' = CS!Present(s4') /\ CS!Shown(s4[s1])' = CS!Shown(s4'[s1])
    BY <1>1 DEF CS!Present, CS!Shown
  <2> QED
    BY <1>1, <1>3, <2>1, <2>2 DEF CS!OneEntry
<1>10. CS!OneRow'
  <2> SUFFICES ASSUME ~s11', NEW z \in CS!Sections PROVE CS!RowOf(z)'
    BY DEF CS!OneRow
  <2>1. CS!RowOf(z)
    BY <1>1 DEF CS!IInv, CS!OneRow
  <2> QED
    BY <1>1, <1>8, <2>1, RowStays
<1>11. CS!LiveFollows'
  <2> SUFFICES ASSUME ~s10' PROVE s5' \in {CS!InUse(s4'), CS!Loaded(s4', s1)}
    <3>1. CS!InUse(s4)' = CS!InUse(s4')
      BY DEF CS!InUse, CS!Shown
    <3>2. CS!Loaded(s4, s1)' = CS!Loaded(s4', s1)
      BY <1>1 DEF CS!Loaded, CS!Shown
    <3> QED
      BY <1>1, <3>1, <3>2 DEF CS!LiveFollows
  <2> QED
    BY <1>1, <1>2, MigratedLive
<1> QED
  BY <1>5, <1>6, <1>7, <1>9, <1>10, <1>11 DEF CS!IInv

LEMMA MigrateFailsStep ==
    ASSUME SettingBounds, CS!IInv, NEW late \in BOOLEAN, CS!MigrateFails(late) PROVE CS!IInv'
<1>1. /\ s3 = "moved" /\ s3' = "listed"
      /\ s10' = IF late THEN s10 /\ s4[s2] = CS!Nothing ELSE TRUE
      /\ UNCHANGED <<s1, s2, s6, s7, s8, s9, s11>>
  BY DEF CS!MigrateFails
<1>2. /\ late => s4' = CS!Migrated /\ CS!LiveMigrated
      /\ ~late => s4' = s4 /\ s5' = s5
  BY DEF CS!MigrateFails
<1>3. /\ s1 \in CameraNameSet /\ s2 \in CameraNameSet /\ s1 # s2 /\ CS!Before = s2 /\ CS!Before' = s2
      /\ s4 \in CS!Rows /\ s5 \in [CameraNameSet -> CS!Entries]
  BY <1>1, SettingFacts DEF CS!Before
<1>4. CS!SettingsTypeOK'
  <2>1. s5' \in [CameraNameSet -> CS!Entries] /\ s4' \in CS!Rows
    BY <1>1, <1>2, <1>3, MigratedLive, MigratedFacts
  <2> QED
    BY <1>1, <2>1 DEF CS!IInv, CS!SettingsTypeOK
<1>5. CS!SettingsShape'
  BY <1>1, <1>3 DEF CS!IInv, CS!SettingsShape
<1>6. CS!NamesLead'
  BY <1>1, <1>3 DEF CS!IInv, CS!NamesLead, CS!OptionFor, CS!NoAlias
<1>7. \A n \in CameraNameSet : CS!Leads(n) => CS!Leads(n)'
  BY <1>1, <1>3 DEF CS!Leads
<1>8. CS!OneEntry'
  <2> SUFFICES ASSUME ~s11 PROVE CS!OneEntry'
    BY <1>1 DEF CS!OneEntry
  <2>1. CASE late
    <3>1. CS!Present(s4') \subseteq {s1} /\ CS!Shown(s4'[s1]) = s9 /\ s4'[s2] = CS!Nothing
      BY <1>1, <1>2, <1>3, <2>1, MigratedEntry, MigratedFacts
    <3>2. CS!Migrated' = s4'
      BY <1>1, <3>1 DEF CS!Migrated, CS!Nothing
    <3>3. CS!Present(s4)' = CS!Present(s4') /\ CS!Shown(CS!Migrated[s1])' = CS!Shown(s4'[s1])
      BY <1>1, <3>2 DEF CS!Present, CS!Shown
    <3> QED
      BY <1>1, <1>3, <3>1, <3>3 DEF CS!OneEntry
  <2>2. CASE ~late
    <3>1. CS!Migrated' = CS!Migrated /\ CS!Present(s4)' = CS!Present(s4)
      BY <1>1, <1>2, <2>2 DEF CS!Migrated, CS!Present, CS!Merged
    <3>2. CS!Shown(CS!Migrated[s1])' = CS!Shown(CS!Migrated[s1])
      BY <1>1, <3>1 DEF CS!Shown
    <3> QED
      BY <1>1, <1>3, <3>1, <3>2 DEF CS!IInv, CS!OneEntry
  <2> QED
    BY <2>1, <2>2
<1>9. CS!OneRow'
  <2> SUFFICES ASSUME ~s11', NEW z \in CS!Sections PROVE CS!RowOf(z)'
    BY DEF CS!OneRow
  <2>1. CS!RowOf(z)
    BY <1>1 DEF CS!IInv, CS!OneRow
  <2> QED
    BY <1>1, <1>7, <2>1, RowStays
<1>10. CS!LiveFollows'
  <2> SUFFICES ASSUME ~s10' PROVE s5' \in {CS!InUse(s4'), CS!Loaded(s4', s1)}
    <3>1. CS!InUse(s4)' = CS!InUse(s4')
      BY DEF CS!InUse, CS!Shown
    <3>2. CS!Loaded(s4, s1)' = CS!Loaded(s4', s1)
      BY <1>1 DEF CS!Loaded, CS!Shown
    <3> QED
      BY <1>1, <3>1, <3>2 DEF CS!LiveFollows
  <2> QED
    BY <1>1, <1>2, MigratedLive
<1> QED
  BY <1>4, <1>5, <1>6, <1>8, <1>9, <1>10 DEF CS!IInv

LEMMA RestartStep == ASSUME SettingBounds, CS!IInv, CS!Restart PROVE CS!IInv'
<1>1. /\ s5' = CS!Loaded(s4, CS!OptionFor) /\ s3' = (IF s3 = "idle" THEN "idle" ELSE "listed")
      /\ s8' = [s \in CS!Sections |-> CS!Quiet]
      /\ UNCHANGED <<s1, s2, s4, s6, s7, s9, s11>>
  BY DEF CS!Restart
<1>2. /\ s3 \in {"idle", "listed", "moved"} /\ s4 \in CS!Rows /\ CS!OptionFor = CS!Before
  BY SettingFacts DEF CS!IInv, CS!NamesLead
<1>3. s8' \in [CS!Sections -> CS!Savings] /\ \A s \in CS!Sections : s8'[s].phase = "idle"
  BY <1>1, QuietFacts
<1>4. (s3' = "idle" <=> s3 = "idle") /\ s3' \in {"idle", "listed", "moved"} /\ CS!Before' = CS!Before
  BY <1>1, <1>2 DEF CS!Before
<1>5. CS!SettingsTypeOK'
  <2>1. s5' \in [CameraNameSet -> CS!Entries]
    BY <1>1, <1>2, LoadedFacts
  <2> QED
    BY <1>1, <1>3, <2>1, SavingFields DEF CS!IInv, CS!SettingsTypeOK
<1>6. CS!SettingsShape'
  BY <1>1, <1>3, <1>4 DEF CS!IInv, CS!SettingsShape
<1>7. CS!NamesLead'
  BY <1>1, <1>4 DEF CS!IInv, CS!NamesLead, CS!OptionFor, CS!NoAlias
<1>8. CS!OneEntry'
  <2>1. CS!Migrated' = CS!Migrated /\ CS!Present(s4)' = CS!Present(s4)
    BY <1>1 DEF CS!Migrated, CS!Present, CS!Merged
  <2>2. CS!Shown(CS!Migrated[s1])' = CS!Shown(CS!Migrated[s1]) /\ CS!Shown(s4[s1])' = CS!Shown(s4[s1])
    BY <1>1, <2>1 DEF CS!Shown
  <2> QED
    BY <1>1, <1>4, <2>1, <2>2 DEF CS!IInv, CS!OneEntry
<1>9. CS!OneRow'
  <2> SUFFICES ASSUME ~s11', NEW z \in CS!Sections PROVE CS!RowOf(z)'
    BY DEF CS!OneRow
  <2>1. CS!RowOf(z)
    BY <1>1 DEF CS!IInv, CS!OneRow
  <2>2. \A n \in CameraNameSet : CS!Leads(n) => CS!Leads(n)'
    BY <1>1, <1>4 DEF CS!Leads
  <2>3. CS!Present(s7[z])' = CS!Present(s7[z])
    BY <1>1 DEF CS!Present
  <2> QED
    BY <1>3, <2>1, <2>2, <2>3 DEF CS!RowOf
<1>10. CS!LiveFollows'
  <2>1. CASE s3 = "idle"
    <3>1. s5' = CS!Loaded(s4, s1)'
      BY <1>1, <1>2, <2>1 DEF CS!Loaded, CS!Shown, CS!Before
    <3> QED
      BY <3>1 DEF CS!LiveFollows
  <2>2. CASE s3 # "idle"
    <3>1. s5' = CS!Loaded(s4, s2)' /\ s3' = "listed"
      BY <1>1, <1>2, <2>2 DEF CS!Loaded, CS!Shown, CS!Before
    <3> QED
      BY <3>1 DEF CS!LiveFollows
  <2> QED
    BY <2>1, <2>2
<1> QED
  BY <1>5, <1>6, <1>7, <1>8, <1>9, <1>10 DEF CS!IInv

LEMMA SettingsStep ==
    ASSUME SettingBounds, CS!IInv, [CS!Next]_(CS!settingVars) PROVE CS!IInv'
<1>1. CASE CS!Next
  <2>1. CASE \E s \in CS!Sections : CS!Load(s) \/ CS!ReadAgain(s) \/ CS!Conflict(s) \/ \E ok \in BOOLEAN : CS!Put(s, ok)
    BY <2>1, LoadStep, ReadAgainStep, ConflictStep, PutStep
  <2>2. CASE \E s \in CS!Sections, n \in CameraNameSet, entry \in CS!Entries : CS!Save(s, n, entry)
    BY <2>2, SaveStep
  <2>3. CASE \E n \in CameraNameSet, zone \in {0, 1}, ok \in BOOLEAN : CS!PutZone(n, zone, ok)
    BY <2>3, PutZoneStep
  <2>4. CASE \E n \in CameraNameSet : CS!Rename(n)
    BY <2>4, RenameStep
  <2>5. CASE \E late \in BOOLEAN : CS!MigrateFails(late)
    BY <2>5, MigrateFailsStep
  <2> QED
    BY <1>1, <2>1, <2>2, <2>3, <2>4, <2>5, MoveLiveStep, MigrateStep, RestartStep DEF CS!Next
<1>2. CASE UNCHANGED CS!settingVars
  <2>1. UNCHANGED <<s1, s2, s3, s4, s5, s6, s7, s8, s9, s10, s11>>
    BY <1>2 DEF CS!settingVars
  <2>2. s7' \in [CS!Sections -> CS!Rows] /\ s8' \in [CS!Sections -> CS!Savings]
    BY <2>1, SettingFacts
  <2>3. CS!OneRow'
    <3> SUFFICES ASSUME ~s11', NEW z \in CS!Sections PROVE CS!RowOf(z)'
      BY DEF CS!OneRow
    <3>1. CS!RowOf(z)
      BY <2>1 DEF CS!IInv, CS!OneRow
    <3>2. \A n \in CameraNameSet : CS!Leads(n) => CS!Leads(n)'
      BY <2>1, NamesStay
    <3> QED
      BY <2>1, <3>1, <3>2, RowStays
  <2> QED
    BY <2>1, <2>2, <2>3, OnlyPages
<1> QED
  BY <1>1, <1>2

LEMMA SettingsSafe ==
    ASSUME CS!IInv PROVE CS!SettingsTypeOK /\ CS!EditsSurvive /\ CS!AnalyzerFollowsFile
BY DEF CS!IInv, CS!OneEntry, CS!EditsSurvive, CS!LiveFollows, CS!AnalyzerFollowsFile, CS!NamesLead, CS!Before

(* Of two entries made one, a switch turned away from its default in the   *)
(* old one is so in the new one.                                           *)
LEMMA SwitchesOutlive == ASSUME SettingBounds, CS!IInv PROVE CS!SwitchesOutliveRenaming
<1> SUFFICES ASSUME CS!Migrate
             PROVE  /\ CS!Shown(s4[s2]).car => CS!Shown(s4'[s1]).car
                    /\ CS!Shown(s4'[s1]).auto => CS!Shown(s4[s2]).auto
  BY DEF CS!SwitchesOutliveRenaming
<1>1. s3 = "moved" /\ s4' = CS!Migrated
  BY DEF CS!Migrate
<1>2. /\ s1 # s2 /\ s4[s1] \in CS!Entries \cup {CS!Nothing} /\ s4[s2] \in CS!Entries \cup {CS!Nothing}
  BY <1>1, SettingFacts
<1>3. CASE s4[s2] = CS!Nothing
  BY <1>3, EntryFacts
<1>4. CASE s4[s2] # CS!Nothing
  <2>1. s4'[s1] = IF s4[s1] = CS!Nothing THEN s4[s2] ELSE CS!Merged(s4[s1], s4[s2])
    BY <1>1, <1>2, <1>4, MigratedFacts
  <2>2. CASE s4[s1] = CS!Nothing
    BY <2>1, <2>2
  <2>3. CASE s4[s1] # CS!Nothing
    <3>1. PICK m \in CS!Entries : m = CS!Merged(s4[s1], s4[s2])
      BY <1>2, <1>4, <2>3, MergedFacts
    <3>2. m.car = (s4[s1].car \/ s4[s2].car) /\ m.auto = (s4[s1].auto /\ s4[s2].auto)
      BY <1>2, <1>4, <2>3, <3>1, MergedFacts
    <3>3. CS!Shown(s4[s2]) = s4[s2] /\ CS!Shown(s4'[s1]) = m
      BY <1>2, <1>4, <2>1, <2>3, <3>1, EntryFacts
    <3> QED
      BY <3>2, <3>3
  <2> QED
    BY <2>2, <2>3
<1> QED
  BY <1>3, <1>4

-----------------------------------------------------------------------------
(* Three sections of the pages, the picker, renamings with their retries   *)
(* and restarts lose nothing that was saved for a camera, and the analyzer *)
(* works with what the file holds (media_server/camera_configs.py); the    *)
(* marked assets keep their names apart and their frames, and the analyzer *)
(* looks for those of the file (media_server/assets.py).                   *)
THEOREM SettingsStayInOrder == ASSUME SettingBounds, AssetBounds PROVE Spec => SettingsInOrder
<1> DEFINE Good == /\ which = "camera settings" => CS!IInv
                   /\ which = "marked assets" => MA!IInv
<1>1. Init => Good
  BY SettingsInit, AssetsInit DEF Init
<1>2. Good /\ [Next]_bank => Good'
  <2> SUFFICES ASSUME Good, [Next]_bank PROVE Good'
    OBVIOUS
  <2>1. CASE which = "camera settings"
    <3>1. which' = "camera settings" /\ [CS!Next]_(CS!settingVars)
      BY <2>1 DEF Next, bank, CS!settingVars
    <3> QED
      BY <2>1, <3>1, SettingsStep
  <2>2. CASE which = "marked assets"
    <3>1. which' = "marked assets" /\ [MA!Next]_(MA!assetVars)
      BY <2>2 DEF Next, bank, MA!assetVars
    <3> QED
      BY <2>2, <3>1, AssetsStep
  <2>3. CASE which \notin {"camera settings", "marked assets"}
    <3>1. which' = which
      BY DEF Next, bank
    <3> QED
      BY <2>3, <3>1
  <2> QED
    BY <2>1, <2>2, <2>3
<1>3. Good => /\ which = "camera settings" => CS!SettingsTypeOK /\ CS!EditsSurvive /\ CS!AnalyzerFollowsFile
              /\ which = "marked assets" =>
                    MA!AssetsTypeOK /\ MA!NamesStayApart /\ MA!AnalyzerWatchesFile /\ MA!FramesFitAssets
  BY SettingsSafe, AssetsInOrder
<1>4. Good => (which = "camera settings" => CS!SwitchesOutliveRenaming)
  BY SwitchesOutlive
<1> QED
  BY <1>1, <1>2, <1>3, <1>4, PTL DEF Spec, SettingsInOrder

-----------------------------------------------------------------------------
(* The parked car (Vehicles): s1 and s2 are the zone, s3 to s5 the         *)
(* signatures stored, loaded and learned, s6 the phase, s7 the cars in     *)
(* sight, s8 the clips, s11 what other cars taught, s12 the zone in use.   *)
VehicleBounds == VehicleClips \in Nat

LEMMA TwoOf ==
    \A a, b \in Int : /\ VE!Max({a, b}) = IF a >= b THEN a ELSE b
                      /\ VE!Min({a, b}) = IF a <= b THEN a ELSE b
<1> SUFFICES ASSUME NEW a \in Int, NEW b \in Int
             PROVE  /\ VE!Max({a, b}) = IF a >= b THEN a ELSE b
                    /\ VE!Min({a, b}) = IF a <= b THEN a ELSE b
  OBVIOUS
<1>1. VE!Max({a, b}) = IF a >= b THEN a ELSE b
  <2>1. \E x \in {a, b} : \A y \in {a, b} : x >= y
    OBVIOUS
  <2> QED
    BY <2>1 DEF VE!Max
<1>2. VE!Min({a, b}) = IF a <= b THEN a ELSE b
  <2>1. \E x \in {a, b} : \A y \in {a, b} : x <= y
    OBVIOUS
  <2> QED
    BY <2>1 DEF VE!Min
<1> QED
  BY <1>1, <1>2

(* Of a quotient.                                                          *)
LEMMA Quotient ==
    \A a \in Int, n \in Nat \ {0} :
        /\ a \div n \in Int /\ (a \div n) * n <= a /\ a < (a \div n) * n + n
OBVIOUS

LEMMA QuotientBounds ==
    \A a, k \in Int, n \in Nat \ {0} :
        /\ k * n <= a => k <= a \div n
        /\ a < (k + 1) * n => a \div n <= k
<1> SUFFICES ASSUME NEW a \in Int, NEW k \in Int, NEW n \in Nat \ {0}
             PROVE  /\ k * n <= a => k <= a \div n
                    /\ a < (k + 1) * n => a \div n <= k
  OBVIOUS
<1>1. PICK q \in Int : q = a \div n /\ q * n <= a /\ a < (q + 1) * n
  BY Quotient
<1>2. \A i, j \in Int : i < j => (i + 1) * n <= j * n
  OBVIOUS
<1>3. k * n <= a => k <= q
  <2> SUFFICES ASSUME k * n <= a, q < k PROVE FALSE
    BY <1>1
  <2>1. (q + 1) * n <= k * n
    BY <1>1, <1>2
  <2> QED
    BY <1>1, <2>1
<1>4. a < (k + 1) * n => q <= k
  <2> SUFFICES ASSUME a < (k + 1) * n, k < q PROVE FALSE
    BY <1>1
  <2>1. (k + 1) * n <= q * n
    BY <1>1, <1>2
  <2> QED
    BY <1>1, <2>1
<1> QED
  BY <1>1, <1>3, <1>4

(* The likeness of two colours is a percentage.                            *)
LEMMA CosineFacts == \A s \in 0..8, t \in {0, 8} : VE!Cosine(s, t) \in 0..100
<1> DEFINE Is(k, s, t) ==
             LET dot  == s * t + (8 - s) * (8 - t)
                 norm == (s * s + (8 - s) * (8 - s)) * (t * t + (8 - t) * (8 - t))
             IN k * k * norm <= 400 * dot * dot /\ 400 * dot * dot < (k + 1) * (k + 1) * norm
<1>1. /\ Is(0, 0, 8) /\ Is(2, 1, 8) /\ Is(6, 2, 8) /\ Is(10, 3, 8) /\ Is(14, 4, 8)
      /\ Is(17, 5, 8) /\ Is(18, 6, 8) /\ Is(19, 7, 8) /\ Is(20, 8, 8)
  OBVIOUS
<1>2. /\ Is(20, 0, 0) /\ Is(19, 1, 0) /\ Is(18, 2, 0) /\ Is(17, 3, 0) /\ Is(14, 4, 0)
      /\ Is(10, 5, 0) /\ Is(6, 6, 0) /\ Is(2, 7, 0) /\ Is(0, 8, 0)
  OBVIOUS
<1> HIDE DEF Is
<1>3. \A s \in 0..8, t \in {0, 8} : \E k \in 0..20 : Is(k, s, t)
  <2> SUFFICES ASSUME NEW s \in 0..8, NEW t \in {0, 8} PROVE \E k \in 0..20 : Is(k, s, t)
    OBVIOUS
  <2>1. s \in {0, 1, 2, 3, 4, 5, 6, 7, 8}
    OBVIOUS
  <2>2. {0, 2, 6, 10, 14, 17, 18, 19, 20} \subseteq 0..20
    OBVIOUS
  <2> QED
    BY <1>1, <1>2, <2>1, <2>2
<1>4. \A s \in 0..8, t \in {0, 8} : VE!Cosine(s, t) = 5 * CHOOSE k \in 0..20 : Is(k, s, t)
  BY DEF VE!Cosine, VE!Shades, Is
<1>5. \A s \in 0..8, t \in {0, 8} : (CHOOSE k \in 0..20 : Is(k, s, t)) \in 0..20
  BY <1>3
<1>6. \A k \in 0..20 : 5 * k \in 0..100
  OBVIOUS
<1> QED
  <2> SUFFICES ASSUME NEW s \in 0..8, NEW t \in {0, 8} PROVE VE!Cosine(s, t) \in 0..100
    OBVIOUS
  <2>1. PICK k \in 0..20 : VE!Cosine(s, t) = 5 * k
    BY <1>4, <1>5
  <2> QED
    BY <1>6, <2>1

(* How much of their extent two boxes share.                               *)
LEMMA BoxFacts ==
    ASSUME NEW a, NEW b, a.left \in Int, a.right \in Int, b.left \in Int, b.right \in Int,
           a.left <= a.right, b.left <= b.right
    PROVE  LET low == IF a.left >= b.left THEN a.left ELSE b.left
               high == IF a.right <= b.right THEN a.right ELSE b.right
               la == a.right - a.left
               lb == b.right - b.left
           IN /\ VE!Length(a) = la /\ VE!Length(b) = lb
              /\ VE!Shared(a, b) = IF high >= low THEN high - low ELSE 0
              /\ VE!Shared(a, b) \in Nat /\ VE!Shared(a, b) <= la /\ VE!Shared(a, b) <= lb
<1> DEFINE low == IF a.left >= b.left THEN a.left ELSE b.left
           high == IF a.right <= b.right THEN a.right ELSE b.right
<1>1. VE!Length(a) = a.right - a.left /\ VE!Length(b) = b.right - b.left
  <2>1. a.right - a.left \in Nat /\ b.right - b.left \in Nat
    OBVIOUS
  <2> QED
    BY <2>1, TwoOf DEF VE!Length
<1>2. low \in Int /\ high \in Int
  OBVIOUS
<1>3. VE!Shared(a, b) = VE!Max({0, high - low})
  <2>1. VE!Min({a.right, b.right}) = high /\ VE!Max({a.left, b.left}) = low
    BY TwoOf
  <2> QED
    BY <2>1 DEF VE!Shared
<1>4. VE!Shared(a, b) = IF high >= low THEN high - low ELSE 0
  <2> HIDE DEF high, low
  <2>1. high - low \in Int
    BY <1>2
  <2> QED
    BY <1>2, <1>3, <2>1, TwoOf
<1> QED
  BY <1>1, <1>4

LEMMA IouFacts ==
    ASSUME NEW a, NEW b, a.left \in Int, a.right \in Int, b.left \in Int, b.right \in Int,
           a.left <= a.right, b.left <= b.right
    PROVE  /\ VE!Iou(a, b) \in 0..100 /\ VE!Overlap(a, b) \in 0..100
           /\ VE!Shared(a, b) = 0 => VE!Iou(a, b) = 0 /\ VE!Overlap(a, b) = 0
           /\ LET s == VE!Shared(a, b)
                  u == a.right - a.left + b.right - b.left - s
              IN s # 0 => u \in Nat \ {0} /\ VE!Iou(a, b) = (100 * s) \div u
<1>1. PICK s \in Nat, la \in Nat, lb \in Nat :
         /\ s = VE!Shared(a, b) /\ la = a.right - a.left /\ lb = b.right - b.left
         /\ VE!Length(a) = la /\ VE!Length(b) = lb /\ s <= la /\ s <= lb
  BY BoxFacts
<1>2. VE!Iou(a, b) = IF s = 0 THEN 0 ELSE (100 * s) \div (la + lb - s)
  BY <1>1 DEF VE!Iou
<1>3. PICK m \in Nat : m = (IF la <= lb THEN la ELSE lb) /\ s <= m
  BY <1>1
<1>4. VE!Overlap(a, b) = IF m = 0 THEN 0 ELSE (100 * s) \div m
  <2>1. VE!Min({la, lb}) = m
    BY <1>3, TwoOf
  <2>2. VE!Overlap(a, b) = IF VE!Min({la, lb}) = 0 THEN 0 ELSE (100 * s) \div VE!Min({la, lb})
    BY <1>1 DEF VE!Overlap
  <2> QED
    BY <2>1, <2>2
<1>5. \A n \in Nat \ {0} : s <= n => (100 * s) \div n \in 0..100
  <2> SUFFICES ASSUME NEW n \in Nat \ {0}, s <= n PROVE (100 * s) \div n \in 0..100
    OBVIOUS
  <2>1. 100 * s \in Nat /\ 100 * s < (100 + 1) * n /\ 0 * n <= 100 * s
    OBVIOUS
  <2>2. (100 * s) \div n \in Int
    BY <2>1, Quotient
  <2>3. 0 <= (100 * s) \div n /\ (100 * s) \div n <= 100
    BY <2>1, QuotientBounds
  <2> QED
    BY <2>2, <2>3
<1>6. s # 0 => la + lb - s \in Nat \ {0} /\ s <= la + lb - s
  BY <1>1
<1>7. VE!Iou(a, b) \in 0..100
  BY <1>2, <1>5, <1>6
<1>8. VE!Overlap(a, b) \in 0..100 /\ (s = 0 => VE!Overlap(a, b) = 0)
  <2>1. CASE m = 0
    BY <1>4, <2>1
  <2>2. CASE m # 0
    <3>1. s = 0 => (100 * s) \div m = 0
      <4>1. 0 \div m = 0
        BY <2>2
      <4> QED
        BY <4>1
    <3> QED
      BY <1>3, <1>4, <1>5, <2>2, <3>1
  <2> QED
    BY <2>1, <2>2
<1>9. a.right - a.left + b.right - b.left - s = la + lb - s
  BY <1>1
<1> QED
  BY <1>1, <1>2, <1>6, <1>7, <1>8, <1>9

IsBox(a, l, r) == a.left = l /\ a.right = r /\ l <= r
IsUnion(al, ar, bl, br, s, u) == u = ar - al + br - bl - s
LEMMA IouIs ==
    \A a, b : \A al, ar, bl, br, s, u \in Int :
        IsBox(a, al, ar) /\ IsBox(b, bl, br) /\ s = VE!Shared(a, b) /\ s # 0 /\ IsUnion(al, ar, bl, br, s, u)
        => u \in Nat \ {0} /\ VE!Iou(a, b) = (100 * s) \div u
<1> SUFFICES ASSUME NEW a, NEW b, NEW al \in Int, NEW ar \in Int, NEW bl \in Int, NEW br \in Int,
                    NEW s \in Int, NEW u \in Int,
                    IsBox(a, al, ar), IsBox(b, bl, br), s = VE!Shared(a, b), s # 0,
                    IsUnion(al, ar, bl, br, s, u)
             PROVE  u \in Nat \ {0} /\ VE!Iou(a, b) = (100 * s) \div u
  OBVIOUS
<1>1. /\ a.left \in Int /\ a.right \in Int /\ b.left \in Int /\ b.right \in Int
      /\ a.left <= a.right /\ b.left <= b.right
  BY DEF IsBox
<1>2. u = a.right - a.left + b.right - b.left - VE!Shared(a, b)
  BY DEF IsBox, IsUnion
<1> QED
  BY <1>1, <1>2, IouFacts

(* The cars of the drive.                                                  *)
Cars == VE!Mine \cup VE!Theirs \cup {VE!Van}
LEMMA CarPlaces ==
    \A c \in Cars : c.left \in 240..430 /\ c.right \in 420..610 /\ c.left <= c.right /\ c.silver \in {0, 8}
<1> SUFFICES ASSUME NEW c \in Cars
             PROVE  c.left \in 240..430 /\ c.right \in 420..610 /\ c.left <= c.right /\ c.silver \in {0, 8}
  OBVIOUS
<1>1. CASE c \in VE!Mine
  BY <1>1 DEF VE!Mine, VE!Car
<1>2. CASE c \in VE!Theirs
  BY <1>2 DEF VE!Theirs, VE!Car
<1>3. CASE c = VE!Van
  BY <1>3 DEF VE!Van, VE!Car
<1> QED
  BY <1>1, <1>2, <1>3 DEF Cars

LEMMA CarNumbers ==
    \A c \in Cars : \E l \in 240..430, r \in 420..610, s \in {0, 8} :
        l = c.left /\ r = c.right /\ s = c.silver /\ l <= r
<1> SUFFICES ASSUME NEW c \in Cars
             PROVE  \E l \in 240..430, r \in 420..610, s \in {0, 8} :
                        l = c.left /\ r = c.right /\ s = c.silver /\ l <= r
  OBVIOUS
<1>1. c.left \in 240..430
  BY CarPlaces
<1>2. c.right \in 420..610
  BY CarPlaces
<1>3. c.silver \in {0, 8}
  BY CarPlaces
<1>4. c.left <= c.right
  BY CarPlaces
<1> QED
  BY <1>1, <1>2, <1>3, <1>4, ZenonT(60)

LEMMA CarFacts ==
    \A c \in Cars :
       /\ c.tracked = TRUE
       /\ c.whose = "mine" => c \in VE!Mine /\ ((c.left = 240 /\ c.right = 420) \/ (c.left = 260 /\ c.right = 440))
       /\ c.whose = "neighbour" => c.left = 430 /\ c.right = 610
       /\ c.whose = "van" => c.left = 240 /\ c.right = 600
       /\ c.whose \in {"mine", "neighbour", "van"}
       /\ c \in VE!Mine => c.whose = "mine"
<1> SUFFICES ASSUME NEW c \in Cars
             PROVE  /\ c.tracked = TRUE
                    /\ c.whose = "mine" =>
                          c \in VE!Mine /\ ((c.left = 240 /\ c.right = 420) \/ (c.left = 260 /\ c.right = 440))
                    /\ c.whose = "neighbour" => c.left = 430 /\ c.right = 610
                    /\ c.whose = "van" => c.left = 240 /\ c.right = 600
                    /\ c.whose \in {"mine", "neighbour", "van"}
                    /\ c \in VE!Mine => c.whose = "mine"
  OBVIOUS
<1>1. CASE c \in VE!Mine
  BY <1>1 DEF VE!Mine, VE!Car
<1>2. CASE c \in VE!Theirs
  BY <1>2 DEF VE!Mine, VE!Theirs, VE!Car
<1>3. CASE c = VE!Van
  BY <1>3 DEF VE!Mine, VE!Van, VE!Car
<1> QED
  BY <1>1, <1>2, <1>3 DEF Cars

LEMMA FitsFacts ==
    ASSUME NEW sig, VE!Fits(sig)
    PROVE  /\ sig.left \in 0..430 /\ sig.right \in 0..610 /\ sig.silver \in 0..8 /\ sig.samples \in Nat
           /\ sig.left <= sig.right
           /\ sig # VE!NoSignature => sig.samples >= 1
           /\ VE!Established(sig) => sig # VE!NoSignature /\ sig.samples >= 4
BY DEF VE!Fits, VE!Signatures, VE!Shades, VE!Established, VE!MinSamples, VE!NoSignature

LEMMA FitsNumbers ==
    ASSUME NEW sig, VE!Fits(sig)
    PROVE  \E l \in 0..430, r \in 0..610, s \in 0..8, k \in Nat :
               l = sig.left /\ r = sig.right /\ s = sig.silver /\ k = sig.samples /\ l <= r
<1>1. sig.left \in 0..430
  BY FitsFacts
<1>2. sig.right \in 0..610
  BY FitsFacts
<1>3. sig.silver \in 0..8
  BY FitsFacts
<1>4. sig.samples \in Nat /\ sig.left <= sig.right
  BY FitsFacts
<1> QED
  BY <1>1, <1>2, <1>3, <1>4, ZenonT(60)

(* The score of a car, by the evidence there is.                           *)
ScoreIs(c, z, sig, o, i, k) ==
    /\ o = VE!Overlap(c, VE!Spot) /\ i = VE!Iou(sig, c)
    /\ ~VE!Established(sig) /\ z = VE!Spot => VE!Score(c, z, sig) = (5 * o) \div 5
    /\ VE!Established(sig) /\ z = VE!NoZone => VE!Score(c, z, sig) = (3 * i + 2 * k) \div 5
    /\ VE!Established(sig) /\ z = VE!Spot => VE!Score(c, z, sig) = (5 * o + 3 * i + 2 * k) \div 10
LEMMA ScoreFacts ==
    ASSUME NEW c \in Cars, NEW z \in {VE!NoZone, VE!Spot}, NEW sig, VE!Fits(sig)
    PROVE  /\ VE!Score(c, z, sig) \in 0..100
           /\ \E o, i, k \in 0..100 : ScoreIs(c, z, sig, o, i, k)
<1>1. VE!Spot # VE!NoZone /\ VE!Spot.left = 240 /\ VE!Spot.right = 420
  BY DEF VE!Spot, VE!NoZone
<1>2. VE!Overlap(c, VE!Spot) \in 0..100 /\ VE!Iou(sig, c) \in 0..100
  <2>1. c.left \in Int /\ c.right \in Int /\ c.left <= c.right
    BY CarPlaces
  <2>2. sig.left \in Int /\ sig.right \in Int /\ sig.left <= sig.right
    BY FitsFacts
  <2>3. VE!Spot.left \in Int /\ VE!Spot.right \in Int /\ VE!Spot.left <= VE!Spot.right
    BY <1>1
  <2>4. VE!Overlap(c, VE!Spot) \in 0..100
    BY <2>1, <2>3, IouFacts
  <2>5. VE!Iou(sig, c) \in 0..100
    BY <2>1, <2>2, IouFacts
  <2> QED
    BY <2>4, <2>5
<1>3. VE!Cosine(sig.silver, c.silver) \in 0..100
  <2>1. sig.silver \in 0..8
    BY FitsFacts
  <2>2. c.silver \in {0, 8}
    BY CarPlaces
  <2> QED
    BY <2>1, <2>2, CosineFacts
<1>4. PICK o \in 0..100, i \in 0..100, k \in 0..100 :
         o = VE!Overlap(c, VE!Spot) /\ i = VE!Iou(sig, c) /\ k = VE!Cosine(sig.silver, c.silver)
  BY <1>2, <1>3
<1>5. c.tracked = TRUE
  BY CarFacts
<1>6. CASE VE!Established(sig) /\ z = VE!Spot
  <2>1. VE!Score(c, z, sig) = (5 * o + 3 * i + 2 * k) \div 10
    BY <1>1, <1>4, <1>5, <1>6 DEF VE!Score
  <2>2. (5 * o + 3 * i + 2 * k) \div 10 \in 0..100
    OBVIOUS
  <2>3. ~(z = VE!NoZone)
    BY <1>1, <1>6
  <2>4. VE!Score(c, z, sig) \in 0..100
    BY <2>1, <2>2
  <2> QED
    BY <1>4, <1>6, <2>1, <2>3, <2>4 DEF ScoreIs
<1>7. CASE VE!Established(sig) /\ z = VE!NoZone
  <2>1. VE!Score(c, z, sig) = (3 * i + 2 * k) \div 5
    <3>1. PICK o2 \in Int : o2 = VE!Overlap(c, z)
      <4>1. VE!Shared(c, z) = 0 /\ z.left = 0 /\ z.right = 0
        <5>1. z.left = 0 /\ z.right = 0
          BY <1>7 DEF VE!NoZone
        <5>2. c.left \in 240..430 /\ c.right \in 420..610 /\ c.left <= c.right
          BY CarPlaces
        <5> QED
          BY <5>1, <5>2, BoxFacts
      <4>2. c.left \in Int /\ c.right \in Int /\ c.left <= c.right
        BY CarPlaces
      <4> QED
        BY <4>1, <4>2, IouFacts
    <3>2. VE!Score(c, z, sig) = (0 * o2 + 3 * i + 2 * k) \div 5
      BY <1>1, <1>4, <1>5, <1>7, <3>1 DEF VE!Score
    <3> QED
      BY <3>2
  <2>2. (3 * i + 2 * k) \div 5 \in 0..100
    OBVIOUS
  <2> QED
    BY <1>1, <1>4, <1>7, <2>1, <2>2 DEF ScoreIs
<1>8. CASE ~VE!Established(sig) /\ z = VE!Spot
  <2>1. VE!Score(c, z, sig) = (5 * o) \div 5
    BY <1>1, <1>4, <1>5, <1>8 DEF VE!Score
  <2>2. (5 * o) \div 5 \in 0..100
    OBVIOUS
  <2> QED
    BY <1>1, <1>4, <1>8, <2>1, <2>2 DEF ScoreIs
<1>9. CASE ~VE!Established(sig) /\ z = VE!NoZone
  <2>1. VE!Score(c, z, sig) = 0
    BY <1>1, <1>5, <1>9 DEF VE!Score
  <2>2. z # VE!Spot
    BY <1>1, <1>9
  <2>3. VE!Score(c, z, sig) \in 0..100
    BY <2>1
  <2> QED
    BY <1>4, <1>9, <2>2, <2>3 DEF ScoreIs
<1> QED
  BY <1>6, <1>7, <1>8, <1>9

(* The neighbour's car, where the signature is near the spot: with the     *)
(* spot marked it is no match, and without it no confident one; the car    *)
(* itself is a match either way.                                           *)
LEMMA NeighbourScore ==
    ASSUME NEW c \in Cars, c.whose = "neighbour", NEW z \in {VE!NoZone, VE!Spot},
           NEW sig, VE!Fits(sig), NEW taught \in {0, 1}, VE!Near(sig, taught)
    PROVE  /\ z = VE!Spot => VE!Score(c, z, sig) < 35
           /\ VE!Established(sig) => VE!Score(c, z, sig) < 60
<1>1. c.left = 430 /\ c.right = 610 /\ VE!Spot.left = 240 /\ VE!Spot.right = 420
  BY CarFacts DEF VE!Spot
<1>2. VE!Overlap(c, VE!Spot) = 0
  <2>1. VE!Shared(c, VE!Spot) = 0
    BY <1>1, BoxFacts
  <2> QED
    BY <1>1, <2>1, IouFacts
<1>3. VE!Established(sig) => VE!Iou(sig, c) <= 23
  <2> SUFFICES ASSUME VE!Established(sig) PROVE VE!Iou(sig, c) <= 23
    OBVIOUS
  <2>1. /\ sig.left \in 240..260 /\ sig.right \in 420..507 /\ sig.left <= sig.right
    <3>1. sig # VE!NoSignature /\ sig.samples >= 4 /\ sig.right \in Int /\ sig.samples \in Nat
      BY FitsFacts
    <3>2. VE!WidestRight(sig.samples) = 507
      BY <3>1 DEF VE!WidestRight
    <3> QED
      BY <3>1, <3>2 DEF VE!Near
  <2>2. PICK l \in Int, r \in Int, s \in Nat :
            /\ l = sig.left /\ r = sig.right
            /\ s = VE!Shared(sig, c) /\ s = IF r >= 430 THEN r - 430 ELSE 0
    <3>1. VE!Shared(sig, c) = IF sig.right >= 430 THEN sig.right - 430 ELSE 0
      BY <1>1, <2>1, BoxFacts
    <3>2. (IF sig.right >= 430 THEN sig.right - 430 ELSE 0) \in Nat
      BY <2>1
    <3> QED
      BY <2>1, <3>1, <3>2
  <2>3. CASE s = 0
    <3>1. VE!Shared(sig, c) = 0 => VE!Iou(sig, c) = 0
      BY <1>1, <2>1, IouFacts
    <3> QED
      BY <2>2, <2>3, <3>1
  <2>4. CASE s # 0
    <3>1. PICK u \in Int : u = r - l + 610 - 430 - s
      OBVIOUS
    <3>2. u \in Nat \ {0} /\ VE!Iou(sig, c) = (100 * s) \div u
      <4>1. IsBox(sig, l, r)
        BY <2>1, <2>2 DEF IsBox
      <4>2. IsBox(c, 430, 610)
        BY <1>1 DEF IsBox
      <4>3. s = VE!Shared(sig, c)
        BY <2>2
      <4>4. IsUnion(l, r, 430, 610, s, u)
        BY <3>1 DEF IsUnion
      <4> QED
        BY <2>4, <4>1, <4>2, <4>3, <4>4, IouIs
    <3>3. PICK h \in Int : h = 100 * s /\ h < (23 + 1) * u
      BY <2>1, <2>2, <2>4, <3>1
    <3>4. h \div u <= 23
      BY <3>2, <3>3, QuotientBounds
    <3> QED
      BY <3>2, <3>3, <3>4
  <2> QED
    BY <2>3, <2>4
<1>4. PICK o \in 0..100, i \in 0..100, k \in 0..100 : ScoreIs(c, z, sig, o, i, k)
  BY ScoreFacts
<1> USE DEF ScoreIs
<1>5. CASE ~VE!Established(sig) /\ z = VE!Spot
  <2>1. (5 * o) \div 5 = 0
    BY <1>2, <1>4
  <2> QED
    BY <1>4, <1>5, <2>1
<1>6. CASE VE!Established(sig) /\ z = VE!NoZone
  <2>1. (3 * i + 2 * k) \div 5 < 60
    BY <1>3, <1>4, <1>6
  <2>2. VE!Spot # VE!NoZone
    BY DEF VE!Spot, VE!NoZone
  <2> QED
    BY <1>4, <1>6, <2>1, <2>2
<1>7. CASE VE!Established(sig) /\ z = VE!Spot
  <2>1. (5 * o + 3 * i + 2 * k) \div 10 < 35
    BY <1>2, <1>3, <1>4, <1>7
  <2>2. (5 * o + 3 * i + 2 * k) \div 10 < 60
    BY <1>2, <1>3, <1>4, <1>7
  <2> QED
    BY <1>4, <1>7, <2>1, <2>2
<1> QED
  BY <1>5, <1>6, <1>7

LEMMA OwnScore ==
    ASSUME NEW c \in VE!Mine, NEW z \in {VE!NoZone, VE!Spot},
           NEW sig, VE!Fits(sig), NEW taught \in {0, 1}, VE!Near(sig, taught), VE!Established(sig)
    PROVE  VE!Score(c, z, sig) >= 35
<1>1. /\ c \in Cars
      /\ (c.left = 240 /\ c.right = 420) \/ (c.left = 260 /\ c.right = 440)
      /\ VE!Spot.left = 240 /\ VE!Spot.right = 420
  BY CarFacts DEF Cars, VE!Spot
<1>2. VE!Overlap(c, VE!Spot) >= 0
  <2>1. VE!Overlap(c, VE!Spot) \in 0..100
    BY <1>1, IouFacts
  <2> QED
    BY <2>1
<1>3. VE!Overlap(c, VE!Spot) >= 35
  <2>1. PICK s \in Nat : s = VE!Shared(c, VE!Spot) /\ s \in {160, 180}
    BY <1>1, BoxFacts
  <2>2. VE!Length(c) = 180 /\ VE!Length(VE!Spot) = 180
    BY <1>1, BoxFacts
  <2>3. VE!Min({180, 180}) = 180
    BY TwoOf
  <2>4. VE!Overlap(c, VE!Spot) = (100 * s) \div 180
    BY <2>1, <2>2, <2>3 DEF VE!Overlap
  <2>5. (100 * s) \div 180 >= 35
    BY <2>1
  <2> QED
    BY <2>4, <2>5
<1>4. VE!Iou(sig, c) >= 59
  <2>1. /\ sig.left \in 240..260 /\ sig.right \in 420..507 /\ sig.left <= sig.right
    <3>1. sig # VE!NoSignature /\ sig.samples >= 4 /\ sig.right \in Int /\ sig.samples \in Nat
      BY FitsFacts
    <3>2. VE!WidestRight(sig.samples) = 507
      BY <3>1 DEF VE!WidestRight
    <3> QED
      BY <3>1, <3>2 DEF VE!Near
  <2>2. PICK l \in Int, r \in Int, sl \in Int, sr \in Int :
            l = c.left /\ r = c.right /\ sl = sig.left /\ sr = sig.right
    <3>1. c.left \in Int /\ c.right \in Int
      BY <1>1
    <3>2. sig.left \in Int /\ sig.right \in Int
      BY <2>1
    <3> QED
      BY <3>1, <3>2
  <2>3. PICK s \in Int :
            s = VE!Shared(sig, c) /\ s = (IF sr <= r THEN sr ELSE r) - (IF sl >= l THEN sl ELSE l) /\ s # 0
    <3>1. VE!Shared(sig, c) = (IF sr <= r THEN sr ELSE r) - (IF sl >= l THEN sl ELSE l)
      <4>1. LET low == IF sl >= l THEN sl ELSE l
                high == IF sr <= r THEN sr ELSE r
            IN VE!Shared(sig, c) = (IF high >= low THEN high - low ELSE 0) /\ high >= low
        BY <1>1, <2>1, <2>2, BoxFacts
      <4> QED
        BY <4>1
    <3>2. (IF sr <= r THEN sr ELSE r) - (IF sl >= l THEN sl ELSE l) >= 160
      BY <1>1, <2>1, <2>2
    <3> QED
      BY <3>1, <3>2
  <2>4. PICK u \in Int : u = sr - sl + r - l - s
    OBVIOUS
  <2>5. u \in Nat \ {0} /\ VE!Iou(sig, c) = (100 * s) \div u
    <3>1. IsBox(sig, sl, sr)
      BY <2>1, <2>2 DEF IsBox
    <3>2. IsBox(c, l, r)
      BY <1>1, <2>2 DEF IsBox
    <3>3. s # 0 /\ s = VE!Shared(sig, c)
      BY <2>3
    <3>4. IsUnion(sl, sr, l, r, s, u)
      BY <2>4 DEF IsUnion
    <3> QED
      BY <3>1, <3>2, <3>3, <3>4, IouIs
  <2>6. PICK h \in Int : h = 100 * s /\ 59 * u <= h
    <3>1. CASE l = 240
      <4>1. r = 420 /\ sl \in 240..260 /\ sr \in 420..507
        BY <1>1, <2>1, <2>2, <3>1
      <4>2. s = 420 - sl /\ u = sr - 240
        BY <2>3, <2>4, <3>1, <4>1
      <4> QED
        BY <4>1, <4>2
    <3>2. CASE l = 260
      <4>1. r = 440 /\ sl \in 240..260 /\ sr \in 420..507
        BY <1>1, <2>1, <2>2, <3>2
      <4>2. CASE sr <= 440
        <5>1. s = sr - 260 /\ u = 440 - sl
          BY <2>3, <2>4, <3>2, <4>1, <4>2
        <5> QED
          BY <4>1, <5>1
      <4>3. CASE sr > 440
        <5>1. s = 180 /\ u = sr - sl
          BY <2>3, <2>4, <3>2, <4>1, <4>3
        <5> QED
          BY <4>1, <5>1
      <4> QED
        BY <4>1, <4>2, <4>3
    <3> QED
      BY <1>1, <2>2, <3>1, <3>2
  <2>7. 59 <= h \div u
    BY <2>5, <2>6, QuotientBounds
  <2> QED
    BY <2>5, <2>6, <2>7
<1>5. PICK o \in 0..100, i \in 0..100, k \in 0..100 : ScoreIs(c, z, sig, o, i, k)
  BY <1>1, ScoreFacts
<1> USE DEF ScoreIs
<1>6. i >= 59 /\ o >= 35
  BY <1>3, <1>4, <1>5
<1>7. (3 * i + 2 * k) \div 5 >= 35 /\ (5 * o + 3 * i + 2 * k) \div 10 >= 35
  BY <1>6
<1> QED
  BY <1>5, <1>7

(* The cars in sight, and which of them is taken for the protected one.    *)
LEMMA SceneFacts ==
    \A cars \in VE!Scenes :
       \/ cars = <<>>
       \/ Len(cars) = 1 /\ DOMAIN cars = {1} /\ cars[1] \in Cars /\ cars # <<>>
       \/ Len(cars) = 2 /\ DOMAIN cars = {1, 2} /\ cars[1] \in Cars /\ cars[2] \in Cars /\ cars # <<>>
<1> SUFFICES ASSUME NEW cars \in VE!Scenes, cars # <<>>
             PROVE  \/ Len(cars) = 1 /\ DOMAIN cars = {1} /\ cars[1] \in Cars
                    \/ Len(cars) = 2 /\ DOMAIN cars = {1, 2} /\ cars[1] \in Cars /\ cars[2] \in Cars
  OBVIOUS
<1>1. CASE \E c \in Cars : cars = <<c>>
  <2>1. PICK c \in Cars : cars = <<c>>
    BY <1>1
  <2>2. Len(cars) = 1 /\ DOMAIN cars = {1} /\ cars[1] = c
    BY <2>1
  <2> QED
    BY <2>1, <2>2
<1>2. CASE \E c \in VE!Mine, d \in VE!Theirs : cars = <<c, d>>
  <2>1. PICK c \in Cars, d \in Cars : cars = <<c, d>>
    BY <1>2 DEF Cars
  <2>2. Len(cars) = 2 /\ DOMAIN cars = {1, 2} /\ cars[1] = c /\ cars[2] = d
    BY <2>1
  <2> QED
    BY <2>1, <2>2
<1>3. (\E c \in Cars : cars = <<c>>) \/ (\E c \in VE!Mine, d \in VE!Theirs : cars = <<c, d>>)
  BY DEF VE!Scenes, Cars
<1> QED
  BY <1>1, <1>2, <1>3

Evidence(z, sig) == z # VE!NoZone \/ VE!Established(sig)
LEMMA MatchFacts ==
    ASSUME NEW cars \in VE!Scenes, NEW z \in {VE!NoZone, VE!Spot}, NEW sig, VE!Fits(sig)
    PROVE  LET id == VE!IdentifyProtectedVehicle(cars, z, sig)
           IN /\ id.car = 0 \/ (id.car \in DOMAIN cars /\ cars[id.car] \in Cars)
              /\ id.confidence \in Int
              /\ ~Evidence(z, sig) => id.confidence < 60
              /\ Evidence(z, sig) /\ id.car # 0 =>
                    /\ VE!Score(cars[id.car], z, sig) >= 35
                    /\ id.confidence <= VE!Score(cars[id.car], z, sig)
<1> DEFINE id == VE!IdentifyProtectedVehicle(cars, z, sig)
           score == [i \in DOMAIN cars |-> VE!Score(cars[i], z, sig)]
           size == [i \in DOMAIN cars |-> VE!Length(cars[i])]
           first(key) == CHOOSE i \in DOMAIN cars :
                             \A j \in DOMAIN cars : key[j] < key[i] \/ (key[j] = key[i] /\ i <= j)
           second(best) == VE!Max({0} \union {score[i] : i \in DOMAIN cars \ {best}})
           lead(best) == IF score[best] = 0 THEN 100
                         ELSE ((score[best] - second(best)) * 100) \div score[best]
<1>1. /\ cars = <<>> => id = [car |-> 0, confidence |-> 0]
      /\ cars # <<>> /\ ~Evidence(z, sig) =>
            id = [car |-> first(size), confidence |-> IF Len(cars) = 1 THEN 55 ELSE 30]
      /\ cars # <<>> /\ Evidence(z, sig) =>
            id = IF score[first(score)] < 35 THEN [car |-> 0, confidence |-> 0]
                 ELSE [car |-> first(score),
                       confidence |-> (score[first(score)] * (3500 + 65 * lead(first(score)))) \div 10000]
  BY DEF VE!IdentifyProtectedVehicle, Evidence, VE!NoCar, VE!MinMatchScore
<1>2. \A key : (\A i \in DOMAIN cars : key[i] \in Int) /\ cars # <<>> => first(key) \in DOMAIN cars
  <2> SUFFICES ASSUME NEW key, \A i \in DOMAIN cars : key[i] \in Int, cars # <<>>
               PROVE  \E i \in DOMAIN cars :
                          \A j \in DOMAIN cars : key[j] < key[i] \/ (key[j] = key[i] /\ i <= j)
    OBVIOUS
  <2>1. CASE DOMAIN cars = {1}
    BY <2>1
  <2>2. CASE DOMAIN cars = {1, 2}
    BY <2>2
  <2> QED
    BY <2>1, <2>2, SceneFacts
<1>3. \A i \in DOMAIN cars : cars[i] \in Cars
  BY SceneFacts
<1>4. \A i \in DOMAIN cars : score[i] = VE!Score(cars[i], z, sig) /\ score[i] \in 0..100
  BY <1>3, ScoreFacts
<1>5. \A i \in DOMAIN cars : size[i] \in Int
  <2> SUFFICES ASSUME NEW i \in DOMAIN cars PROVE VE!Length(cars[i]) \in Int
    OBVIOUS
  <2>1. cars[i].left \in Int /\ cars[i].right \in Int /\ cars[i].left <= cars[i].right
    BY <1>3, CarPlaces
  <2> QED
    BY <2>1, BoxFacts
<1>6. \A best \in DOMAIN cars : second(best) \in 0..100
  <2> SUFFICES ASSUME NEW best \in DOMAIN cars PROVE second(best) \in 0..100
    OBVIOUS
  <2> DEFINE rest == {score[i] : i \in DOMAIN cars \ {best}}
  <2> HIDE DEF score
  <2>1. rest = {} \/ \E v \in 0..100 : rest = {v}
    <3>1. CASE DOMAIN cars = {1}
      BY <3>1
    <3>2. CASE DOMAIN cars = {1, 2}
      <4>1. CASE best = 1
        <5>1. rest = {score[2]} /\ score[2] \in 0..100
          BY <1>4, <3>2, <4>1
        <5> QED
          BY <5>1
      <4>2. CASE best = 2
        <5>1. rest = {score[1]} /\ score[1] \in 0..100
          BY <1>4, <3>2, <4>2
        <5> QED
          BY <5>1
      <4> QED
        BY <3>2, <4>1, <4>2
    <3>3. cars # <<>>
      OBVIOUS
    <3> HIDE DEF rest
    <3>4. DOMAIN cars = {1} \/ DOMAIN cars = {1, 2}
      BY <3>3, SceneFacts
    <3> QED
      BY <3>1, <3>2, <3>4
  <2>2. second(best) = VE!Max({0} \union rest)
    OBVIOUS
  <2> HIDE DEF rest, second
  <2>3. PICK v \in 0..100 : {0} \union rest = {0, v}
    <3>1. CASE rest = {}
      <4>1. {0} \union rest = {0, 0} /\ 0 \in 0..100
        BY <3>1
      <4> QED
        BY <4>1
    <3>2. CASE \E v \in 0..100 : rest = {v}
      BY <3>2
    <3> QED
      BY <2>1, <3>1, <3>2
  <2>4. VE!Max({0, v}) \in 0..100
    BY TwoOf
  <2> QED
    BY <2>2, <2>3, <2>4
<1> HIDE DEF id, score, size, first, second
<1>7. CASE cars = <<>>
  <2>1. id.car = 0 /\ id.confidence = 0
    BY <1>1, <1>7
  <2> QED
    BY <2>1 DEF id
<1>8. CASE cars # <<>> /\ ~Evidence(z, sig)
  <2>1. id.car = first(size) /\ id.confidence \in {55, 30}
    BY <1>1, <1>8
  <2>2. first(size) \in DOMAIN cars
    BY <1>2, <1>5, <1>8
  <2> QED
    BY <1>3, <1>8, <2>1, <2>2 DEF id
<1>9. CASE cars # <<>> /\ Evidence(z, sig)
  <2>1. PICK best \in DOMAIN cars : best = first(score)
    <3>1. \A i \in DOMAIN cars : score[i] \in Int
      BY <1>4
    <3>2. PICK key : key = score
      OBVIOUS
    <3> HIDE DEF score
    <3>3. \A i \in DOMAIN cars : key[i] \in Int
      BY <3>1, <3>2
    <3> HIDE DEF first
    <3>4. first(key) \in DOMAIN cars
      BY <1>2, <1>9, <3>3, SMTT(30)
    <3> QED
      BY <3>2, <3>4
  <2>2. PICK sc \in 0..100, sd \in 0..100 : sc = score[best] /\ sd = second(best)
    BY <1>4, <1>6
  <2>3. CASE sc < 35
    <3>1. id.car = 0 /\ id.confidence = 0
      BY <1>1, <1>9, <2>1, <2>2, <2>3
    <3> QED
      BY <1>9, <3>1 DEF id
  <2>4. CASE sc >= 35
    <3>1. PICK ld \in Int : ld = lead(best) /\ ld <= 100
      <4>1. lead(best) = ((sc - sd) * 100) \div sc
        BY <2>2, <2>4
      <4>2. ((sc - sd) * 100) \div sc \in Int
        BY <2>4
      <4>3. ((sc - sd) * 100) \div sc <= 100
        <5>1. PICK h \in Int : h = (sc - sd) * 100 /\ h < (100 + 1) * sc
          BY <2>4
        <5>2. h \div sc <= 100
          BY <2>4, <5>1, QuotientBounds
        <5> QED
          BY <5>1, <5>2
      <4> QED
        BY <4>1, <4>2, <4>3
    <3> HIDE DEF lead
    <3>2. id.car = best /\ id.confidence = (sc * (3500 + 65 * ld)) \div 10000
      <4>1. ~(score[best] < 35)
        BY <2>2, <2>4
      <4> QED
        BY <1>1, <1>9, <2>1, <2>2, <3>1, <4>1
    <3>3. PICK h \in Int : h = sc * (3500 + 65 * ld) /\ h <= sc * 10000
      <4>1. 3500 + 65 * ld <= 10000
        BY <3>1
      <4>2. \A x, y \in Int : x <= y => sc * x <= sc * y
        OBVIOUS
      <4> QED
        BY <3>1, <4>1, <4>2
    <3>4. h \div 10000 \in Int /\ h \div 10000 <= sc
      BY <3>3
    <3>5. VE!Score(cars[best], z, sig) = sc
      BY <1>4, <2>2
    <3> HIDE DEF score
    <3>6. /\ id.car \in DOMAIN cars /\ cars[id.car] \in Cars /\ id.confidence \in Int
          /\ VE!Score(cars[id.car], z, sig) >= 35 /\ id.confidence <= VE!Score(cars[id.car], z, sig)
      <4> HIDE DEF id
      <4> QED
        BY <1>3, <2>4, <3>2, <3>3, <3>4, <3>5
    <3> QED
      BY <1>9, <3>6 DEF id
  <2> QED
    BY <2>2, <2>3, <2>4
<1> QED
  BY <1>7, <1>8, <1>9

(* The car itself, alone in a spot that has been learned, is recognised.   *)
LEMMA OwnIsFound ==
    ASSUME NEW c \in VE!Mine, NEW z \in {VE!NoZone, VE!Spot},
           NEW sig, VE!Fits(sig), NEW taught \in {0, 1}, VE!Near(sig, taught), VE!Established(sig)
    PROVE  VE!IdentifyProtectedVehicle(<<c>>, z, sig).car = 1
<1> DEFINE cars == <<c>>
           score == [i \in DOMAIN cars |-> VE!Score(cars[i], z, sig)]
           best == CHOOSE i \in DOMAIN cars :
                        \A j \in DOMAIN cars : score[j] < score[i] \/ (score[j] = score[i] /\ i <= j)
<1>1. VE!IdentifyProtectedVehicle(cars, z, sig).car = IF score[best] < 35 THEN 0 ELSE best
  BY DEF VE!IdentifyProtectedVehicle, VE!NoCar, VE!MinMatchScore
<1>2. VE!Score(c, z, sig) \in Int /\ VE!Score(c, z, sig) >= 35
  <2>1. VE!Score(c, z, sig) \in 0..100
    <3>1. c \in Cars
      BY DEF Cars
    <3> QED
      BY <3>1, ScoreFacts
  <2>2. VE!Score(c, z, sig) >= 35
    BY OwnScore
  <2> QED
    BY <2>1, <2>2
<1>3. DOMAIN cars = {1} /\ cars[1] = c
  OBVIOUS
<1>4. score[1] = VE!Score(c, z, sig)
  BY <1>3
<1>5. best = 1
  <2> HIDE DEF score
  <2> QED
    BY <1>2, <1>3, <1>4
<1>6. ~(score[best] < 35)
  BY <1>2, <1>4, <1>5
<1> HIDE DEF score, best
<1> QED
  BY <1>1, <1>5, <1>6, Zenon

(* A weighted step from what is remembered towards what is seen.           *)
Within(x, lo, hi) == x \in lo..hi
Step(old, new, n) == (old * (n - 1) + new) \div n
LEMMA Towards ==
    \A old, new, lo, hi \in Int : \A n \in Nat \ {0} :
        lo <= old /\ old <= hi /\ lo <= new /\ new <= hi => Within(Step(old, new, n), lo, hi)
<1> SUFFICES ASSUME NEW old \in Int, NEW new \in Int, NEW n \in Nat \ {0}, NEW lo \in Int, NEW hi \in Int,
                    lo <= old, old <= hi, lo <= new, new <= hi
             PROVE  (old * (n - 1) + new) \div n \in lo..hi
  BY DEF Step, Within
<1>1. PICK m \in Nat : n = m + 1
  <2>1. n - 1 \in Nat /\ n = (n - 1) + 1
    OBVIOUS
  <2> QED
    BY <2>1
<1>2. lo * m <= old * m /\ old * m <= hi * m
  OBVIOUS
<1>3. PICK h \in Int : h = old * (n - 1) + new
  OBVIOUS
<1>4. lo * n <= h /\ h < (hi + 1) * n
  <2>1. n - 1 = m
    BY <1>1
  <2>2. PICK x \in Int, y \in Int, w \in Int : x = lo * m /\ y = hi * m /\ w = old * m
    OBVIOUS
  <2>3. h = w + new
    BY <1>3, <2>1, <2>2
  <2>4. lo * n = x + lo /\ (hi + 1) * n = y + m + hi + 1
    BY <1>1, <2>2
  <2> QED
    BY <1>1, <1>2, <2>2, <2>3, <2>4
<1>5. h \div n \in Int /\ lo <= h \div n /\ h \div n <= hi
  BY <1>4, Quotient, QuotientBounds
<1> QED
  BY <1>3, <1>5

LEMMA TowardsGrows ==
    \A o1, o2, v1, v2 \in Int : \A n \in Nat \ {0} :
        o1 <= o2 /\ v1 <= v2 => Step(o1, v1, n) <= Step(o2, v2, n)
<1> SUFFICES ASSUME NEW o1 \in Int, NEW o2 \in Int, NEW v1 \in Int, NEW v2 \in Int, NEW n \in Nat \ {0},
                    o1 <= o2, v1 <= v2
             PROVE  (o1 * (n - 1) + v1) \div n <= (o2 * (n - 1) + v2) \div n
  BY DEF Step
<1>1. PICK m \in Nat : m = n - 1
  OBVIOUS
<1>2. o1 * m <= o2 * m
  OBVIOUS
<1>3. PICK a \in Int, b \in Int : a = o1 * (n - 1) + v1 /\ b = o2 * (n - 1) + v2 /\ a <= b
  BY <1>1, <1>2
<1>4. PICK q \in Int : q = a \div n /\ q * n <= a
  BY Quotient
<1>5. q * n <= b
  BY <1>3, <1>4
<1>6. q <= b \div n
  BY <1>5, QuotientBounds
<1> QED
  BY <1>3, <1>4, <1>6

LEMMA BlendIs ==
    ASSUME NEW sig, VE!Fits(sig), sig # VE!NoSignature, NEW c \in Cars
    PROVE  \E n \in Nat \ {0} :
              /\ n >= 4 /\ n >= sig.samples + 1 /\ (n = 4 \/ n = sig.samples + 1)
              /\ VE!Blend(sig, c) = [left |-> Step(sig.left, c.left, n),
                                     right |-> Step(sig.right, c.right, n),
                                     silver |-> Step(sig.silver, c.silver, n),
                                     samples |-> sig.samples + 1]
<1>1. PICK k \in Nat : k = sig.samples
  BY FitsFacts
<1>2. PICK n \in Nat \ {0} : n = (IF 4 >= k + 1 THEN 4 ELSE k + 1)
  OBVIOUS
<1>3. VE!Max({4, sig.samples + 1}) = n
  <2>1. k + 1 \in Int
    OBVIOUS
  <2> QED
    BY <1>1, <1>2, <2>1, TwoOf
<1>4. VE!Blend(sig, c) = [left |-> Step(sig.left, c.left, n),
                          right |-> Step(sig.right, c.right, n),
                          silver |-> Step(sig.silver, c.silver, n),
                          samples |-> sig.samples + 1]
  BY <1>3 DEF VE!Blend, Step
<1>5. n >= 4 /\ n >= sig.samples + 1 /\ (n = 4 \/ n = sig.samples + 1)
  BY <1>1, <1>2
<1> QED
  BY <1>4, <1>5

LEMMA BlendFits ==
    ASSUME NEW sig, VE!Fits(sig), sig # VE!NoSignature, NEW c \in Cars
    PROVE  VE!Fits(VE!Blend(sig, c)) /\ VE!Blend(sig, c).samples = sig.samples + 1
<1>1. PICK n \in Nat \ {0} :
         VE!Blend(sig, c) = [left |-> Step(sig.left, c.left, n),
                             right |-> Step(sig.right, c.right, n),
                             silver |-> Step(sig.silver, c.silver, n),
                             samples |-> sig.samples + 1]
  BY BlendIs
<1>2. PICK sl \in 0..430, sr \in 0..610, ss \in 0..8, k \in Nat :
         sl = sig.left /\ sr = sig.right /\ ss = sig.silver /\ k = sig.samples /\ sl <= sr
  BY FitsNumbers, ZenonT(60)
<1>3. PICK cl \in 240..430, cr \in 420..610, cs \in {0, 8} :
         cl = c.left /\ cr = c.right /\ cs = c.silver /\ cl <= cr
  BY CarNumbers, ZenonT(60)
<1>4. Within(Step(sl, cl, n), 0, 430)
  BY Towards
<1>5. Within(Step(sr, cr, n), 0, 610)
  BY Towards
<1>6. Within(Step(ss, cs, n), 0, 8)
  BY Towards
<1>7. Step(sl, cl, n) <= Step(sr, cr, n)
  BY <1>2, <1>3, TowardsGrows
<1>8. PICK x \in 0..430, y \in 0..610, w \in 0..8 :
         x <= y /\ VE!Blend(sig, c) = [left |-> x, right |-> y, silver |-> w, samples |-> k + 1]
  BY <1>1, <1>2, <1>3, <1>4, <1>5, <1>6, <1>7, ZenonT(60) DEF Within
<1>9. [left |-> x, right |-> y, silver |-> w, samples |-> k + 1] \in VE!Signatures
  BY DEF VE!Signatures, VE!Shades
<1> QED
  BY <1>2, <1>8, <1>9 DEF VE!Fits

(* How far right the remembered spot can reach: the car itself draws it    *)
(* back, and one van does not carry it to the neighbour's.                 *)
LEMMA BlendNear ==
    ASSUME NEW sig, VE!Fits(sig), sig # VE!NoSignature, NEW c \in Cars, NEW taught \in {0, 1},
           VE!Near(sig, taught)
    PROVE  /\ c.whose = "mine" => VE!Near(VE!Blend(sig, c), taught)
           /\ c.whose = "van" /\ taught = 0 => VE!Near(VE!Blend(sig, c), 1)
<1>1. PICK n \in Nat \ {0} :
         /\ n >= 4 /\ (n = 4 \/ n = sig.samples + 1)
         /\ VE!Blend(sig, c) = [left |-> Step(sig.left, c.left, n),
                                right |-> Step(sig.right, c.right, n),
                                silver |-> Step(sig.silver, c.silver, n),
                                samples |-> sig.samples + 1]
  BY BlendIs
<1>2. PICK sl \in Int, sr \in Int, k \in Nat :
         /\ sl = sig.left /\ sr = sig.right /\ k = sig.samples
         /\ sl \in 240..260 /\ sr >= 420 /\ k >= 1
         /\ sr <= IF taught = 0 THEN 440 ELSE VE!WidestRight(k)
  <2>1. sig.left \in Int /\ sig.right \in Int /\ sig.samples \in Nat /\ sig.samples >= 1
    BY FitsFacts
  <2>2. /\ sig.left \in 240..260 /\ sig.right >= 420
        /\ sig.right <= IF taught = 0 THEN 440 ELSE VE!WidestRight(sig.samples)
    BY DEF VE!Near
  <2> QED
    BY <2>1, <2>2
<1>3. PICK cl \in Int, cr \in Int : cl = c.left /\ cr = c.right
  <2>1. c.left \in Int /\ c.right \in Int
    BY CarPlaces
  <2> QED
    BY <2>1
<1>4. /\ VE!Blend(sig, c).left = Step(sl, cl, n)
      /\ VE!Blend(sig, c).right = Step(sr, cr, n)
      /\ VE!Blend(sig, c).samples = k + 1
  BY <1>1, <1>2, <1>3
<1>5. /\ VE!WidestRight(1) = 600 /\ VE!WidestRight(2) = 560 /\ VE!WidestRight(3) = 530 /\ VE!WidestRight(4) = 507
      /\ \A j \in Nat : j >= 4 => VE!WidestRight(j) = 507
      /\ \A j \in Nat : j >= 1 => VE!WidestRight(j) \in 507..600
  BY DEF VE!WidestRight
<1>6. CASE c.whose = "mine"
  <2>1. cl \in 240..260 /\ cr \in 420..440
    <3>1. (c.left = 240 /\ c.right = 420) \/ (c.left = 260 /\ c.right = 440)
      BY <1>6, CarFacts
    <3> QED
      BY <1>3, <3>1
  <2>2. Within(Step(sl, cl, n), 240, 260)
    <3>1. 240 <= sl /\ sl <= 260 /\ 240 <= cl /\ cl <= 260
      BY <1>2, <2>1
    <3> QED
      BY <3>1, Towards
  <2>3. sr <= 600
    BY <1>2, <1>5
  <2>4. Within(Step(sr, cr, n), 420, 600)
    <3>1. 420 <= sr /\ sr <= 600 /\ 420 <= cr /\ cr <= 600
      BY <1>2, <2>1, <2>3
    <3> QED
      BY <3>1, Towards
  <2>5. CASE taught = 0
    <3>1. Within(Step(sr, cr, n), 420, 440)
      <4>1. 420 <= sr /\ sr <= 440 /\ 420 <= cr /\ cr <= 440
        BY <1>2, <2>1, <2>5
      <4> QED
        BY <4>1, Towards
    <3>2. PICK x \in 240..260, y \in 420..440 : VE!Blend(sig, c).left = x /\ VE!Blend(sig, c).right = y
      BY <1>4, <2>2, <3>1 DEF Within
    <3>3. VE!Near(VE!Blend(sig, c), taught)
      BY <2>5, <3>2 DEF VE!Near
    <3> QED
      BY <1>6, <3>3
  <2>6. CASE taught = 1
    <3>1. Step(sr, cr, n) <= VE!WidestRight(k + 1)
      <4>1. CASE k \in {1, 2, 3}
        <5>1. n = 4
          BY <1>1, <1>2, <4>1
        <5>2. (sr * 3 + cr) \div 4 <= VE!WidestRight(k + 1)
          <6>1. CASE k = 1
            BY <1>2, <1>5, <2>1, <2>6, <6>1
          <6>2. CASE k = 2
            BY <1>2, <1>5, <2>1, <2>6, <6>2
          <6>3. CASE k = 3
            BY <1>2, <1>5, <2>1, <2>6, <6>3
          <6> QED
            BY <4>1, <6>1, <6>2, <6>3
        <5> QED
          BY <5>1, <5>2 DEF Step
      <4>2. CASE k >= 4
        <5>1. VE!WidestRight(k) = 507 /\ VE!WidestRight(k + 1) = 507
          BY <1>5, <4>2
        <5>2. sr <= 507
          BY <1>2, <2>6, <5>1
        <5>3. Within(Step(sr, cr, n), 420, 507)
          <6>1. 420 <= sr /\ sr <= 507 /\ 420 <= cr /\ cr <= 507
            BY <1>2, <2>1, <5>2
          <6> QED
            BY <6>1, Towards
        <5> QED
          BY <5>1, <5>3 DEF Within
      <4> QED
        BY <1>2, <4>1, <4>2
    <3> QED
      BY <1>4, <2>2, <2>4, <2>6, <3>1 DEF VE!Near, Within
  <2> QED
    BY <1>6, <2>5, <2>6
<1>7. CASE c.whose = "van" /\ taught = 0
  <2>1. cl = 240 /\ cr = 600
    BY <1>3, <1>7, CarFacts
  <2>2. Within(Step(sl, cl, n), 240, 260)
    <3>1. 240 <= sl /\ sl <= 260 /\ 240 <= cl /\ cl <= 260
      BY <1>2, <2>1
    <3> QED
      BY <3>1, Towards
  <2>3. Within(Step(sr, cr, n), 420, 600)
    BY <1>2, <1>7, <2>1, Towards
  <2>4. Step(sr, cr, n) <= 480
    <3>1. PICK m \in Nat : m = n - 1 /\ n = m + 1 /\ m >= 3
      BY <1>1
    <3>2. sr * m <= 440 * m
      BY <1>2, <1>7
    <3>3. PICK h \in Int : h = sr * (n - 1) + cr /\ h < (480 + 1) * n
      <4>1. sr * (n - 1) + cr = sr * m + 600
        BY <2>1, <3>1
      <4>2. sr * m + 600 < (480 + 1) * (m + 1)
        BY <3>1, <3>2
      <4> QED
        BY <3>1, <4>1, <4>2
    <3>4. h \div n <= 480
      BY <3>3, QuotientBounds
    <3> QED
      BY <3>3, <3>4 DEF Step
  <2>5. Step(sr, cr, n) <= VE!WidestRight(k + 1)
    <3>1. VE!WidestRight(k + 1) \in 507..600
      BY <1>5
    <3> QED
      BY <2>3, <2>4, <3>1 DEF Within
  <2> QED
    BY <1>4, <1>7, <2>2, <2>3, <2>5 DEF VE!Near, Within
<1> QED
  BY <1>6, <1>7

(* What a clip makes of the signature it started from.                     *)
LEMMA LearnFacts ==
    ASSUME NEW cars \in VE!Scenes, NEW z \in {VE!NoZone, VE!Spot}, NEW sig, VE!Fits(sig)
    PROVE  LET id == VE!IdentifyProtectedVehicle(cars, z, sig)
               l == VE!LearnSignature(id, cars, sig)
           IN /\ ~VE!Confident(id) => l = VE!NoSignature
              /\ VE!Confident(id) =>
                    /\ VE!Fits(l) /\ l # VE!NoSignature /\ l.samples = sig.samples + 1
                    /\ cars[id.car] \in Cars
                    /\ Evidence(z, sig) /\ VE!Score(cars[id.car], z, sig) >= 60
<1> DEFINE id == VE!IdentifyProtectedVehicle(cars, z, sig)
           l == VE!LearnSignature(id, cars, sig)
<1> HIDE DEF id
<1>1. ~VE!Confident(id) => l = VE!NoSignature
  BY DEF VE!LearnSignature
<1>2. CASE VE!Confident(id)
  <2>1. id.car # 0 /\ id.confidence >= 60
    BY <1>2 DEF VE!Confident, VE!NoCar, VE!ConfidentThreshold
  <2>2. PICK conf \in Int : conf = id.confidence
    BY MatchFacts DEF id
  <2>3. Evidence(z, sig)
    <3>1. ~Evidence(z, sig) => conf < 60
      BY <2>2, MatchFacts DEF id
    <3> QED
      BY <2>1, <2>2, <3>1
  <2>4. PICK c \in Cars : c = cars[id.car] /\ conf <= VE!Score(c, z, sig)
    <3>1. cars[id.car] \in Cars
      BY <2>1, MatchFacts DEF id
    <3>2. id.confidence <= VE!Score(cars[id.car], z, sig)
      BY <2>1, <2>3, MatchFacts DEF id
    <3> QED
      BY <2>2, <3>1, <3>2
  <2>5. VE!Score(c, z, sig) \in 0..100
    BY ScoreFacts
  <2>6. VE!Score(cars[id.car], z, sig) >= 60
    BY <2>1, <2>2, <2>4, <2>5
  <2>7. PICK k \in Nat : k = sig.samples
    BY FitsFacts
  <2>8. VE!Fits(l) /\ l.samples = sig.samples + 1
    <3>1. CASE sig = VE!NoSignature
      <4>1. l = [left |-> c.left, right |-> c.right, silver |-> c.silver, samples |-> 1]
        BY <1>2, <2>4, <3>1 DEF VE!LearnSignature
      <4>2. PICK cl \in 240..430, cr \in 420..610, cs \in {0, 8} :
               cl = c.left /\ cr = c.right /\ cs = c.silver /\ cl <= cr
        BY CarNumbers, ZenonT(60)
      <4>3. l = [left |-> cl, right |-> cr, silver |-> cs, samples |-> 1]
        BY <4>1, <4>2
      <4>4. cl \in 0..430 /\ cr \in 0..610 /\ cs \in 0..8 /\ 1 \in Nat
        OBVIOUS
      <4> HIDE DEF l
      <4>5. l \in VE!Signatures
        BY <4>3, <4>4 DEF VE!Signatures, VE!Shades
      <4>6. l.left <= l.right /\ l.samples = 1
        BY <4>2, <4>3
      <4>7. sig.samples = 0
        BY <3>1 DEF VE!NoSignature
      <4> QED
        BY <4>5, <4>6, <4>7 DEF VE!Fits
    <3>2. CASE sig # VE!NoSignature
      <4>1. l = VE!Blend(sig, c)
        BY <1>2, <2>4, <3>2 DEF VE!LearnSignature
      <4> HIDE DEF l
      <4> QED
        BY <3>2, <4>1, BlendFits
    <3> QED
      BY <3>1, <3>2
  <2> HIDE DEF l
  <2>9. l # VE!NoSignature
    <3>1. l.samples = k + 1
      BY <2>7, <2>8
    <3>2. VE!NoSignature.samples = 0
      BY DEF VE!NoSignature
    <3> QED
      BY <3>1, <3>2
  <2> QED
    BY <1>2, <2>3, <2>4, <2>6, <2>8, <2>9 DEF l, id
<1> QED
  BY <1>1, <1>2 DEF id

LEMMA LearnNear ==
    ASSUME NEW cars \in VE!Scenes, NEW z \in {VE!NoZone, VE!Spot}, NEW sig, VE!Fits(sig),
           NEW taught \in {0, 1}, VE!Near(sig, taught),
           VE!Confident(VE!IdentifyProtectedVehicle(cars, z, sig))
    PROVE  LET id == VE!IdentifyProtectedVehicle(cars, z, sig)
               l == VE!LearnSignature(id, cars, sig)
           IN /\ cars[id.car].whose = "mine" => VE!Near(l, taught)
              /\ cars[id.car].whose # "mine" /\ taught = 0 => VE!Near(l, 1)
<1> DEFINE id == VE!IdentifyProtectedVehicle(cars, z, sig)
           l == VE!LearnSignature(id, cars, sig)
<1>1. PICK c \in Cars : c = cars[id.car]
  BY LearnFacts
<1>2. Evidence(z, sig) /\ VE!Score(c, z, sig) >= 60
  BY <1>1, LearnFacts
<1>3. c.whose # "neighbour"
  <2> SUFFICES ASSUME c.whose = "neighbour" PROVE FALSE
    OBVIOUS
  <2>1. PICK sc \in 0..100 : sc = VE!Score(c, z, sig)
    BY ScoreFacts
  <2>2. /\ z = VE!Spot => VE!Score(c, z, sig) < 35
        /\ VE!Established(sig) => VE!Score(c, z, sig) < 60
    BY NeighbourScore
  <2> QED
    BY <1>2, <2>1, <2>2 DEF Evidence
<1>4. c.whose \in {"mine", "van"}
  BY <1>3, CarFacts
<1> HIDE DEF id
<1>5. CASE sig = VE!NoSignature
  <2>1. l = [left |-> c.left, right |-> c.right, silver |-> c.silver, samples |-> 1]
    BY <1>1, <1>5 DEF VE!LearnSignature, id
  <2> HIDE DEF l
  <2>2. CASE c.whose = "mine"
    <3>1. (c.left = 240 /\ c.right = 420) \/ (c.left = 260 /\ c.right = 440)
      BY <2>2, CarFacts
    <3>2. l.left \in 240..260 /\ l.right \in 420..440 /\ l.samples = 1
      BY <2>1, <3>1
    <3>3. VE!WidestRight(1) = 600
      BY DEF VE!WidestRight
    <3>4. VE!Near(l, taught)
      BY <3>2, <3>3 DEF VE!Near
    <3> QED
      BY <1>1, <2>2, <3>4 DEF l, id
  <2>3. CASE c.whose = "van"
    <3>1. c.left = 240 /\ c.right = 600
      BY <2>3, CarFacts
    <3>2. l.left = 240 /\ l.right = 600 /\ l.samples = 1
      BY <2>1, <3>1
    <3>3. VE!WidestRight(1) = 600
      BY DEF VE!WidestRight
    <3>4. VE!Near(l, 1)
      BY <3>2, <3>3 DEF VE!Near
    <3> QED
      BY <1>1, <2>3, <3>4 DEF l, id
  <2> QED
    BY <1>4, <2>2, <2>3
<1>6. CASE sig # VE!NoSignature
  <2>1. l = VE!Blend(sig, c)
    BY <1>1, <1>6 DEF VE!LearnSignature, id
  <2> HIDE DEF l
  <2> QED
    BY <1>1, <1>4, <1>6, <2>1, BlendNear DEF l, id
<1> QED
  BY <1>5, <1>6 DEF id

LEMMA NearIsWide == \A sig, taught : VE!Fits(sig) /\ VE!Near(sig, 0) => VE!Near(sig, 1)
<1> SUFFICES ASSUME NEW sig, VE!Fits(sig), VE!Near(sig, 0), sig # VE!NoSignature PROVE VE!Near(sig, 1)
  BY DEF VE!Near
<1>1. sig.samples \in Nat /\ sig.right \in Int
  BY FitsFacts
<1>2. VE!WidestRight(sig.samples) \in 507..600
  BY <1>1 DEF VE!WidestRight
<1> QED
  BY <1>1, <1>2 DEF VE!Near

LEMMA NoSignatureFacts ==
    /\ VE!Fits(VE!NoSignature) /\ VE!NoSignature.samples = 0
    /\ \A taught : VE!Near(VE!NoSignature, taught)
BY DEF VE!Fits, VE!Signatures, VE!NoSignature, VE!Shades, VE!Near

LEMMA VehiclesInit == ASSUME VehicleBounds, VE!Init PROVE VE!IInv
<1>1. s7 \in VE!Scenes
  BY DEF VE!Init, VE!Scenes
<1>2. /\ s1 \in {VE!NoZone, VE!Spot} /\ s12 \in {VE!NoZone, VE!Spot} /\ s2 \in {VE!NoZone, VE!Spot}
      /\ s3 = VE!NoSignature /\ s4 = VE!NoSignature /\ s5 = VE!NoSignature
      /\ s8 = 0 /\ s11 = 0 /\ s6 = "idle"
  BY DEF VE!Init
<1> QED
  BY <1>1, <1>2, NoSignatureFacts DEF VE!IInv, VE!VehiclesShape, VE!MarkedSpotIsKept, VehicleBounds

LEMMA TakeZoneStep == ASSUME VehicleBounds, VE!IInv, VE!TakeZone PROVE VE!IInv'
<1>1. PICK n \in 0..VehicleClips : n = s8 /\ n + 1 \in 0..VehicleClips
  BY DEF VE!TakeZone, VE!IInv, VE!VehiclesShape, VehicleBounds
<1>2. /\ s12' = s1 /\ s6 = "idle" /\ s6' = "started" /\ s8' = n + 1
      /\ UNCHANGED <<s1, s2, s3, s4, s5, s7, s11>>
  BY <1>1 DEF VE!TakeZone
<1>3. PICK p \in Nat, q \in Nat : p = s3.samples /\ q = s4.samples /\ p <= n /\ q <= n
  BY <1>1, <1>2, FitsFacts DEF VE!IInv, VE!VehiclesShape
<1>4. (VE!VehiclesShape)'
  <2>1. s3'.samples <= s8' - 1 /\ s4'.samples <= s8' - 1
    BY <1>1, <1>2, <1>3
  <2> QED
    BY <1>1, <1>2, <2>1 DEF VE!IInv, VE!VehiclesShape
<1>5. (VE!MarkedSpotIsKept)'
  BY <1>2 DEF VE!IInv, VE!MarkedSpotIsKept
<1> QED
  BY <1>4, <1>5 DEF VE!IInv

LEMMA LoadedStep ==
    ASSUME VehicleBounds, VE!IInv, NEW found \in BOOLEAN, VE!LoadSignature(found) PROVE VE!IInv'
<1>1. /\ s4' \in {s3, VE!NoSignature} /\ s6 = "started" /\ s6' = "loaded"
      /\ UNCHANGED <<s1, s2, s3, s5, s7, s8, s11, s12>>
  BY DEF VE!LoadSignature
<1>2. PICK n \in 0..VehicleClips, p \in Nat : n = s8 /\ p = s3.samples /\ p <= n - 1
  BY <1>1, FitsFacts DEF VE!IInv, VE!VehiclesShape
<1>3. (VE!VehiclesShape)'
  <2>1. VE!Fits(s4') /\ s4'.samples <= s8 - 1
    BY <1>1, <1>2, NoSignatureFacts DEF VE!IInv, VE!VehiclesShape
  <2>2. VE!Fits(s4)'
    BY <2>1 DEF VE!Fits
  <2>3. (VE!Fits(s3))' /\ s3'.samples <= s8' - 1
    BY <1>1, <1>2 DEF VE!IInv, VE!VehiclesShape, VE!Fits
  <2> QED
    BY <1>1, <2>1, <2>2, <2>3 DEF VE!IInv, VE!VehiclesShape
<1>4. (VE!MarkedSpotIsKept)'
  BY <1>1, NoSignatureFacts DEF VE!IInv, VE!MarkedSpotIsKept
<1> QED
  BY <1>3, <1>4 DEF VE!IInv

LEMMA IdentifyStep ==
    ASSUME VehicleBounds, VE!IInv, NEW cars \in VE!Scenes, VE!Identify(cars) PROVE VE!IInv'
<1>1. /\ s7' = cars /\ s6 = "loaded" /\ s6' = "identified"
      /\ s5' = VE!LearnSignature(VE!IdentifyProtectedVehicle(cars, s12, s4), cars, s4)
      /\ UNCHANGED <<s1, s2, s3, s4, s8, s11, s12>>
  BY DEF VE!Identify
<1>2. s5' = VE!LearnSignature(VE!IdentifyProtectedVehicle(s7', s12', s4'), s7', s4')
  BY <1>1
<1>3. (VE!VehiclesShape)'
  <2>1. (VE!Fits(s3))' /\ (VE!Fits(s4))'
    BY <1>1 DEF VE!IInv, VE!VehiclesShape
  <2>2. s3'.samples <= s8' - 1 /\ s4'.samples <= s8' - 1
    BY <1>1 DEF VE!IInv, VE!VehiclesShape
  <2> QED
    BY <1>1, <1>2, <2>1, <2>2 DEF VE!IInv, VE!VehiclesShape, VE!Protected
<1>4. (VE!MarkedSpotIsKept)'
  BY <1>1 DEF VE!IInv, VE!MarkedSpotIsKept
<1> QED
  BY <1>3, <1>4 DEF VE!IInv

LEMMA StoreStep ==
    ASSUME VehicleBounds, VE!IInv, NEW saved \in BOOLEAN, VE!StoreSignature(saved) PROVE VE!IInv'
<1>1. /\ s6 = "identified" /\ s6' = "idle"
      /\ s3' = IF s5 # VE!NoSignature /\ saved THEN s5 ELSE s3
      /\ s11' = IF VE!TaughtByAnother /\ saved THEN s11 + 1 ELSE s11
      /\ s12' = VE!NoZone /\ s4' = VE!NoSignature /\ s5' = VE!NoSignature /\ s7' = <<>>
      /\ UNCHANGED <<s1, s2, s8>>
  BY DEF VE!StoreSignature
<1>2. /\ s7 \in VE!Scenes /\ s12 \in {VE!NoZone, VE!Spot} /\ VE!Fits(s3) /\ VE!Fits(s4)
      /\ s5 = VE!LearnSignature(VE!Protected, s7, s4) /\ s11 \in Nat
      /\ s3.samples <= s8 - 1 /\ s4.samples <= s8 - 1 /\ s8 \in 0..VehicleClips
  BY <1>1 DEF VE!IInv, VE!VehiclesShape
<1>3. /\ ~VE!Confident(VE!Protected) => s5 = VE!NoSignature
      /\ VE!Confident(VE!Protected) => VE!Fits(s5) /\ s5 # VE!NoSignature /\ s5.samples = s4.samples + 1
  BY <1>2, LearnFacts DEF VE!Protected
<1>4. PICK n \in 0..VehicleClips, p \in Nat, q \in Nat :
         n = s8 /\ p = s3.samples /\ q = s4.samples /\ p <= n - 1 /\ q <= n - 1
  BY <1>2, FitsFacts
<1>5. (VE!VehiclesShape)'
  <2>1. VE!Fits(s3') /\ s3'.samples <= s8
    <3>1. CASE s5 # VE!NoSignature /\ saved
      <4>1. s3' = s5 /\ VE!Fits(s5) /\ s5.samples = q + 1
        BY <1>1, <1>3, <1>4, <3>1
      <4> QED
        BY <1>4, <4>1
    <3>2. CASE ~(s5 # VE!NoSignature /\ saved)
      BY <1>1, <1>2, <1>4, <3>2
    <3> QED
      BY <3>1, <3>2
  <2>2. VE!Fits(s3)'
    BY <2>1 DEF VE!Fits
  <2>3. VE!Fits(s4)' /\ s4'.samples = 0
    BY <1>1, NoSignatureFacts DEF VE!Fits
  <2>4. s7' \in VE!Scenes
    BY <1>1 DEF VE!Scenes
  <2>5. s11' \in Nat
    BY <1>1, <1>2
  <2>6. s1' \in {VE!NoZone, VE!Spot} /\ s2' \in {VE!NoZone, VE!Spot} /\ s12' \in {VE!NoZone, VE!Spot}
    BY <1>1 DEF VE!IInv, VE!VehiclesShape
  <2> QED
    BY <1>1, <1>2, <2>1, <2>2, <2>3, <2>4, <2>5, <2>6 DEF VE!VehiclesShape
<1>6. (VE!MarkedSpotIsKept)'
  <2> SUFFICES ASSUME s11' <= 1 PROVE VE!Near(s3', s11') /\ VE!Near(s4', s11')
    BY DEF VE!MarkedSpotIsKept, VE!Near
  <2>1. s11 <= s11' /\ s11 \in {0, 1} /\ s11' \in {0, 1}
    BY <1>1, <1>2
  <2>2. VE!Near(s3, s11) /\ VE!Near(s4, s11)
    BY <2>1 DEF VE!IInv, VE!MarkedSpotIsKept
  <2>3. VE!Near(s4', s11')
    BY <1>1, NoSignatureFacts
  <2>4. CASE s5 # VE!NoSignature /\ saved
    <3>1. VE!Confident(VE!Protected) /\ s3' = s5
      BY <1>1, <1>3, <2>4
    <3>2. /\ s7[VE!Protected.car].whose = "mine" => VE!Near(s5, s11)
          /\ s7[VE!Protected.car].whose # "mine" /\ s11 = 0 => VE!Near(s5, 1)
      BY <1>2, <2>1, <2>2, <3>1, LearnNear DEF VE!Protected
    <3>3. CASE s7[VE!Protected.car].whose = "mine"
      <4>1. s11' = s11
        BY <1>1, <3>3 DEF VE!TaughtByAnother
      <4> QED
        BY <2>3, <3>1, <3>2, <3>3, <4>1
    <3>4. CASE s7[VE!Protected.car].whose # "mine"
      <4>1. s11' = s11 + 1
        BY <1>1, <2>4, <3>1, <3>4 DEF VE!TaughtByAnother
      <4>2. s11 = 0 /\ s11' = 1
        BY <2>1, <4>1
      <4> QED
        BY <2>3, <3>1, <3>2, <3>4, <4>2
    <3> QED
      BY <3>3, <3>4
  <2>5. CASE ~(s5 # VE!NoSignature /\ saved)
    <3>1. s3' = s3 /\ s11' = s11
      BY <1>1, <1>3, <2>5 DEF VE!TaughtByAnother
    <3> QED
      BY <2>2, <2>3, <3>1
  <2> QED
    BY <2>4, <2>5
<1> QED
  BY <1>5, <1>6 DEF VE!IInv

LEMMA ZoneStep ==
    ASSUME VehicleBounds, VE!IInv, NEW z \in {VE!NoZone, VE!Spot}, NEW written \in BOOLEAN, VE!SetZone(z, written)
    PROVE  VE!IInv'
<1>1. /\ s1' = z /\ s2' \in {z, s2} /\ UNCHANGED <<s3, s4, s5, s6, s7, s8, s11, s12>>
  BY DEF VE!SetZone
<1>2. (VE!VehiclesShape)'
  BY <1>1 DEF VE!IInv, VE!VehiclesShape, VE!Protected
<1>3. (VE!MarkedSpotIsKept)'
  BY <1>1 DEF VE!IInv, VE!MarkedSpotIsKept
<1> QED
  BY <1>2, <1>3 DEF VE!IInv

LEMMA ForgetStep == ASSUME VehicleBounds, VE!IInv, VE!ResetSignature PROVE VE!IInv'
<1>1. s3' = VE!NoSignature /\ UNCHANGED <<s1, s2, s4, s5, s6, s7, s8, s11, s12>>
  BY DEF VE!ResetSignature
<1>2. PICK n \in Int, p \in Nat : n = s8 /\ p = s3.samples /\ p <= IF s6 = "idle" THEN n ELSE n - 1
  BY FitsFacts DEF VE!IInv, VE!VehiclesShape
<1>3. (VE!VehiclesShape)'
  <2>1. s3'.samples = 0 /\ VE!Fits(s3')
    BY <1>1, NoSignatureFacts
  <2>2. (VE!Fits(s3))'
    BY <2>1 DEF VE!Fits
  <2>3. s3'.samples <= IF s6' = "idle" THEN s8' ELSE s8' - 1
    BY <1>1, <1>2, <2>1
  <2> QED
    BY <1>1, <2>2, <2>3 DEF VE!IInv, VE!VehiclesShape, VE!Protected
<1>4. (VE!MarkedSpotIsKept)'
  BY <1>1, NoSignatureFacts DEF VE!IInv, VE!MarkedSpotIsKept
<1> QED
  BY <1>3, <1>4 DEF VE!IInv

LEMMA AgainStep == ASSUME VehicleBounds, VE!IInv, VE!Restart PROVE VE!IInv'
<1>1. /\ s1' = s2 /\ s6' = "idle"
      /\ s12' = VE!NoZone /\ s4' = VE!NoSignature /\ s5' = VE!NoSignature /\ s7' = <<>>
      /\ UNCHANGED <<s2, s3, s8, s11>>
  BY DEF VE!Restart
<1>2. PICK n \in 0..VehicleClips, p \in Nat : n = s8 /\ p = s3.samples /\ p <= n
  <2>1. s8 \in 0..VehicleClips /\ s3.samples \in Nat /\ s3.samples <= IF s6 = "idle" THEN s8 ELSE s8 - 1
    BY FitsFacts DEF VE!IInv, VE!VehiclesShape
  <2> QED
    BY <2>1
<1>3. (VE!VehiclesShape)'
  <2>1. s7' \in VE!Scenes
    BY <1>1 DEF VE!Scenes
  <2>2. (VE!Fits(s4))' /\ s4'.samples = 0
    BY <1>1, NoSignatureFacts DEF VE!Fits
  <2>3. s3'.samples <= s8' /\ s4'.samples <= s8'
    BY <1>1, <1>2, <2>2
  <2>4. (VE!Fits(s3))' /\ s8' \in 0..VehicleClips /\ s11' \in Nat /\ s1' \in {VE!NoZone, VE!Spot}
        /\ s2' \in {VE!NoZone, VE!Spot}
    BY <1>1 DEF VE!IInv, VE!VehiclesShape
  <2> QED
    BY <1>1, <2>1, <2>2, <2>3, <2>4 DEF VE!VehiclesShape
<1>4. (VE!MarkedSpotIsKept)'
  BY <1>1, NoSignatureFacts DEF VE!IInv, VE!MarkedSpotIsKept
<1> QED
  BY <1>3, <1>4 DEF VE!IInv

LEMMA VehiclesStep == ASSUME VehicleBounds, VE!IInv, [VE!Next]_(VE!vehicleVars) PROVE VE!IInv'
<1>1. CASE UNCHANGED VE!vehicleVars
  BY <1>1 DEF VE!vehicleVars, VE!IInv, VE!VehiclesShape, VE!MarkedSpotIsKept, VE!Protected
<1>2. CASE VE!Next
  BY <1>2, TakeZoneStep, LoadedStep, IdentifyStep, StoreStep, ZoneStep, ForgetStep, AgainStep DEF VE!Next
<1> QED
  BY <1>1, <1>2

LEMMA VehiclesSafe ==
    ASSUME VehicleBounds, VE!IInv
    PROVE  VE!VehiclesTypeOK /\ VE!NeighbourIsNotMine /\ VE!SpotSurvivesOneVan
<1>1. VE!VehiclesTypeOK
  <2>1. \A sig : VE!Fits(sig) /\ sig.samples <= s8 =>
            /\ sig.left \in 0..430 /\ sig.right \in sig.left..610 /\ sig.silver \in 0..VE!Shades
            /\ sig.samples \in 0..VehicleClips
    <3> SUFFICES ASSUME NEW sig, VE!Fits(sig), sig.samples <= s8
                 PROVE  /\ sig.left \in 0..430 /\ sig.right \in sig.left..610 /\ sig.silver \in 0..VE!Shades
                        /\ sig.samples \in 0..VehicleClips
      OBVIOUS
    <3>1. s8 \in 0..VehicleClips
      BY DEF VE!IInv, VE!VehiclesShape
    <3>2. /\ sig.left \in 0..430 /\ sig.right \in 0..610 /\ sig.silver \in 0..8 /\ sig.samples \in Nat
          /\ sig.left <= sig.right
      BY FitsFacts
    <3> QED
      BY <3>1, <3>2 DEF VehicleBounds, VE!Shades
  <2>2. PICK n \in Int, p \in Int, q \in Int :
           /\ n = s8 /\ p = s3.samples /\ q = s4.samples
           /\ p <= IF s6 = "idle" THEN n ELSE n - 1
           /\ q <= IF s6 = "idle" THEN n ELSE n - 1
    BY FitsFacts DEF VE!IInv, VE!VehiclesShape
  <2>3. VE!Fits(s3) /\ VE!Fits(s4) /\ s3.samples <= s8 /\ s4.samples <= s8
    BY <2>2 DEF VE!IInv, VE!VehiclesShape
  <2>4. VE!Fits(s5) /\ s5.samples <= s8
    <3>1. CASE s5 = VE!NoSignature
      BY <3>1, NoSignatureFacts DEF VE!IInv, VE!VehiclesShape
    <3>2. CASE s5 # VE!NoSignature
      <4>1. s6 = "identified" /\ s5 = VE!LearnSignature(VE!Protected, s7, s4)
        BY <3>2 DEF VE!IInv, VE!VehiclesShape
      <4>2. s7 \in VE!Scenes /\ s12 \in {VE!NoZone, VE!Spot}
        BY DEF VE!IInv, VE!VehiclesShape
      <4>3. VE!Fits(s5) /\ s5.samples = q + 1
        BY <2>2, <2>3, <3>2, <4>1, <4>2, LearnFacts DEF VE!Protected
      <4> QED
        BY <2>2, <4>1, <4>3
    <3> QED
      BY <3>1, <3>2
  <2>5. s6 = "idle" => s5 = VE!NoSignature
    BY DEF VE!IInv, VE!VehiclesShape
  <2> QED
    BY <2>1, <2>3, <2>4, <2>5 DEF VE!IInv, VE!VehiclesShape, VE!VehiclesTypeOK
<1>2. VE!NeighbourIsNotMine
  <2> SUFFICES ASSUME s6 = "identified", s12 = VE!Spot, s11 <= 1, VE!Protected.car # 0
               PROVE  s7[VE!Protected.car].whose # "neighbour"
    BY DEF VE!NeighbourIsNotMine, VE!NoCar
  <2>1. s7 \in VE!Scenes /\ VE!Fits(s4) /\ s11 \in {0, 1} /\ VE!Near(s4, s11)
    BY DEF VE!IInv, VE!VehiclesShape, VE!MarkedSpotIsKept
  <2>2. Evidence(s12, s4)
    BY DEF Evidence, VE!Spot, VE!NoZone
  <2>3. PICK c \in Cars : c = s7[VE!Protected.car] /\ VE!Score(c, s12, s4) >= 35
    BY <2>1, <2>2, MatchFacts DEF VE!Protected
  <2>4. VE!Score(c, s12, s4) \in 0..100
    BY <2>1, ScoreFacts
  <2>5. c.whose = "neighbour" => VE!Score(c, s12, s4) < 35
    BY <2>1, NeighbourScore
  <2> QED
    BY <2>3, <2>4, <2>5
<1>3. VE!SpotSurvivesOneVan
  <2> SUFFICES ASSUME s6 = "identified", VE!Established(s4), s11 <= 1, NEW c \in VE!Mine
               PROVE  VE!IdentifyProtectedVehicle(<<c>>, s12, s4).car = 1
    BY DEF VE!SpotSurvivesOneVan
  <2>1. s12 \in {VE!NoZone, VE!Spot} /\ VE!Fits(s4) /\ s11 \in {0, 1} /\ VE!Near(s4, s11)
    BY DEF VE!IInv, VE!VehiclesShape, VE!MarkedSpotIsKept
  <2> QED
    BY <2>1, OwnIsFound
<1> QED
  BY <1>1, <1>2, <1>3

(* On a clip that was begun with the spot marked, the car beside it is not *)
(* taken for the protected one while one van at most has taught the        *)
(* signature, and the car that comes back to a learned spot is recognised  *)
(* (identify_protected_vehicle, VehicleSignature.blend in vehicles.py).    *)
(* For any number of clips, edits and faults.                              *)
THEOREM ParkingStaysInOrder == ASSUME VehicleBounds PROVE Spec => []ParkingInOrder
<1> DEFINE Good == which = "vehicles" => VE!IInv
<1>1. Init => Good
  BY VehiclesInit DEF Init
<1>2. Good /\ [Next]_bank => Good'
  <2> SUFFICES ASSUME Good, [Next]_bank PROVE Good'
    OBVIOUS
  <2>1. CASE which = "vehicles"
    <3>1. which' = "vehicles" /\ [VE!Next]_(VE!vehicleVars)
      BY <2>1 DEF Next, bank, VE!vehicleVars
    <3> QED
      BY <2>1, <3>1, VehiclesStep
  <2>2. CASE which # "vehicles"
    <3>1. which' = which
      BY DEF Next, bank
    <3> QED
      BY <2>2, <3>1
  <2> QED
    BY <2>1, <2>2
<1>3. Good => ParkingInOrder
  BY VehiclesSafe DEF ParkingInOrder
<1> QED
  BY <1>1, <1>2, <1>3, PTL DEF Spec

=============================================================================
