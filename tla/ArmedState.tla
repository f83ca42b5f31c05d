------------------------------- MODULE ArmedState ------------------------------
(***************************************************************************)
(* Arming from the Sync Module tab (downloader.py, media_server/           *)
(* sync_module.py).  Blink's own state is read only by a poll's refresh,   *)
(* so an accepted command is shown until a refresh begun after it is       *)
(* complete.  Commands and the refresh overlap, and two may be under way.  *)
(* Moments are kept as ages: how many starts, answers and ticks ago.       *)
(***************************************************************************)
EXTENDS Integers

CONSTANTS Modules, SyncLess, Cameras, Home, \* Modules: those armed as a whole; Home: [camera -> its module]
          Name, Last,                       \* [camera -> name], [name -> the camera merged last]
          Armable,                          \* the keys somebody arms
          Requests,                         \* commands that may be under way at once
          TTL,                              \* _ARMED_OVERRIDE_TTL, in ages
          MaxCommands, MaxElsewhere, MaxRefreshes

VARIABLES truth,     \* at Blink: [flag -> armed]
          reading,   \* as blinkpy last read it
          override,  \* [key -> [armed, age]], age Old when there is none
          refreshed, \* the age of the last complete refresh's start
          refresh,   \* the refresh under way: [on, age, left]
          command,   \* [request -> [step, key, hit, armed, since]]
          fresh,     \* history: what Blink held since it took the last accepted command
          held,      \* history: [flag -> what Blink held since refreshed, since the refresh under way began]
          acts
armedVars == <<truth, reading, override, refreshed, refresh, command, fresh, held, acts>>

ModuleKey(m) == <<m, "">>
CameraKey(c) == <<Home[c], c>>
Keys == {ModuleKey(m) : m \in Modules} \cup {CameraKey(c) : c \in Cameras}
Old == TTL + 1

(* A Mini or a doorbell is its own module, with one flag for both.         *)
Flag(k) == IF k[1] \in SyncLess THEN ModuleKey(k[1]) ELSE k
Flags == {Flag(k) : k \in Keys}
Idle == [step |-> "idle", key |-> CHOOSE k \in Keys : TRUE, hit |-> CHOOSE k \in Keys : TRUE,
         armed |-> FALSE, since |-> {}]

Init ==
    /\ truth \in {[f \in Flags |-> FALSE]} /\ reading = truth
    /\ override = [k \in Keys |-> [armed |-> FALSE, age |-> Old]]
    /\ refreshed = Old /\ refresh = [on |-> FALSE, age |-> Old, left |-> {}]
    /\ command = [r \in Requests |-> Idle]
    /\ fresh = [k \in Keys |-> BOOLEAN] /\ held = [f \in Flags |-> <<BOOLEAN, BOOLEAN>>]
    /\ acts = [commands |-> 0, elsewhere |-> 0, refreshes |-> 0]

-----------------------------------------------------------------------------

(* A refresh that started after the answer is complete, or time is up.     *)
Ended(k) == refreshed <= override[k].age \/ override[k].age > TTL

Shown(k) == IF Ended(k) THEN reading[Flag(k)] ELSE override[k].armed

Gone(k) == [override[k] EXCEPT !.age = Old]
GetSnapshot ==
    /\ override' = [k \in Keys |-> IF Ended(k) THEN Gone(k) ELSE override[k]]
    /\ UNCHANGED <<truth, reading, refreshed, refresh, command, fresh, held, acts>>

Older(a) == IF a = Old THEN Old ELSE a + 1
(* Everything kept is one step older; a command shown for TTL is let go.   *)
Aged ==
    /\ refreshed' = Older(refreshed)
    /\ refresh' = [refresh EXCEPT !.age = Older(@)]
TimeIsUp(k) == override[k].age = TTL /\ refreshed > TTL

Tick ==
    /\ Aged /\ override' = [k \in Keys |-> [override[k] EXCEPT !.age = Older(@)]]
    /\ fresh' = [k \in Keys |-> IF TimeIsUp(k) THEN BOOLEAN ELSE fresh[k]]
    /\ UNCHANGED <<truth, reading, command, held, acts>>

-----------------------------------------------------------------------------
(* With its ids a command finds its own camera; by name alone, the last of *)
(* that name.                                                              *)
FindSyncCamera(k, ids) ==
    IF ids \/ k[2] \notin Cameras THEN k ELSE CameraKey(Last[Name[k[2]]])

(* The tab asks for the key it shows; an automation has the name, and is   *)
(* about whichever camera that is.                                         *)
Arm(r, k, ids, armed) ==
    LET hit == FindSyncCamera(k, ids)
    IN /\ command[r].step = "idle"
       /\ command' = [command EXCEPT ![r] = [step |-> "sent", key |-> IF ids THEN k ELSE hit, hit |-> hit,
                                             armed |-> armed, since |-> {}]]
       /\ acts.commands < MaxCommands /\ acts' = [acts EXCEPT !.commands = @ + 1]
       /\ UNCHANGED <<truth, reading, override, refreshed, refresh, fresh, held>>

(* Blink's flag changes; every history that covers now has the new value.  *)
Becomes(f, armed) ==
    /\ truth' = [truth EXCEPT ![f] = armed]
    /\ fresh' = [k \in Keys |-> IF Flag(k) = f THEN fresh[k] \cup {armed} ELSE fresh[k]]
    /\ held' = [held EXCEPT ![f] = <<@[1] \cup {armed}, @[2] \cup {armed}>>]

Extended(r, f, armed) ==
    IF command[r].step = "taken" /\ Flag(command[r].hit) = f
      THEN [command[r] EXCEPT !.since = @ \cup {armed}] ELSE command[r]

(* Blink takes the command; now and then it has no effect.                 *)
Takes(r, effect) ==
    LET c == command[r]
        f == Flag(c.hit)
        now == IF effect THEN c.armed ELSE truth[f]
    IN /\ c.step = "sent" /\ Becomes(f, now)
       /\ command' = [q \in Requests |-> IF q = r THEN [c EXCEPT !.step = "taken", !.since = {c.armed, now}]
                                         ELSE Extended(q, f, now)]
       /\ UNCHANGED <<reading, override, refreshed, refresh, acts>>

(* Somebody arms or disarms in the Blink app.                              *)
Elsewhere(f, armed) ==
    /\ truth[f] # armed /\ Becomes(f, armed)
    /\ command' = [r \in Requests |-> Extended(r, f, armed)]
    /\ acts.elsewhere < MaxElsewhere /\ acts' = [acts EXCEPT !.elsewhere = @ + 1]
    /\ UNCHANGED <<reading, override, refreshed, refresh>>

(* blinkpy raised, or gave no answer: taken or not, nothing is remembered. *)
NoAnswer(r) ==
    /\ command[r].step # "idle" /\ command' = [command EXCEPT ![r] = Idle]
    /\ UNCHANGED <<truth, reading, override, refreshed, refresh, fresh, held, acts>>

Remembered(k) ==
    {k} \cup (IF k[1] \in SyncLess THEN {j \in Keys : j[1] = k[1]} ELSE {})

Accepted(r) ==
    LET c == command[r]
    IN /\ c.step = "taken" /\ command' = [command EXCEPT ![r] = Idle]
       /\ Aged
       /\ override' = [k \in Keys |-> IF k \in Remembered(c.hit) THEN [armed |-> c.armed, age |-> 0]
                                      ELSE [override[k] EXCEPT !.age = Older(@)]]
       /\ fresh' = [k \in Keys |-> IF Flag(k) = Flag(c.key) THEN c.since
                                   ELSE IF TimeIsUp(k) THEN BOOLEAN ELSE fresh[k]]
       /\ UNCHANGED <<truth, reading, held, acts>>

-----------------------------------------------------------------------------
StartRefresh ==
    /\ ~refresh.on /\ refresh' = [on |-> TRUE, age |-> 0, left |-> Flags]
    /\ refreshed' = Older(refreshed)
    /\ override' = [k \in Keys |-> [override[k] EXCEPT !.age = Older(@)]]
    /\ fresh' = [k \in Keys |-> IF TimeIsUp(k) THEN BOOLEAN ELSE fresh[k]]
    /\ held' = [f \in Flags |-> <<held[f][1], {truth[f]}>>]
    /\ acts.refreshes < MaxRefreshes /\ acts' = [acts EXCEPT !.refreshes = @ + 1]
    /\ UNCHANGED <<truth, reading, command>>

ReadFlag(f) ==
    /\ refresh.on /\ f \in refresh.left
    /\ reading' = [reading EXCEPT ![f] = truth[f]]
    /\ refresh' = [refresh EXCEPT !.left = @ \ {f}]
    /\ UNCHANGED <<truth, override, refreshed, command, fresh, held, acts>>

Over == [on |-> FALSE, age |-> Old, left |-> {}]

(* Blink was asked for its state after the start, and answered.            *)
EndRefresh ==
    /\ refresh.on /\ refresh.left = {} /\ refresh' = Over
    /\ refreshed' = refresh.age /\ held' = [f \in Flags |-> <<held[f][2], BOOLEAN>>]
    /\ UNCHANGED <<truth, reading, override, command, fresh, acts>>

(* Throttled, raised, or skipped: what was read stays read.                *)
RefreshFails ==
    /\ refresh.on /\ refresh' = Over
    /\ UNCHANGED <<truth, reading, override, refreshed, command, fresh, held, acts>>

Next ==
    \/ GetSnapshot \/ Tick \/ StartRefresh \/ EndRefresh \/ RefreshFails
    \/ \E f \in Flags : ReadFlag(f)
    \/ \E f \in {Flag(k) : k \in Armable}, armed \in BOOLEAN : Elsewhere(f, armed)
    \/ \E r \in Requests :
          \/ \E k \in Armable, ids, armed \in BOOLEAN : Arm(r, k, ids, armed)
          \/ \E effect \in BOOLEAN : Takes(r, effect)
          \/ NoAnswer(r) \/ Accepted(r)

Spec == Init /\ [][Next]_armedVars

-----------------------------------------------------------------------------
(* Once Blink has accepted a command the tab never goes back to a state    *)
(* from before it: it shows the command, or what Blink held since it took  *)
(* it, until the time an unconfirmed command is shown for is up.           *)
NoJumpBack == \A k \in Keys : Shown(k) \in fresh[k]

(* With no command accepted since it began, a complete refresh is what the *)
(* tab shows: a command without effect is corrected by the next one.       *)
RefreshCorrects ==
    \A k \in Keys : override[k].age >= refreshed /\ refreshed < Old /\ ~refresh.on => Shown(k) \in held[Flag(k)][1]

(* A Mini's module and its camera never disagree on the tab.               *)
MiniShowsOneState ==
    \A k, j \in Keys : Flag(k) = Flag(j) => Shown(k) = Shown(j)

(* What these rest on.  A refresh under way began after the last complete  *)
(* one; keys that share a flag share what is shown of a command.           *)
ArmedShape ==
    /\ truth \in [Flags -> BOOLEAN] /\ reading \in [Flags -> BOOLEAN]
    /\ override \in [Keys -> [armed : BOOLEAN, age : 0..Old]]
    /\ refreshed \in 0..Old
    /\ refresh \in [on : BOOLEAN, age : 0..Old, left : SUBSET Flags]
    /\ refresh.on => refresh.age <= refreshed
    /\ DOMAIN command = Requests
    /\ \A r \in Requests :
          /\ DOMAIN command[r] = DOMAIN Idle /\ command[r].step \in {"idle", "sent", "taken"}
          /\ command[r].step # "idle" =>
                /\ command[r].hit \in Keys /\ command[r].key = command[r].hit
                /\ command[r].armed \in BOOLEAN /\ command[r].since \subseteq BOOLEAN
    /\ fresh \in [Keys -> SUBSET BOOLEAN]
    /\ held \in [Flags -> (SUBSET BOOLEAN) \X (SUBSET BOOLEAN)]

OneOverride == \A k, j \in Keys : Flag(k) = Flag(j) => override[k] = override[j]

(* What Blink holds now belongs to every stretch of time that covers now.  *)
NowIsCovered ==
    /\ \A k \in Keys : truth[Flag(k)] \in fresh[k]
    /\ \A f \in Flags : truth[f] \in held[f][1] /\ truth[f] \in held[f][2]
    /\ \A r \in Requests : command[r].step = "taken" =>
          command[r].armed \in command[r].since /\ truth[Flag(command[r].hit)] \in command[r].since

(* A flag that the refresh under way has read is from after its start, and *)
(* so from after every command that was accepted before it.                *)
ReadIsCovered ==
    /\ \A f \in Flags : reading[f] \in held[f][1]
    /\ refresh.on => \A f \in Flags \ refresh.left : reading[f] \in held[f][2]
    /\ refresh.on => \A k \in Keys :
          refresh.age <= override[k].age /\ Flag(k) \notin refresh.left => reading[Flag(k)] \in fresh[k]

IInv == ArmedShape /\ OneOverride /\ NowIsCovered /\ ReadIsCovered /\ NoJumpBack
=============================================================================
